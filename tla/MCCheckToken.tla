---------------------------- MODULE MCCheckToken ----------------------------
(***************************************************************************)
(* An instance of CheckToken for TLC.  A start is a question: which URLs     *)
(* are accepted, which listeners, how a JWT is judged, how a change of the    *)
(* configuration meets cached decisions, how chunks share the log, how        *)
(* diagnoses share the probe; the budget of each is its own.                  *)
(***************************************************************************)
EXTENDS CheckToken, TLC

MCDigitRuns == [d \in {"80", "0", "65536", "000080"} |->
                 CASE d = "80" -> [size |-> 2, value |-> 80]    [] d = "0" -> [size |-> 1, value |-> 0]
                   [] d = "65536" -> [size |-> 5, value |-> 65536] [] OTHER -> [size |-> 6, value |-> 80]]
MCDottedDigits == {"0.0.1"}
MCUnacceptable == {" "}

Ftp == <<"ftp", ":", "/", "/">>
V6  == <<"[", ":", ":", "1", "]">>
MkUrl(scheme, user, host, port, rest) == [scheme |-> scheme, user |-> user, host |-> host, port |-> port, rest |-> rest]

Idp   == MkUrl(Https, <<>>, <<"idp.example">>, <<>>, <<"/", "keys">>)
Idp2  == MkUrl(Https, <<>>, <<"idp2.example">>, <<>>, <<"/", "keys">>)
Local == MkUrl(Http, <<>>, <<"localhost">>, <<":", "80">>, <<"/", "keys">>)

MCUrls == {Idp, Local,
  MkUrl(Https, <<>>, <<"idp.example">>, <<>>, <<"/", "a", "@", "b">>),
  MkUrl(Https, <<"u", "@">>, <<"idp.example">>, <<>>, <<>>),
  MkUrl(Https, <<>>, <<"idp.example">>, <<>>, <<"/", " ">>),
  MkUrl(Http, <<>>, <<"idp.example">>, <<>>, <<>>),
  MkUrl(Http, <<>>, <<"idp.example">>, <<>>, <<"/", "localhost">>),
  MkUrl(Http, <<"localhost", ":", "80", "@">>, <<"idp.example">>, <<>>, <<>>),
  MkUrl(Http, <<"localhost", "@">>, <<"idp.example">>, <<":", "80">>, <<>>),
  MkUrl(Http, <<>>, <<"LOCALHOST">>, <<":">>, <<>>),
  MkUrl(Http, <<>>, <<"localhost">>, <<>>, <<"?", "@">>),
  MkUrl(Http, <<>>, <<"localhost">>, <<":", "0">>, <<>>),
  MkUrl(Http, <<>>, <<"localhost">>, <<":", "65536">>, <<>>),
  MkUrl(Http, <<>>, <<"localhost">>, <<":", "000080">>, <<>>),
  MkUrl(Http, <<>>, <<"localhost">>, <<":", "80", ":", "80">>, <<>>),
  MkUrl(Http, <<>>, V6, <<":", "80">>, <<"/">>),
  MkUrl(Http, <<>>, <<"[", ":", ":", "2", "]">>, <<>>, <<>>),
  MkUrl(Http, <<>>, <<"[", ":", ":", "1">>, <<>>, <<>>),
  MkUrl(Http, <<>>, <<"[", ":", ":", "1", "]", "idp.example">>, <<>>, <<>>),
  MkUrl(Http, <<>>, <<"127.", "0.0.1">>, <<>>, <<>>),
  MkUrl(Http, <<>>, <<"127.", "idp.example">>, <<>>, <<>>),
  MkUrl(Http, <<>>, <<>>, <<>>, <<"/">>),
  MkUrl(Ftp, <<>>, <<"localhost">>, <<>>, <<>>),
  MkUrl(<<>>, <<>>, <<"acme">>, <<>>, <<>>),
  MkUrl(<<>>, <<"u", "@">>, <<"acme">>, <<>>, <<>>)}

Server    == [NoSecret EXCEPT !.type = "quack_oauth_server"]
WithKeys(u)   == [Server EXCEPT !.jwksUri = u, !.issuer = <<"iss">>, !.audience = "api"]
WithAsk(u)    == [Server EXCEPT !.endpoint = u, !.clientId = <<"id">>, !.clientSecret = <<"pw">>]
WithTenant(u) == [Server EXCEPT !.tenant = u, !.clientSecret = <<"pw">>]
OldType       == [NoSecret EXCEPT !.type = "quack_oauth", !.issuer = <<"iss">>]

MCNames   == {"s"}
MCOffered == {WithKeys(Idp2), WithAsk(Idp2), WithTenant(Local), WithKeys(MkUrl(Http, <<>>, <<"idp.example">>, <<>>, <<>>))}
MCSettings ==
  {<<"mode", "tokeninfo">>, <<"mode", "">>, <<"mode", "bogus">>, <<"provider", "google">>, <<"skew", 1>>,
   <<"skew", -1>>, <<"trust", TRUE>>, <<"secretName", "">>}

Quack(host, port) == MkUrl(<<"quack", ":">>, <<>>, host, port, <<>>)
MCListeners ==
  {Quack(<<"localhost">>, <<":", "80">>), Quack(<<"0.0.0.0">>, <<":", "80">>), Quack(<<"0.0.0.0">>, <<>>),
   Quack(V6, <<":", "80">>), Quack(<<":", ":", "1">>, <<":", "80">>), Quack(<<":", ":", "1">>, <<>>),
   Quack(<<"[", ":", ":", "]">>, <<":", "80">>), Quack(<<"127.", "0.0.1">>, <<>>),
   MkUrl(<<"quack", ":", "/", "/">>, <<>>, <<"LOCALHOST">>, <<":", "80">>, <<>>),
   MkUrl(<<"quack", ":", "/", "/">>, <<>>, <<"idp.example">>, <<":", "80">>, <<>>),
   MkUrl(Http, <<>>, <<"localhost">>, <<":", "80">>, <<>>)}

MCLexemes == UNION {ToSet(Text(u)) : u \in MCUrls \cup MCListeners \cup {Idp2}} \cup {"certs", "introspect"}

\* Keys under the tokens' kid: a good one after others that do not serve.
Key(id, kty, bits, crv, use, alg) ==
  [id |-> id, kty |-> kty, bits |-> bits, crv |-> crv, use |-> use, alg |-> alg,
   complete |-> TRUE, sound |-> TRUE]
MCKeysAt == [u \in MCUrls \cup {Idp2} |->
  CASE u.host = <<"idp.example">> ->
         <<Key("short", "RSA", 1024, "", "", ""), [Key("off", "EC", 0, "P-256", "", "") EXCEPT !.sound = FALSE],
           Key("p521", "EC", 0, "P-521", "", ""), Key("p256", "EC", 0, "P-256", "sig", "ES256"),
           [Key("cut", "RSA", 2048, "", "", "") EXCEPT !.complete = FALSE], Key("ed", "OKP", 0, "Ed25519", "", ""),
           Key("other", "RSA", 2048, "", "sig", ""), Key("good", "RSA", 2048, "", "", "RS256")>>
    [] OTHER -> <<[Key("none", "oct", 0, "", "", "") EXCEPT !.complete = FALSE]>>]

Good == [alg |-> "RS256", signer |-> "good", iss |-> <<"iss">>, aud |-> {"api"},
         exp |-> 2, nbf |-> NoTime, iat |-> 1, malformed |-> FALSE]
MCJwt == [k \in {"good", "late", "early", "issued", "alien", "other", "noaud", "forged", "short", "ec",
                 "mixed", "none", "bad", "edge"} |->
  CASE k = "good"   -> [Good EXCEPT !.exp = NoTime]
    [] k = "edge"   -> Good
    [] k = "late"   -> [Good EXCEPT !.exp = 0, !.iss = <<"x">>]
    [] k = "early"  -> [Good EXCEPT !.nbf = 3, !.exp = 9]
    [] k = "issued" -> [Good EXCEPT !.iat = 3, !.exp = 9]
    [] k = "alien"  -> [Good EXCEPT !.iss = <<"x">>]
    [] k = "other"  -> [Good EXCEPT !.aud = {"x"}, !.nbf = 3]
    [] k = "noaud"  -> [Good EXCEPT !.aud = {}]
    [] k = "forged" -> [Good EXCEPT !.signer = "x"]
    [] k = "short"  -> [Good EXCEPT !.signer = "short"]
    [] k = "ec"     -> [Good EXCEPT !.signer = "p256", !.alg = "ES256"]
    [] k = "mixed"  -> [Good EXCEPT !.signer = "good", !.alg = "EdDSA"]
    [] k = "none"   -> [Good EXCEPT !.alg = "none"]
    [] OTHER        -> [Good EXCEPT !.malformed = TRUE]]
\* The opaque modes meet one token, "good"; what they make of several is
\* OpaqueValidator's subject.  JwtStarts present the others.
MCTokens == DOMAIN MCJwt
MCExpOf  == [k \in MCTokens |-> 0]

With(mode, provider) == [mode |-> mode, provider |-> provider, secretName |-> "s", skew |-> 0, trust |-> FALSE]
Budget(tokens, checks, diagnoses, changing, ticking) ==
  [wallet |-> tokens, checks |-> checks, diagnoses |-> diagnoses, changes |-> changing, ticks |-> ticking]
Start(set, secret, listening, b) ==
  [settings |-> set, secrets |-> [n \in MCNames |-> secret], listeners |-> listening, budget |-> b]

OneCall == Budget({"good"}, 1, 0, 1, 0)
UrlStarts ==
  {Start(With("jwks", "generic"), WithKeys(u), {}, OneCall) : u \in MCUrls}
  \cup {Start(With("introspect", "generic"), WithAsk(u), {}, OneCall) : u \in MCUrls}
  \cup {Start(With(m, p), WithTenant(u), {}, OneCall) :
          m \in {"jwks", "introspect"}, p \in {"keycloak", "entra", "GitHub", "okta", "other"}, u \in MCUrls}
  \cup {Start(With(m, p), s, {}, OneCall) :
          m \in {"jwks", "tokeninfo", "github_check"}, p \in {"okta", "google", "GitHub", "Generic"},
          s \in {Server, OldType, WithKeys(Idp), WithAsk(Idp), [WithKeys(Idp) EXCEPT !.tenant = Local]}}
ListenerStarts == {Start(With("jwks", "generic"), WithKeys(Idp), {l}, Budget({"good"}, 1, 0, 2, 0)) : l \in MCListeners}
JwtStarts      == {Start([With("jwks", "generic") EXCEPT !.skew = s], WithKeys(Idp), {},
                         Budget(DOMAIN MCJwt, 1, 0, 1, 3)) : s \in {0, 1}}
OpaqueStarts   == {Start(With("introspect", "generic"), WithAsk(Idp), {}, Budget({"good"}, 3, 0, 1, 3))}
LogStarts      == {Start(With("jwks", "generic"), WithKeys(Idp), {}, Budget({"good"}, 4, 0, 0, 3))}
ProbeStarts    == {Start(With("jwks", "generic"), WithKeys(Idp), {}, Budget({"good"}, 0, 3, 1, 3))}

MCStarts == UrlStarts \cup ListenerStarts \cup JwtStarts \cup OpaqueStarts \cup LogStarts \cup ProbeStarts
CallerSymmetry == Permutations(Callers)
============================================================================
