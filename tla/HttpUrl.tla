------------------------------- MODULE HttpUrl -------------------------------
(***************************************************************************)
(* How the code reads URLs: ValidateHttpUrl and its helpers (secrets.cpp)    *)
(* and the hosts of quack listeners (plaintext_guard.cpp).                   *)
(*                                                                          *)
(* The code sees a URL as text.  Here the text is a sequence of lexemes: a   *)
(* lexeme is one delimiter (":", "/", "@", "[", ...) or a run of other       *)
(* characters.  Urls are written down by structure, as records of scheme,    *)
(* user, host, port and rest, and Text is the only way from the structure    *)
(* to what the code reads; what a URL really designates is its structure.    *)
(***************************************************************************)
EXTENDS Naturals, Sequences, SequencesExt

CONSTANTS
  Lexemes,        \* the delimiters and runs that URLs are written in
  DigitRuns,      \* lexemes of digits, as lexeme -> [size, value]
  DottedDigits,   \* lexemes of digits and dots
  Unacceptable    \* lexemes with control characters, quotes, spaces or of excessive length

ASSUME HttpUrlAssumption ==
  DottedDigits \cap {":", "/", "?", "#", "@", "[", "]", "localhost"} = {}

NoUrl == [scheme |-> <<>>, user |-> <<>>, host |-> <<>>, port |-> <<>>, rest |-> <<>>]
Text(u) == u.scheme \o u.user \o u.host \o u.port \o u.rest

Url == [scheme : Seq(Lexemes), user : Seq(Lexemes), host : Seq(Lexemes), port : Seq(Lexemes), rest : Seq(Lexemes)]

Http  == <<"http", ":", "/", "/">>
Https == <<"https", ":", "/", "/">>

Free(s, lexemes) == \A i \in DOMAIN s : s[i] \notin lexemes

\* u is what its text designates by the grammar of URLs: each delimiter that
\* ends a part is where that part ends.  What comes without a scheme (a tenant)
\* does not begin like one.  Only the literal in brackets has a ':' in a host.
WellFormed(u) ==
  /\ u \in Url
  /\ \/ Len(u.scheme) = 4 /\ SubSeq(u.scheme, 2, 4) = <<":", "/", "/">>
     \/ u.scheme = <<>> /\ ~(Len(Text(u)) > 1 /\ Text(u)[1] \in {"http", "https"} /\ Text(u)[2] = ":")
  /\ Free(u.user \o u.host \o u.port, {"/", "?", "#"})
  /\ u.user # <<>> => u.user[Len(u.user)] = "@"
  /\ IF u.host # <<>> /\ u.host[1] = "["
     THEN /\ \E i \in DOMAIN u.host : u.host[i] = ":" /\ \A j \in 1..i : u.host[j] # "]"
          /\ \A i \in DOMAIN u.host : u.host[i] = "]" => i = Len(u.host) \/ u.host[i + 1] # ":"
     ELSE Free(u.host, {":"})
  /\ u.port # <<>> => u.port[1] = ":" /\ Free(u.port, {"[", "]"})
  /\ u.rest # <<>> => u.rest[1] \in {"/", "?", "#"}

\* A listen URI of a quack server is a scheme, a host and a port; an IPv6
\* address without brackets, other than ::1, comes with its port.
ListenUri(l) ==
  /\ l \in Url /\ l.user = <<>> /\ l.rest = <<>> /\ l.host # <<>> /\ Free(l.host, {"/"})
  /\ \/ Len(l.scheme) = 2 /\ l.scheme[2] = ":"
     \/ Len(l.scheme) = 4 /\ SubSeq(l.scheme, 2, 4) = <<":", "/", "/">>
  /\ l.port # <<>> => Len(l.port) = 2 /\ l.port[1] = ":" /\ l.port[2] # ":"
  /\ IF l.host[1] = "[" THEN \A i \in DOMAIN l.host : l.host[i] = "]" => i = Len(l.host)
     ELSE l.port = <<>> => Free(l.host, {":"}) \/ l.host = <<":", ":", "1">>

\* The hosts that designate this machine: localhost, 127.0.0.0/8 and ::1.
ThisMachine(host) ==
  \/ host \in {<<"localhost">>, <<"LOCALHOST">>, <<":", ":", "1">>, <<"[", ":", ":", "1", "]">>}
  \/ host # <<>> /\ host[1] = "127." /\ \A i \in 2..Len(host) : host[i] \in DottedDigits

Without(prefix, s) == SubSeq(s, Len(prefix) + 1, Len(s))

\* s up to its first element of ends, and what follows that element.
UpTo(s, ends) ==
  LET i == SelectInSeq(s, LAMBDA x : x \in ends) IN IF i = 0 THEN s ELSE SubSeq(s, 1, i - 1)
Past(s, ends) ==
  LET i == SelectInSeq(s, LAMBDA x : x \in ends) IN IF i = 0 THEN <<>> ELSE SubSeq(s, i + 1, Len(s))

Authority(scheme, text) == UpTo(Without(scheme, text), {"/", "?", "#"})

\* "LOCALHOST" stands for the spellings of localhost with capitals.
AsciiToLower(host) == [i \in DOMAIN host |-> IF host[i] = "LOCALHOST" THEN "localhost" ELSE host[i]]

IsLoopbackHost(host) ==
  LET lower == AsciiToLower(host) IN
  \/ lower = <<"localhost">>
  \/ lower \in {<<":", ":", "1">>, <<"[", ":", ":", "1", "]">>}
  \/ IsPrefix(<<"127.">>, lower) /\ ToSet(Tail(lower)) \subseteq DottedDigits

\* The host of a listener's "quack:" or "quack://" URI; empty if it has none.
HostFromQuackUri(uri) ==
  LET body == CASE IsPrefix(<<"quack", ":", "/", "/">>, uri) -> SubSeq(uri, 5, Len(uri))
                [] IsPrefix(<<"quack", ":">>, uri) /\ ~IsPrefix(<<"quack", ":", "/", "/">>, uri)
                     -> SubSeq(uri, 3, Len(uri))
                [] OTHER -> <<>>
      colon == SelectLastInSeq(body, LAMBDA x : x = ":") IN
  CASE body = <<>>                       -> <<>>
    [] body # <<>> /\ body[1] = "["      -> IF Contains(body, "]") THEN Append(UpTo(body, {"]"}), "]") ELSE <<>>
    [] OTHER                             -> IF colon = 0 THEN body ELSE SubSeq(body, 1, colon - 1)

ValidPort(port) ==
  \/ port = <<>>
  \/ /\ Len(port) = 1 /\ port[1] \in DOMAIN DigitRuns
     /\ DigitRuns[port[1]].size <= 5 /\ DigitRuns[port[1]].value \in 1..65535

\* An authority is split at the bracket that ends an IPv6 literal, or at the
\* first ':'; host is empty where the code gives up.
HostAndPort(authority) ==
  IF authority[1] = "["
  THEN LET inner == Past(UpTo(authority, {"]"}), {"["})
           after == Past(authority, {"]"}) IN
       IF Contains(authority, "]") /\ (after = <<>> \/ after[1] = ":")
       THEN [host |-> inner, port |-> Without(<<":">>, after)]
       ELSE [host |-> <<>>, port |-> <<>>]
  ELSE [host |-> UpTo(authority, {":"}), port |-> Past(authority, {":"})]

IsLocalhostUrl(text) ==
  LET authority == Authority(Http, text) IN
  /\ IsPrefix(Http, text)
  /\ authority # <<>> /\ ~Contains(authority, "@")
  /\ ValidPort(HostAndPort(authority).port)
  /\ IsLoopbackHost(HostAndPort(authority).host)

\* ValidateHttpUrl returns, i.e. does not throw.
ValidHttpUrl(text) ==
  \/ text = <<>>
  \/ /\ ToSet(text) \cap Unacceptable = {}
     /\ \/ IsPrefix(Https, text) /\ ~Contains(Authority(Https, text), "@")
        \/ IsPrefix(Http, text) /\ ~Contains(Authority(Http, text), "@") /\ IsLocalhostUrl(text)

ValidTenantOrRealm(text) ==
  \/ text = <<>>
  \/ /\ ToSet(text) \cap Unacceptable = {}
     /\ IF IsPrefix(Http, text) \/ IsPrefix(Https, text) THEN ValidHttpUrl(text) ELSE ~Contains(text, "@")
==============================================================================
