----------------------------- MODULE CheckToken -----------------------------
(***************************************************************************)
(* A call of quack_oauth_check_token from the plaintext guard to the end of  *)
(* its chunk, under a configuration that an operator changes meanwhile, and  *)
(* quack_oauth_diagnose beside it (check_token_function.cpp, diagnose.cpp).   *)
(*                                                                          *)
(* Settings are global and each is read on its own: a SET or CREATE SECRET    *)
(* of another connection may come between any two reads.  The fields of the   *)
(* SECRET are a snapshot.  A section under state.mu is one step; the mutex    *)
(* is free while a call reads its configuration, asks the provider or probes  *)
(* it.  A chunk has one row; what happens inside JWKS mode's key cache and     *)
(* inside the opaque modes is in JwksValidator and OpaqueValidator, here the   *)
(* keys are those that the endpoint lists and the provider vouches or not.     *)
(*                                                                          *)
(* vouch and used are history: the configuration that a cached decision was   *)
(* made under, and when that was last in force or held by a running call.      *)
(* budget bounds what is still to come: ticks, changes by operators, checks,    *)
(* diagnoses, and the wallet of tokens that clients present.                    *)
(* lines[k] is the reading of the last warning for k and a bit that each        *)
(* warning flips; it is forgotten when the log overflows.                       *)
(***************************************************************************)
EXTENDS ServerConfig, JwtVerify, ThrottleLog, DecisionCache

CONSTANTS
  Callers,          \* connections
  Settings,         \* what an operator sets: sets of <<setting, value>>
  Starts,           \* records of settings, secrets (from disk), listeners and the budget
  Names,            \* names of SECRETs
  Offered,          \* SECRETs that operators write down
  Listeners,        \* listen URIs of quack servers
  Jwt,              \* the JWT that a token is, Tokens -> record
  KeysAt,           \* the keys that endpoints list under the kid of the tokens, URL -> list
  ExpOf,            \* the exp that a provider reports of a token
  ProbeWindowS      \* 2 s

SettingNames == {"mode", "provider", "secretName", "skew", "trust"}

\* The values that a setting can have; what SET refuses is in its guard.
OfType(setting, value) ==
  /\ setting = "skew"       => value \in Int
  /\ setting = "trust"      => value \in BOOLEAN
  /\ setting = "secretName" => value \in Names \cup {""}

\* SECRETs, listeners and settings are what can be written down.
ASSUME ConfigAssumption ==
  /\ \A s \in Starts : /\ DOMAIN s.settings = SettingNames /\ \A x \in SettingNames : OfType(x, s.settings[x])
                       /\ DOMAIN s.secrets = Names /\ \A n \in Names : WellFormedSecret(s.secrets[n])
                       /\ \A l \in s.listeners : ListenUri(l)
  /\ \A x \in Settings : x[1] \in SettingNames /\ OfType(x[1], x[2])
  /\ \A s \in Offered : WellFormedSecret(s)
  /\ \A l \in Listeners : ListenUri(l)

\* A JWKS is a list, and the times of a JWT are whole numbers.
ASSUME JwtAssumption ==
  /\ \A u \in DOMAIN KeysAt : DOMAIN KeysAt[u] \subseteq Nat
  /\ \A k \in Tokens : Jwt[k].exp \in Int /\ Jwt[k].nbf \in Int /\ Jwt[k].iat \in Int

\* A provider reports exp as a number that is not negative, or it counts as
\* absent, 0; clients present tokens.
ASSUME CheckTokenAssumption ==
  /\ ProbeWindowS \in Nat \ {0} /\ ExpOf \in [Tokens -> Nat]
  /\ \A s \in Starts : "wallet" \in DOMAIN s.budget /\ s.budget.wallet \subseteq Tokens

VARIABLES settings, secrets, listeners, now, decisions, throttleLog, probe, call,
          vouch, used, lines, budget
config  == <<settings, secrets, listeners>>
history == <<vouch, lines>>
vars    == <<settings, secrets, listeners, now, decisions, throttleLog, probe, call,
             vouch, used, lines, budget>>

NoProbe  == [uri |-> NoUrl, at |-> 0, result |-> "", askedAt |-> 0]
NoOne    == "no token"
IdleCall == [pc |-> "Idle", trusted |-> FALSE, seen |-> {}, name |-> "", secret |-> NoSecret,
             cfg |-> NoConfig, now |-> 0, tok |-> NoOne, result |-> "", uri |-> NoUrl, askedAt |-> 0]

NoLine   == [at |-> NoStamp, odd |-> FALSE]

Init ==
  /\ \E s \in Starts :
       /\ settings = s.settings /\ secrets = s.secrets /\ listeners = s.listeners
       /\ budget = s.budget
  /\ now = 1
  /\ decisions = EmptyDecisions /\ throttleLog = EmptyLog /\ probe = NoProbe
  /\ call = [t \in Callers |-> IdleCall]
  /\ vouch = [k \in Tokens |-> NoConfig] /\ used = [k \in Tokens |-> 0]
  /\ lines = [k \in LogKeys |-> NoLine]

\* The configurations in force or held by a call.
InUse == {LoadServerConfig(settings, secrets)} \cup {call[t].cfg : t \in Callers}
NoteUse ==
  used' = [k \in Tokens |-> CASE vouch'[k] = NoConfig -> 0
                             [] vouch'[k] # NoConfig /\ vouch'[k] \in InUse -> now
                             [] OTHER -> used[k]]

Spend(what) == budget[what] > 0 /\ budget' = [budget EXCEPT ![what] = @ - 1]

(***************************************************************************)
(* The environment: the clock and operators.                                *)
(***************************************************************************)
Tick ==
  /\ Spend("ticks")
  /\ now' = now + 1
  /\ UNCHANGED <<config, decisions, throttleLog, probe, call, history>>
  /\ NoteUse

Changes ==
  /\ Spend("changes")
  /\ UNCHANGED <<now, decisions, throttleLog, probe, call, history>>
  /\ NoteUse

Set ==
  /\ \E x \in Settings :
       /\ x[1] = "skew" => OnClockSkewSeconds(x[2])
       /\ settings' = [settings EXCEPT ![x[1]] = x[2]]
  /\ UNCHANGED <<secrets, listeners>>
  /\ Changes

CreateSecret ==
  /\ \E n \in Names, s \in Offered : CreateServerSecret(s) /\ secrets' = [secrets EXCEPT ![n] = s]
  /\ UNCHANGED <<settings, listeners>>
  /\ Changes

DropSecret ==
  /\ \E n \in Names : secrets' = [secrets EXCEPT ![n] = NoSecret]
  /\ UNCHANGED <<settings, listeners>>
  /\ Changes

Listen ==
  /\ \E l \in Listeners : listeners' = listeners \cup {l}
  /\ UNCHANGED <<settings, secrets>>
  /\ Changes

(***************************************************************************)
(* quack_oauth_check_token: the plaintext guard and the configuration.       *)
(***************************************************************************)
\* A step of t that only reads shared state.
Reads(t, c) ==
  /\ call' = [call EXCEPT ![t] = c]
  /\ UNCHANGED <<config, now, decisions, throttleLog, probe, history, budget>>
  /\ NoteUse

Throw(t) == Reads(t, IdleCall)

Begin(t, pc) ==
  /\ call[t].pc = "Idle"
  /\ call' = [call EXCEPT ![t].pc = pc]
  /\ UNCHANGED <<config, now, decisions, throttleLog, probe, history>>
  /\ NoteUse

CheckTokenScalarFun(t) == Spend("checks") /\ Begin(t, "Trust")

ReadTrust(t) ==
  /\ call[t].pc = "Trust"
  /\ Reads(t, [call[t] EXCEPT !.pc = IF settings.trust THEN "Name" ELSE "Listeners",
                              !.trusted = settings.trust])

\* quack_server_list() fails without quack: then there are no listeners.
EnforcePlaintextGuard(t) ==
  /\ call[t].pc = "Listeners"
  /\ IF \A l \in listeners : IsLoopbackHost(HostFromQuackUri(Text(l)))
     THEN Reads(t, [call[t] EXCEPT !.pc = "Name", !.seen = listeners])
     ELSE Throw(t)

ReadSecretName(t) ==
  /\ call[t].pc = "Name"
  /\ IF settings.secretName # "" THEN Reads(t, [call[t] EXCEPT !.pc = "Open", !.name = settings.secretName])
                                 ELSE Throw(t)

OpenSecret(t) ==
  /\ call[t].pc = "Open"
  /\ IF secrets[call[t].name] # NoSecret
     THEN Reads(t, [call[t] EXCEPT !.pc = "Mode", !.secret = secrets[call[t].name], !.name = ""])
     ELSE Throw(t)

ReadMode(t) ==
  /\ call[t].pc = "Mode"
  /\ Reads(t, [call[t] EXCEPT !.pc = "Skew", !.cfg.mode = settings.mode])

ReadSkew(t) ==
  /\ call[t].pc = "Skew"
  /\ Reads(t, [call[t] EXCEPT !.pc = "Provider",
                              !.cfg = ReadServerConfigCore(call[t].secret, @.mode, settings.skew)])

ReadProvider(t) ==
  /\ call[t].pc = "Provider"
  /\ LET cfg == ApplyProviderPreset(settings.provider, call[t].secret, call[t].cfg) IN
     IF PresetApplies(settings.provider, call[t].secret) /\ ValidateServerConfig(cfg)
     THEN Reads(t, [call[t] EXCEPT !.pc = "Clock", !.cfg = cfg, !.secret = NoSecret])
     ELSE Throw(t)

ReadClock(t) ==
  /\ call[t].pc = "Clock"
  /\ \E k \in budget.wallet : Reads(t, [call[t] EXCEPT !.pc = "Row", !.now = now, !.tok = k])

(***************************************************************************)
(* The row: by the provider's word in the opaque modes, by keys in jwks mode. *)
(***************************************************************************)
Opaque(t) == call[t].cfg.mode # "jwks"
Options(t) == [issuer |-> call[t].cfg.issuer, audience |-> call[t].cfg.audience,
               skew |-> call[t].cfg.skew, now |-> call[t].now]

\* A step of t under the mutex that leaves the decision cache as d.
Validates(t, c, d) ==
  /\ call' = [call EXCEPT ![t] = c]
  /\ decisions' = d
  /\ UNCHANGED <<config, now, throttleLog, probe, lines, budget>>

Rests(held, decided) == vouch' = [k \in Tokens |-> IF k \in held THEN decided[k] ELSE NoConfig]

AcceptCached(t) ==
  /\ call[t].pc = "Row" /\ Opaque(t)
  /\ Covers(decisions, call[t].tok, call[t].now)
  /\ Validates(t, [call[t] EXCEPT !.pc = "Done", !.result = "Ok"],
               Touch(decisions, call[t].tok, call[t].now))
  /\ UNCHANGED vouch /\ NoteUse

Ask(t) ==
  /\ call[t].pc = "Row" /\ Opaque(t)
  /\ ~Covers(decisions, call[t].tok, call[t].now)
  /\ Validates(t, [call[t] EXCEPT !.pc = "Asking"], Touch(decisions, call[t].tok, call[t].now))
  /\ Rests(decisions'.held, vouch) /\ NoteUse

Vouched(t) ==
  /\ call[t].pc = "Asking"
  /\ Validates(t, [call[t] EXCEPT !.pc = "Done", !.result = "Ok"],
               Store(decisions, call[t].tok, ExpOf[call[t].tok], call[t].now))
  /\ Rests(decisions'.held, IF decisions' = decisions THEN vouch
                            ELSE [vouch EXCEPT ![call[t].tok] = call[t].cfg])
  /\ NoteUse

Refused(t) ==
  /\ call[t].pc = "Asking"
  /\ Validates(t, [call[t] EXCEPT !.pc = "Done", !.result = "Refused"], decisions)
  /\ UNCHANGED vouch /\ NoteUse

Listed(uri) == IF uri \in DOMAIN KeysAt THEN KeysAt[uri] ELSE <<>>

\* The keys are fetched from, or were cached for, the endpoint of the configuration.
Judge(t) ==
  /\ call[t].pc = "Row" /\ ~Opaque(t)
  /\ \E r \in ValidateToken(Jwt[call[t].tok], Listed(call[t].cfg.jwksUri), Options(t)) \cup {"JwksFetchFailed"} :
       Validates(t, [call[t] EXCEPT !.pc = "Done", !.result = r], decisions)
  /\ UNCHANGED vouch /\ NoteUse

\* The end of the chunk: what its rows were throttled for is logged.
FinishChunk(t) ==
  /\ call[t].pc = "Done"
  /\ \E events \in IF Opaque(t) THEN {{}} ELSE SUBSET LogKeys :
       /\ throttleLog' \in LogThrottledEvents(throttleLog, events, call[t].now)
       /\ lines' = LET new == NewLines(throttleLog, events, call[t].now) IN
                   [k \in LogKeys |->
                      CASE Cardinality(Logged(throttleLog) \cup new) > LogCap -> NoLine
                        [] OTHER -> IF k \in new THEN [at |-> call[t].now, odd |-> ~lines[k].odd] ELSE lines[k]]
  /\ call' = [call EXCEPT ![t] = IdleCall]
  /\ UNCHANGED <<config, now, decisions, probe, vouch, budget>>
  /\ NoteUse

(***************************************************************************)
(* quack_oauth_diagnose: the probe of the provider.  The other rows are read  *)
(* under the mutex in one step and change nothing.                            *)
(***************************************************************************)
DiagnoseBind(t) == Spend("diagnoses") /\ Begin(t, "ProbeName")

ReadProbeName(t) ==
  /\ call[t].pc = "ProbeName"
  /\ Reads(t, IF settings.secretName = "" THEN IdleCall
              ELSE [call[t] EXCEPT !.pc = "ProbeSecret", !.name = settings.secretName])

\* A SECRET that is missing or of another type has no URI: unconfigured.
TryOpenSecret(t) ==
  /\ call[t].pc = "ProbeSecret"
  /\ LET s   == IF secrets[call[t].name].type = "quack_oauth_server" THEN secrets[call[t].name] ELSE NoSecret
         uri == IF s.jwksUri # NoUrl THEN s.jwksUri ELSE s.endpoint IN
     Reads(t, IF uri = NoUrl THEN IdleCall ELSE [call[t] EXCEPT !.pc = "ProbeClock", !.uri = uri, !.name = ""])

ReadProbeClock(t) ==
  /\ call[t].pc = "ProbeClock"
  /\ Reads(t, [call[t] EXCEPT !.pc = "ProbeCheck", !.now = now])

RecentProbe(uri, at) ==
  probe.uri = uri /\ probe.at > 0 /\ at >= probe.at /\ at - probe.at < ProbeWindowS

UseProbe(t) ==
  /\ call[t].pc = "ProbeCheck" /\ RecentProbe(call[t].uri, call[t].now)
  /\ Reads(t, IdleCall)

StartProbe(t) ==
  /\ call[t].pc = "ProbeCheck" /\ ~RecentProbe(call[t].uri, call[t].now)
  /\ Reads(t, [call[t] EXCEPT !.pc = "Probing", !.askedAt = now])

\* Mutant: the result is stamped when it is stored.
StampAtStore(t, r) == [uri |-> call[t].uri, at |-> now, result |-> r, askedAt |-> call[t].askedAt]

\* The result is stamped with the reading from before the request.
ProbeResult(t, r) == [uri |-> call[t].uri, at |-> call[t].now, result |-> r, askedAt |-> call[t].askedAt]

EndProbe(t) ==
  /\ call[t].pc = "Probing"
  /\ \E r \in {"reachable", "unreachable"} : probe' = ProbeResult(t, r)
  /\ call' = [call EXCEPT ![t] = IdleCall]
  /\ UNCHANGED <<config, now, decisions, throttleLog, history, budget>>
  /\ NoteUse

Operator == Set \/ CreateSecret \/ DropSecret \/ Listen
LoadConfig(t) ==
  ReadTrust(t) \/ EnforcePlaintextGuard(t) \/ ReadSecretName(t) \/ OpenSecret(t)
  \/ ReadMode(t) \/ ReadSkew(t) \/ ReadProvider(t) \/ ReadClock(t)
ValidateChunk(t) == AcceptCached(t) \/ Ask(t) \/ Vouched(t) \/ Refused(t) \/ Judge(t) \/ FinishChunk(t)
Diagnose(t) ==
  ReadProbeName(t) \/ TryOpenSecret(t) \/ ReadProbeClock(t) \/ UseProbe(t) \/ StartProbe(t) \/ EndProbe(t)

Next ==
  \/ Tick
  \/ Operator
  \/ \E t \in Callers :
       CheckTokenScalarFun(t) \/ DiagnoseBind(t) \/ LoadConfig(t) \/ ValidateChunk(t) \/ Diagnose(t)

Spec == Init /\ [][Next]_vars

(***************************************************************************)
(* Properties.                                                              *)
(***************************************************************************)
\* By its structure, a URL is protected: https or this machine, and without
\* a user before the host.
Protected(u) == u.user = <<>> /\ (u.scheme = Https \/ ThisMachine(u.host))

\* No token, credential or key travels in the clear: whatever is written in
\* a SECRET, restored from disk, filled in by a preset or changed between two
\* reads, the provider that a row is asked about, or whose keys it is judged
\* by, is protected; and past EnforcePlaintextGuard every listener that it
\* saw was bound to this machine, or an operator had opted in.
TrafficProtected ==
  \A t \in Callers :
    /\ call[t].pc = "Asking" => Protected(call[t].cfg.endpoint)
    /\ call[t].pc = "Row" /\ ~Opaque(t) => Protected(call[t].cfg.jwksUri)
    /\ call[t].pc \in {"Row", "Asking"} =>
         call[t].trusted \/ \A l \in call[t].seen : ThisMachine(l.host)

\* A changed configuration takes effect within one cache lifetime: a token
\* that is accepted from the decision cache, which is keyed by the token
\* alone, rests on a configuration that is in force, held by a running call,
\* or was so less than default_ttl_s before the chunk's reading of the clock.
ConfigTakesEffect ==
  [][\A t \in Callers :
       call[t].pc = "Row" /\ Opaque(t) /\ call'[t].result = "Ok" =>
         \/ vouch[call[t].tok] \in InUse
         \/ call[t].now - used[call[t].tok] < DecisionTtlS]_vars

\* A key that the endpoint lists for signatures made this token's signature.
Signed(tok, listed) ==
  /\ ~tok.malformed /\ tok.alg \in DefaultAllowedAlgorithms
  /\ \E i \in DOMAIN listed :
       LET k == listed[i] IN
       /\ IsUsableSigningKey(k) /\ FitsAlgorithm(tok.alg, k)
       /\ k.use \in {"", "sig"} /\ k.alg \in {"", tok.alg} /\ k.id = tok.signer

\* What the verdict r of the code says of the token under o.  Two reasons cover
\* more than their name and documentation: Expired is also returned for a token
\* issued in the future (ahead), whatever its exp, and WrongIssuer for one of the
\* right issuer that lacks the required aud, since jwt-cpp calls that a missing
\* claim.
TrueOf(r, tok, listed, o) ==
  LET signed == Signed(tok, listed)
      past   == tok.exp # NoTime /\ tok.exp + o.skew < o.now
      soon   == tok.nbf # NoTime /\ tok.nbf > o.now + o.skew
      ahead  == tok.iat # NoTime /\ tok.iat > o.now + o.skew
      alien  == o.issuer # <<>> /\ tok.iss # o.issuer
      other  == o.audience # "" /\ o.audience \notin tok.aud IN
  /\ r = "Ok" <=> signed /\ ~past /\ ~soon /\ ~ahead /\ ~alien /\ ~other
  /\ r = "Ok" => ~IsPrincipalExpired(PrincipalFromJwt(tok), o.now, o.skew)
  /\ r = "Expired"       => signed /\ ~soon /\ (past \/ ahead)
  /\ r = "NotYetValid"   => signed /\ soon
  /\ r = "WrongIssuer"   => signed /\ (alien \/ (other /\ tok.aud = {}))
  /\ r = "WrongAudience" => signed /\ other
  /\ r = "Malformed"           => tok.malformed
  /\ r = "DisallowedAlgorithm" => tok.alg \notin DefaultAllowedAlgorithms
  /\ r \in {"InvalidSignature", "NoMatchingKey", "UnknownKid"} => ~signed

\* A verdict of jwks mode for which keys were at hand.
Judged(t) == call[t].pc = "Done" /\ ~Opaque(t) /\ call[t].result # "JwksFetchFailed"

\* In jwks mode a token is accepted exactly if a usable key listed under its
\* kid signed it and its claims fit the configuration at the chunk's reading,
\* whatever other keys are listed and in whatever order the claims are checked
\* (VerifyWithCachedKeys, VerifyJwt); a rejected one fails a check that the
\* code returns this reason for, as TrueOf has it.  That the reason fits what
\* API_REFERENCE.md says of it is not claimed: Expired may mean an iat in the
\* future, WrongIssuer a missing aud.  The principal of an accepted token does
\* not count as expired for quack_oauth_check_authorization at that same reading.
VerdictIsTrue ==
  \A t \in Callers : Judged(t) =>
    TrueOf(call[t].result, Jwt[call[t].tok], Listed(call[t].cfg.jwksUri), Options(t))

\* The log is not flooded: a second warning for the same kid, reason and
\* endpoint within the window, by the readings of the chunks that write them,
\* comes only after the map overflowed, however the readings are ordered.
OneLinePerWindow ==
  [][\A k \in LogKeys :
       lines'[k] \notin {lines[k], NoLine} /\ lines[k] # NoLine =>
         lines'[k].at \notin lines[k].at .. lines[k].at + LogWindowS - 1]_vars

\* A cached probe that diagnose shows is of the URI it asks for, and its
\* request was sent less than the window before this call's reading, however
\* long the request took and whatever other calls stored meanwhile.
ProbeIsRecent ==
  [][\A t \in Callers :
       call[t].pc = "ProbeCheck" /\ call'[t].pc = "Idle" =>
         probe.uri = call[t].uri /\ call[t].now - probe.askedAt < ProbeWindowS]_vars
==============================================================================
