--------------------------- MODULE CheckTokenProofs ---------------------------
(***************************************************************************)
(* Theorems about CheckToken, for any number of callers and any SECRETs,    *)
(* settings, tokens, keys, URLs and bounds: how old a probe, a log entry    *)
(* and a cached decision may be when it is used; that no token, credential  *)
(* or key travels in the clear; and what each verdict says of the JWT.       *)
(*                                                                          *)
(* Every step is first reduced to one of a few kinds: the clock or an       *)
(* operator, a call that moves on and leaves the caches alone, one of the   *)
(* three uses of the decision cache, the end of a chunk, the end of a       *)
(* probe.  CheckInv is the inductive invariant over these kinds; its parts  *)
(* relate the stamps in the shared state to the readings of the clock they  *)
(* came from.  SoundInv says what a call carries at each point: a SECRET as *)
(* it was written, a configuration that was validated, listeners that were  *)
(* seen.  With it, protection rests on lemmas about where the code cuts a   *)
(* URL, and the verdict on lemmas about the order of its checks.            *)
(***************************************************************************)
EXTENDS CheckToken, CacheProofs

CallFields == {"pc", "trusted", "seen", "name", "secret", "cfg", "now", "tok", "result", "uri", "askedAt"}

\* A call when the clock shows n: its reading is not ahead, a probe was sent
\* after it, past the configuration there is one, and the token is a token.
CallOK(c, n) ==
  /\ DOMAIN c = CallFields /\ c.now \in Nat /\ c.askedAt \in Nat /\ c.now <= n
  /\ c.pc = "Probing" => c.now <= c.askedAt
  /\ c.pc \in {"Clock", "Row", "Asking", "Done"} => c.cfg # NoConfig
  /\ c.pc \in {"Row", "Asking"} => c.tok \in Tokens
  /\ c.pc # "Done" => c.result = ""

CallsInv ==
  /\ now \in Nat /\ DOMAIN call = Callers /\ \A t \in Callers : CallOK(call[t], now)
  /\ "wallet" \in DOMAIN budget /\ budget.wallet \subseteq Tokens

\* A stored probe was sent no earlier than its stamp.
ProbeInv == probe.at \in Nat /\ probe.askedAt \in Nat /\ probe.at <= probe.askedAt

\* The last warning for a key is the one its entry in the log is stamped with.
LinesInv == \A k \in LogKeys : lines[k] # NoLine => lines[k].at \in Nat /\ throttleLog[k] = lines[k].at

\* A decision lasts no longer than default_ttl_s beyond the last use of the
\* configuration it was made under.
VouchInv ==
  /\ DecisionsTypeOK(decisions) /\ DOMAIN vouch = Tokens
  /\ DOMAIN used = Tokens /\ \A k \in Tokens : used[k] \in Nat /\ used[k] <= now
  /\ \A k \in decisions.held : vouch[k] # NoConfig /\ decisions.entry[k].expiresAt <= used[k] + DecisionTtlS

CheckInv == CallsInv /\ ProbeInv /\ LinesInv /\ VouchInv

\* The kinds of steps.
Environment ==
  /\ now' \in {now, now + 1}
  /\ UNCHANGED <<call, decisions, throttleLog, probe, history>>

MovesOn(t) ==
  /\ UNCHANGED <<now, decisions, throttleLog, probe, history>>
  /\ \E c : /\ call' = [call EXCEPT ![t] = c] /\ CallOK(c, now)
            /\ call[t].pc = "ProbeCheck" /\ c.pc = "Idle" => RecentProbe(call[t].uri, call[t].now)
            /\ call[t].pc = "Row" /\ Opaque(t) => c.result # "Ok"

Kinds(t) == MovesOn(t) \/ AcceptCached(t) \/ Ask(t) \/ Vouched(t) \/ FinishChunk(t) \/ EndProbe(t)

\* An idle call.
LEMMA IdleCallOK ==
  ASSUME NEW n \in Nat
  PROVE  CallOK(IdleCall, n) /\ IdleCall.result = "" /\ IdleCall.pc = "Idle"
<1> DEFINE c == IdleCall
<1>1. /\ DOMAIN c = CallFields /\ c.now = 0 /\ c.askedAt = 0 /\ c.pc = "Idle" /\ c.result = ""
  BY DEF IdleCall, CallFields
<1> HIDE DEF c
<1>2. c.now \in Nat /\ c.askedAt \in Nat /\ c.now <= n
  <2>1. c.now = 0 /\ c.askedAt = 0
    BY <1>1
  <2> QED BY <2>1
<1>3. CallOK(c, n)
  BY <1>1, <1>2 DEF CallOK
<1> QED BY <1>1, <1>3 DEF c

\* A configuration that ValidateServerConfig lets through is one.
LEMMA ValidConfig ==
  ASSUME NEW cfg, ValidateServerConfig(cfg)
  PROVE  cfg # NoConfig
<1>1. NoConfig.mode = ""
  BY DEF NoConfig
<1> QED BY <1>1 DEF ValidateServerConfig

\* The invariant holds initially.
LEMMA InitCheckInv == Init => CheckInv
<1> SUFFICES ASSUME Init PROVE CheckInv
  OBVIOUS
<1>1. PICK s \in Starts : budget = s.budget
  BY DEF Init
<1>2. CallsInv
  <2>1. now = 1 /\ DOMAIN call = Callers /\ \A t \in Callers : call[t] = IdleCall
    BY DEF Init
  <2>2. CallOK(IdleCall, 1)
    BY IdleCallOK
  <2>3. "wallet" \in DOMAIN budget /\ budget.wallet \subseteq Tokens
    BY <1>1, CheckTokenAssumption
  <2> QED BY <2>1, <2>2, <2>3 DEF CallsInv
<1>3. ProbeInv
  <2>1. probe.at = 0 /\ probe.askedAt = 0
    BY DEF Init, NoProbe
  <2> QED BY <2>1 DEF ProbeInv
<1>4. LinesInv
  BY DEF Init, LinesInv
<1>5. VouchInv
  <2>1. decisions.held = {} /\ DecisionsTypeOK(decisions)
    BY DEF Init, EmptyDecisions, DecisionsTypeOK, NoDecision
  <2>2. DOMAIN vouch = Tokens /\ DOMAIN used = Tokens /\ \A k \in Tokens : used[k] = 0
    BY DEF Init
  <2>3. now = 1
    BY DEF Init
  <2> QED BY <2>1, <2>2, <2>3 DEF VouchInv
<1> QED BY <1>2, <1>3, <1>4, <1>5 DEF CheckInv

\* A call that reads shared state moves on.
LEMMA ReadsMove ==
  ASSUME CallsInv, NEW t \in Callers, NEW c, Reads(t, c), CallOK(c, now),
         call[t].pc = "ProbeCheck" /\ c.pc = "Idle" => RecentProbe(call[t].uri, call[t].now),
         call[t].pc # "Row"
  PROVE  MovesOn(t)
BY DEF Reads, MovesOn

\* The steps of quack_oauth_check_token that read the configuration.
LEMMA LoadConfigMoves ==
  ASSUME CallsInv, NEW t \in Callers, LoadConfig(t)
  PROVE  MovesOn(t)
<1> DEFINE q == call[t]
<1>1. CallOK(q, now) /\ CallOK(IdleCall, now)
  BY IdleCallOK DEF CallsInv
<1>2. q.pc \in {"Trust", "Listeners", "Name", "Open", "Mode", "Skew", "Provider", "Clock"}
  BY DEF LoadConfig, ReadTrust, EnforcePlaintextGuard, ReadSecretName, OpenSecret, ReadMode, ReadSkew,
         ReadProvider, ReadClock
<1>3. DOMAIN q = CallFields /\ q.result = "" /\ q.now \in Nat /\ q.askedAt \in Nat /\ q.now <= now
  BY <1>1, <1>2 DEF CallOK
<1>4. Throw(t) => MovesOn(t)
  BY <1>1, <1>2, ReadsMove DEF Throw
<1>5. ASSUME NEW c, Reads(t, c), DOMAIN c = CallFields, c.now = q.now, c.askedAt = q.askedAt, c.result = q.result,
             c.pc \in {"Listeners", "Name", "Open", "Mode", "Skew", "Provider"}
      PROVE  MovesOn(t)
  <2>1. CallOK(c, now)
    BY <1>3, <1>5 DEF CallOK
  <2> QED BY <1>2, <1>5, <2>1, ReadsMove
<1>6. CASE ReadTrust(t)
  <2> DEFINE c == [call[t] EXCEPT !.pc = IF settings.trust THEN "Name" ELSE "Listeners", !.trusted = settings.trust]
  <2>1. Reads(t, c)
    BY <1>6 DEF ReadTrust
  <2>2. /\ DOMAIN c = CallFields /\ c.now = q.now /\ c.askedAt = q.askedAt /\ c.result = q.result
        /\ c.pc \in {"Listeners", "Name"}
    BY <1>3 DEF CallFields
  <2> HIDE DEF c
  <2> QED BY <1>5, <2>1, <2>2
<1>7. CASE EnforcePlaintextGuard(t)
  <2> DEFINE c == [call[t] EXCEPT !.pc = "Name", !.seen = listeners]
  <2>1. Reads(t, c) \/ Throw(t)
    BY <1>7 DEF EnforcePlaintextGuard
  <2>2. /\ DOMAIN c = CallFields /\ c.now = q.now /\ c.askedAt = q.askedAt /\ c.result = q.result
        /\ c.pc = "Name"
    BY <1>3 DEF CallFields
  <2> HIDE DEF c
  <2> QED BY <1>4, <1>5, <2>1, <2>2
<1>8. CASE ReadSecretName(t)
  <2> DEFINE c == [call[t] EXCEPT !.pc = "Open", !.name = settings.secretName]
  <2>1. Reads(t, c) \/ Throw(t)
    BY <1>8 DEF ReadSecretName
  <2>2. /\ DOMAIN c = CallFields /\ c.now = q.now /\ c.askedAt = q.askedAt /\ c.result = q.result
        /\ c.pc = "Open"
    BY <1>3 DEF CallFields
  <2> HIDE DEF c
  <2> QED BY <1>4, <1>5, <2>1, <2>2
<1>9. CASE OpenSecret(t)
  <2> DEFINE c == [call[t] EXCEPT !.pc = "Mode", !.secret = secrets[call[t].name], !.name = ""]
  <2>1. Reads(t, c) \/ Throw(t)
    BY <1>9 DEF OpenSecret
  <2>2. /\ DOMAIN c = CallFields /\ c.now = q.now /\ c.askedAt = q.askedAt /\ c.result = q.result
        /\ c.pc = "Mode"
    BY <1>3 DEF CallFields
  <2> HIDE DEF c
  <2> QED BY <1>4, <1>5, <2>1, <2>2
<1>10. CASE ReadMode(t)
  <2> DEFINE c == [call[t] EXCEPT !.pc = "Skew", !.cfg.mode = settings.mode]
  <2>1. Reads(t, c)
    BY <1>10 DEF ReadMode
  <2>2. /\ DOMAIN c = CallFields /\ c.now = q.now /\ c.askedAt = q.askedAt /\ c.result = q.result
        /\ c.pc = "Skew"
    BY <1>3 DEF CallFields
  <2> HIDE DEF c
  <2> QED BY <1>5, <2>1, <2>2
<1>11. CASE ReadSkew(t)
  <2> DEFINE c == [call[t] EXCEPT !.pc = "Provider",
                                  !.cfg = ReadServerConfigCore(call[t].secret, @.mode, settings.skew)]
  <2>1. Reads(t, c)
    BY <1>11 DEF ReadSkew
  <2>2. /\ DOMAIN c = CallFields /\ c.now = q.now /\ c.askedAt = q.askedAt /\ c.result = q.result
        /\ c.pc = "Provider"
    BY <1>3 DEF CallFields
  <2> HIDE DEF c
  <2> QED BY <1>5, <2>1, <2>2
<1>12. CASE ReadProvider(t)
  <2> DEFINE cfg == ApplyProviderPreset(settings.provider, call[t].secret, call[t].cfg)
             c == [call[t] EXCEPT !.pc = "Clock", !.cfg = cfg, !.secret = NoSecret]
  <2>1. (Reads(t, c) /\ ValidateServerConfig(cfg)) \/ Throw(t)
    BY <1>12 DEF ReadProvider
  <2> HIDE DEF cfg
  <2>2. /\ DOMAIN c = CallFields /\ c.now = q.now /\ c.askedAt = q.askedAt /\ c.result = q.result
        /\ c.pc = "Clock" /\ c.cfg = cfg
    BY <1>3 DEF CallFields
  <2> HIDE DEF c
  <2>3. ASSUME ValidateServerConfig(cfg), Reads(t, c) PROVE MovesOn(t)
    <3>1. cfg # NoConfig
      BY <2>3, ValidConfig
    <3>2. CallOK(c, now)
      BY <1>3, <2>2, <3>1 DEF CallOK
    <3> QED BY <1>2, <2>2, <2>3, <3>2, ReadsMove
  <2> QED BY <1>4, <2>1, <2>3
<1>13. CASE ReadClock(t)
  <2>1. PICK k \in budget.wallet : Reads(t, [call[t] EXCEPT !.pc = "Row", !.now = now, !.tok = k])
    BY <1>13 DEF ReadClock
  <2> DEFINE c == [call[t] EXCEPT !.pc = "Row", !.now = now, !.tok = k]
  <2>2. /\ DOMAIN c = CallFields /\ c.now = now /\ c.askedAt = q.askedAt /\ c.result = q.result
        /\ c.pc = "Row" /\ c.tok = k /\ c.cfg = q.cfg
    BY <1>3 DEF CallFields
  <2>3. Reads(t, c)
    BY <2>1
  <2> HIDE DEF c
  <2>4. q.cfg # NoConfig /\ k \in Tokens /\ now \in Nat
    BY <1>1, <1>13 DEF ReadClock, CallOK, CallsInv
  <2>5. c.now \in Nat /\ c.askedAt \in Nat /\ c.now <= now
    <3>1. now \in Nat /\ c.now = now /\ q.askedAt \in Nat /\ c.askedAt = q.askedAt
      BY <1>3, <2>2, <2>4
    <3> QED BY <3>1
  <2>6. CallOK(c, now)
    BY <1>3, <2>2, <2>4, <2>5 DEF CallOK
  <2> QED BY <1>2, <2>2, <2>3, <2>6, ReadsMove
<1> QED BY <1>6, <1>7, <1>8, <1>9, <1>10, <1>11, <1>12, <1>13 DEF LoadConfig

\* The steps of quack_oauth_diagnose up to the end of its probe.
LEMMA DiagnoseMoves ==
  ASSUME CallsInv, NEW t \in Callers, Diagnose(t)
  PROVE  MovesOn(t) \/ EndProbe(t)
<1> DEFINE q == call[t]
<1>1. CallOK(q, now) /\ CallOK(IdleCall, now)
  BY IdleCallOK DEF CallsInv
<1>2. SUFFICES ASSUME ReadProbeName(t) \/ TryOpenSecret(t) \/ ReadProbeClock(t) \/ UseProbe(t) \/ StartProbe(t)
               PROVE  MovesOn(t)
  BY DEF Diagnose
<1>3. q.pc \in {"ProbeName", "ProbeSecret", "ProbeClock", "ProbeCheck"}
  BY <1>2 DEF ReadProbeName, TryOpenSecret, ReadProbeClock, UseProbe, StartProbe
<1>4. DOMAIN q = CallFields /\ q.result = "" /\ q.now \in Nat /\ q.askedAt \in Nat /\ q.now <= now /\ now \in Nat
  BY <1>1, <1>3 DEF CallOK, CallsInv
<1>5. Reads(t, IdleCall) /\ q.pc # "ProbeCheck" => MovesOn(t)
  BY <1>1, <1>3, ReadsMove
<1>6. CASE ReadProbeName(t)
  <2> DEFINE c == [call[t] EXCEPT !.pc = "ProbeSecret", !.name = settings.secretName]
  <2>1. (Reads(t, c) \/ Reads(t, IdleCall)) /\ q.pc = "ProbeName"
    BY <1>6 DEF ReadProbeName
  <2>2. /\ DOMAIN c = CallFields /\ c.now = q.now /\ c.askedAt = q.askedAt /\ c.result = q.result
        /\ c.pc = "ProbeSecret"
    BY <1>4 DEF CallFields
  <2> HIDE DEF c
  <2>3. CallOK(c, now)
    BY <1>4, <2>2 DEF CallOK
  <2> QED BY <1>5, <2>1, <2>2, <2>3, ReadsMove
<1>7. CASE TryOpenSecret(t)
  <2>1. PICK uri : (Reads(t, [call[t] EXCEPT !.pc = "ProbeClock", !.uri = uri, !.name = ""]) \/ Reads(t, IdleCall))
                   /\ q.pc = "ProbeSecret"
    BY <1>7 DEF TryOpenSecret
  <2> DEFINE c == [call[t] EXCEPT !.pc = "ProbeClock", !.uri = uri, !.name = ""]
  <2>2. /\ DOMAIN c = CallFields /\ c.now = q.now /\ c.askedAt = q.askedAt /\ c.result = q.result
        /\ c.pc = "ProbeClock"
    BY <1>4 DEF CallFields
  <2>3. Reads(t, c) \/ Reads(t, IdleCall)
    BY <2>1
  <2> HIDE DEF c
  <2>4. CallOK(c, now)
    BY <1>4, <2>2 DEF CallOK
  <2> QED BY <1>5, <2>1, <2>2, <2>3, <2>4, ReadsMove
<1>8. CASE ReadProbeClock(t)
  <2> DEFINE c == [call[t] EXCEPT !.pc = "ProbeCheck", !.now = now]
  <2>1. Reads(t, c) /\ q.pc = "ProbeClock"
    BY <1>8 DEF ReadProbeClock
  <2>2. /\ DOMAIN c = CallFields /\ c.now = now /\ c.askedAt = q.askedAt /\ c.result = q.result
        /\ c.pc = "ProbeCheck"
    BY <1>4 DEF CallFields
  <2> HIDE DEF c
  <2>3. c.now \in Nat /\ c.askedAt \in Nat /\ c.now <= now
    <3>1. now \in Nat /\ c.now = now /\ q.askedAt \in Nat /\ c.askedAt = q.askedAt
      BY <1>4, <2>2
    <3> QED BY <3>1
  <2>4. CallOK(c, now)
    BY <1>4, <2>2, <2>3 DEF CallOK
  <2> QED BY <2>1, <2>2, <2>4, ReadsMove
<1>9. CASE UseProbe(t)
  BY <1>1, <1>9, ReadsMove DEF UseProbe
<1>10. CASE StartProbe(t)
  <2> DEFINE c == [call[t] EXCEPT !.pc = "Probing", !.askedAt = now]
  <2>1. Reads(t, c) /\ q.pc = "ProbeCheck"
    BY <1>10 DEF StartProbe
  <2>2. /\ DOMAIN c = CallFields /\ c.now = q.now /\ c.askedAt = now /\ c.result = q.result
        /\ c.pc = "Probing"
    BY <1>4 DEF CallFields
  <2> HIDE DEF c
  <2>3. CallOK(c, now)
    BY <1>4, <2>2 DEF CallOK
  <2> QED BY <2>1, <2>2, <2>3, ReadsMove
<1> QED BY <1>2, <1>6, <1>7, <1>8, <1>9, <1>10

\* A call begins.
LEMMA BeginMoves ==
  ASSUME CallsInv, NEW t \in Callers, NEW pc \in {"Trust", "ProbeName"}, Begin(t, pc)
  PROVE  MovesOn(t)
<1> DEFINE c == [call[t] EXCEPT !.pc = pc]
<1>1. CallOK(call[t], now) /\ call[t].pc = "Idle"
  BY DEF CallsInv, Begin
<1>2. call' = [call EXCEPT ![t] = c] /\ UNCHANGED <<now, decisions, throttleLog, probe, history>>
  BY DEF Begin
<1>3. DOMAIN call[t] = CallFields
  BY <1>1 DEF CallOK
<1>4. /\ DOMAIN c = CallFields /\ c.pc = pc /\ c.now = call[t].now /\ c.askedAt = call[t].askedAt
      /\ c.result = call[t].result
  BY <1>3 DEF CallFields
<1> HIDE DEF c
<1>5. CallOK(c, now)
  BY <1>1, <1>4 DEF CallOK
<1> QED BY <1>1, <1>2, <1>4, <1>5 DEF MovesOn

\* A row that asks the provider.
LEMMA AskingOK ==
  ASSUME CallsInv, NEW t \in Callers, call[t].pc \in {"Row", "Asking"}
  PROVE  CallOK([call[t] EXCEPT !.pc = "Asking"], now) /\ [call[t] EXCEPT !.pc = "Asking"].pc = "Asking"
<1> DEFINE c == [call[t] EXCEPT !.pc = "Asking"]
<1>1. CallOK(call[t], now)
  BY DEF CallsInv
<1>2. DOMAIN call[t] = CallFields
  BY <1>1 DEF CallOK
<1>3. /\ DOMAIN c = CallFields /\ c.now = call[t].now /\ c.askedAt = call[t].askedAt
      /\ c.cfg = call[t].cfg /\ c.tok = call[t].tok /\ c.pc = "Asking" /\ c.result = call[t].result
  BY <1>2 DEF CallFields
<1> HIDE DEF c
<1>4. CallOK(c, now)
  BY <1>1, <1>3 DEF CallOK
<1> QED BY <1>3, <1>4 DEF c

\* A row with a verdict.
LEMMA DoneOK ==
  ASSUME CallsInv, NEW t \in Callers, call[t].pc \in {"Row", "Asking"}, NEW r
  PROVE  CallOK([call[t] EXCEPT !.pc = "Done", !.result = r], now) /\ [call[t] EXCEPT !.pc = "Done", !.result = r].pc = "Done"
<1> DEFINE c == [call[t] EXCEPT !.pc = "Done", !.result = r]
<1>1. CallOK(call[t], now)
  BY DEF CallsInv
<1>2. DOMAIN call[t] = CallFields
  BY <1>1 DEF CallOK
<1>3. /\ DOMAIN c = CallFields /\ c.now = call[t].now /\ c.askedAt = call[t].askedAt
      /\ c.cfg = call[t].cfg /\ c.tok = call[t].tok /\ c.pc = "Done"
  BY <1>2 DEF CallFields
<1> HIDE DEF c
<1>4. CallOK(c, now)
  BY <1>1, <1>3 DEF CallOK
<1> QED BY <1>3, <1>4 DEF c

\* A row that the provider refuses, or that is judged by keys.
LEMMA VerdictMoves ==
  ASSUME CallsInv, NEW t \in Callers, Refused(t) \/ Judge(t)
  PROVE  MovesOn(t)
<1>1. PICK r : /\ Validates(t, [call[t] EXCEPT !.pc = "Done", !.result = r], decisions)
               /\ call[t].pc = "Asking" \/ (call[t].pc = "Row" /\ ~Opaque(t))
               /\ UNCHANGED vouch
  BY DEF Refused, Judge
<1> DEFINE c == [call[t] EXCEPT !.pc = "Done", !.result = r]
<1>2. CallOK(c, now) /\ c.pc = "Done"
  BY <1>1, DoneOK
<1>3. call' = [call EXCEPT ![t] = c] /\ UNCHANGED <<now, decisions, throttleLog, probe, history>>
  BY <1>1 DEF Validates, history
<1> HIDE DEF c
<1> QED BY <1>1, <1>2, <1>3 DEF MovesOn

\* Every step is one of the kinds, notes the use of configurations and leaves
\* the wallet alone.
LEMMA Steps ==
  ASSUME CallsInv, Next
  PROVE  /\ Environment \/ \E t \in Callers : Kinds(t)
         /\ NoteUse /\ "wallet" \in DOMAIN budget' /\ budget'.wallet = budget.wallet
<1>1. "wallet" \in DOMAIN budget
  BY DEF CallsInv
<1>2. ASSUME NEW what, what # "wallet", Spend(what)
      PROVE  "wallet" \in DOMAIN budget' /\ budget'.wallet = budget.wallet
  BY <1>1, <1>2 DEF Spend
<1>3. CASE Tick
  BY <1>2, <1>3 DEF Tick, Environment
<1>4. CASE Operator
  <2>1. Changes
    BY <1>4 DEF Operator, Set, CreateSecret, DropSecret, Listen
  <2> QED BY <1>2, <2>1 DEF Changes, Environment
<1>5. ASSUME NEW t \in Callers, CheckTokenScalarFun(t) \/ DiagnoseBind(t)
      PROVE  Kinds(t) /\ NoteUse /\ "wallet" \in DOMAIN budget' /\ budget'.wallet = budget.wallet
  <2>1. PICK pc \in {"Trust", "ProbeName"}, what \in {"checks", "diagnoses"} : Spend(what) /\ Begin(t, pc)
    BY <1>5 DEF CheckTokenScalarFun, DiagnoseBind
  <2>2. MovesOn(t)
    BY <2>1, BeginMoves
  <2> QED BY <1>2, <2>1, <2>2 DEF Kinds, Begin
<1>6. ASSUME NEW t \in Callers, LoadConfig(t)
      PROVE  Kinds(t) /\ NoteUse /\ UNCHANGED budget
  <2>1. MovesOn(t)
    BY <1>6, LoadConfigMoves
  <2>2. NoteUse /\ UNCHANGED budget
    BY <1>6 DEF LoadConfig, ReadTrust, EnforcePlaintextGuard, ReadSecretName, OpenSecret, ReadMode, ReadSkew,
                ReadProvider, ReadClock, Throw, Reads
  <2> QED BY <2>1, <2>2 DEF Kinds
<1>7. ASSUME NEW t \in Callers, ValidateChunk(t)
      PROVE  Kinds(t) /\ NoteUse /\ UNCHANGED budget
  <2>1. Kinds(t)
    BY <1>7, VerdictMoves DEF Kinds, ValidateChunk
  <2>2. NoteUse /\ UNCHANGED budget
    BY <1>7 DEF ValidateChunk, AcceptCached, Ask, Vouched, Refused, Judge, FinishChunk, Validates
  <2> QED BY <2>1, <2>2
<1>8. ASSUME NEW t \in Callers, Diagnose(t)
      PROVE  Kinds(t) /\ NoteUse /\ UNCHANGED budget
  <2>1. Kinds(t)
    BY <1>8, DiagnoseMoves DEF Kinds
  <2>2. NoteUse /\ UNCHANGED budget
    BY <1>8 DEF Diagnose, ReadProbeName, TryOpenSecret, ReadProbeClock, UseProbe, StartProbe, EndProbe, Reads
  <2> QED BY <2>1, <2>2
<1> QED BY <1>1, <1>3, <1>4, <1>5, <1>6, <1>7, <1>8 DEF Next

(***************************************************************************)
(* Calls and the probe.                                                     *)
(***************************************************************************)
\* Every kind of step of a caller sets its own call, and the clock stands still.
LEMMA KindCalls ==
  ASSUME CallsInv, NEW t \in Callers, Kinds(t)
  PROVE  now' = now /\ \E c : call' = [call EXCEPT ![t] = c] /\ CallOK(c, now)
<1>1. CASE MovesOn(t)
  BY <1>1 DEF MovesOn
<1>2. CASE AcceptCached(t) \/ Ask(t) \/ Vouched(t)
  <2>1. /\ call[t].pc \in {"Row", "Asking"} /\ now' = now
        /\ \/ call' = [call EXCEPT ![t] = [call[t] EXCEPT !.pc = "Asking"]]
           \/ call' = [call EXCEPT ![t] = [call[t] EXCEPT !.pc = "Done", !.result = "Ok"]]
    BY <1>2 DEF AcceptCached, Ask, Vouched, Validates
  <2>2. CallOK([call[t] EXCEPT !.pc = "Asking"], now)
    BY <2>1, AskingOK
  <2>3. CallOK([call[t] EXCEPT !.pc = "Done", !.result = "Ok"], now)
    BY <2>1, DoneOK
  <2> QED BY <2>1, <2>2, <2>3
<1>3. CASE FinishChunk(t) \/ EndProbe(t)
  <2>1. call' = [call EXCEPT ![t] = IdleCall] /\ now' = now
    BY <1>3 DEF FinishChunk, EndProbe
  <2>2. CallOK(IdleCall, now)
    BY IdleCallOK DEF CallsInv
  <2> QED BY <2>1, <2>2
<1> QED BY <1>1, <1>2, <1>3 DEF Kinds

\* Time passes: a call stays well-formed.
LEMMA CallLater ==
  ASSUME NEW n \in Nat, NEW c, CallOK(c, n)
  PROVE  CallOK(c, n + 1)
<1>1. c.now \in Nat /\ c.now <= n
  BY DEF CallOK
<1>2. c.now <= n + 1
  BY <1>1
<1> QED BY <1>2 DEF CallOK

\* Every step keeps the calls well-formed.
LEMMA NextCallsInv == CallsInv /\ [Next]_vars => CallsInv'
<1> SUFFICES ASSUME CallsInv, [Next]_vars PROVE CallsInv'
  OBVIOUS
<1>1. CASE UNCHANGED vars
  BY <1>1 DEF vars, CallsInv, CallOK
<1>2. CASE Next
  <2>1. "wallet" \in DOMAIN budget' /\ budget'.wallet \subseteq Tokens
    BY <1>2, Steps DEF CallsInv
  <2>2. now \in Nat /\ DOMAIN call = Callers /\ \A t \in Callers : CallOK(call[t], now)
    BY DEF CallsInv
  <2>3. CASE Environment
    <3>1. call' = call /\ now' \in {now, now + 1}
      BY <2>3 DEF Environment
    <3>2. \A t \in Callers : CallOK(call[t], now + 1)
      BY <2>2, CallLater
    <3>3. now' \in Nat /\ \A t \in Callers : CallOK(call[t], now')
      BY <2>2, <3>1, <3>2
    <3> QED BY <2>1, <2>2, <3>1, <3>3 DEF CallsInv
  <2>4. ASSUME NEW t \in Callers, Kinds(t) PROVE CallsInv'
    <3>1. PICK c : call' = [call EXCEPT ![t] = c] /\ CallOK(c, now)
      BY <2>4, KindCalls
    <3>2. now' = now
      BY <2>4, KindCalls
    <3>3. DOMAIN call' = Callers /\ \A u \in Callers : CallOK(call'[u], now')
      BY <2>2, <3>1, <3>2
    <3> QED BY <2>1, <2>2, <3>2, <3>3 DEF CallsInv
  <2> QED BY <1>2, <2>3, <2>4, Steps
<1> QED BY <1>1, <1>2

\* Only the end of a probe stores one.
LEMMA NextProbeInv == CallsInv /\ ProbeInv /\ [Next]_vars => ProbeInv'
<1> SUFFICES ASSUME CallsInv, ProbeInv, [Next]_vars PROVE ProbeInv'
  OBVIOUS
<1>1. CASE UNCHANGED probe
  BY <1>1 DEF ProbeInv
<1>2. ASSUME NEW t \in Callers, EndProbe(t) PROVE ProbeInv'
  <2>1. PICK r : probe' = ProbeResult(t, r)
    BY <1>2 DEF EndProbe
  <2>2. CallOK(call[t], now) /\ call[t].pc = "Probing"
    BY <1>2 DEF EndProbe, CallsInv
  <2>3. call[t].now \in Nat /\ call[t].askedAt \in Nat /\ call[t].now <= call[t].askedAt
    BY <2>2 DEF CallOK
  <2>4. probe'.at = call[t].now /\ probe'.askedAt = call[t].askedAt
    BY <2>1 DEF ProbeResult
  <2> QED BY <2>3, <2>4 DEF ProbeInv
<1>3. CASE Next
  <2>1. ASSUME NEW t \in Callers, Kinds(t), ~EndProbe(t) PROVE UNCHANGED probe
    BY <2>1 DEF Kinds, MovesOn, AcceptCached, Ask, Vouched, FinishChunk, Validates
  <2>2. Environment => UNCHANGED probe
    BY DEF Environment
  <2> QED BY <1>1, <1>2, <1>3, <2>1, <2>2, Steps
<1> QED BY <1>1, <1>3 DEF vars

\* The calls stay well-formed.
LEMMA CallsHold == Spec => []CallsInv
<1>1. Init => CallsInv
  BY InitCheckInv DEF CheckInv
<1> QED BY <1>1, NextCallsInv, PTL DEF Spec

\* ProbeIsRecent: what diagnose shows as the state of the provider was asked
\* less than ProbeWindowS before this call's reading of the clock, because a
\* result is stamped with the reading from before its request was sent.
THEOREM ProbesRecent == Spec => ProbeIsRecent
<1>1. Init => ProbeInv
  BY InitCheckInv DEF CheckInv
<1>2. ASSUME CallsInv, ProbeInv, Next, NEW t \in Callers, call[t].pc = "ProbeCheck", call'[t].pc = "Idle"
      PROVE  probe.uri = call[t].uri /\ call[t].now - probe.askedAt < ProbeWindowS
  <2>1. RecentProbe(call[t].uri, call[t].now)
    <3>1. CASE Environment
      BY <1>2, <3>1 DEF Environment
    <3>2. ASSUME NEW u \in Callers, Kinds(u) PROVE RecentProbe(call[t].uri, call[t].now)
      <4>1. PICK c : call' = [call EXCEPT ![u] = c]
        BY <1>2, <3>2, KindCalls
      <4>2. u = t
        <5>1. u # t => call'[t] = call[t]
          BY <1>2, <4>1 DEF CallsInv
        <5> QED BY <1>2, <5>1
      <4>3. MovesOn(t)
        BY <1>2, <3>2, <4>2 DEF Kinds, AcceptCached, Ask, Vouched, FinishChunk, EndProbe
      <4>4. PICK d : /\ call' = [call EXCEPT ![t] = d]
                     /\ call[t].pc = "ProbeCheck" /\ d.pc = "Idle" => RecentProbe(call[t].uri, call[t].now)
        BY <4>3 DEF MovesOn
      <4>5. call'[t] = d
        BY <1>2, <4>4 DEF CallsInv
      <4> QED BY <1>2, <4>4, <4>5
    <3> QED BY <1>2, <3>1, <3>2, Steps
  <2>2. /\ call[t].now \in Nat /\ probe.at \in Nat /\ probe.askedAt \in Nat /\ probe.at <= probe.askedAt
        /\ ProbeWindowS \in Nat
    BY <1>2, CheckTokenAssumption DEF CallsInv, CallOK, ProbeInv
  <2>3. probe.uri = call[t].uri /\ call[t].now - probe.at < ProbeWindowS
    BY <2>1 DEF RecentProbe
  <2>4. call[t].now - probe.askedAt < ProbeWindowS
    BY <2>2, <2>3
  <2> QED BY <2>3, <2>4
<1>3. CallsInv /\ ProbeInv /\ [Next]_vars =>
        [\A t \in Callers :
           call[t].pc = "ProbeCheck" /\ call'[t].pc = "Idle" =>
             probe.uri = call[t].uri /\ call[t].now - probe.askedAt < ProbeWindowS]_vars
  BY <1>2
<1> QED BY <1>1, <1>3, NextProbeInv, CallsHold, PTL DEF Spec, ProbeIsRecent

(***************************************************************************)
(* The log of throttled refreshes.                                          *)
(***************************************************************************)
\* The new warnings make their keys logged ones.
LEMMA StampedLogged ==
  ASSUME NEW log, NEW new, new \subseteq LogKeys, NEW n \in Nat
  PROVE  /\ Logged(Stamped(log, new, n)) = Logged(log) \cup new
         /\ \A k \in LogKeys : Stamped(log, new, n)[k] = IF k \in new THEN n ELSE log[k]
<1>1. n # NoStamp
  BY DEF NoStamp
<1> QED BY <1>1 DEF Logged, Stamped

\* Below its capacity the log keeps every entry.
LEMMA NothingPruned ==
  ASSUME NEW log, NEW events, events \subseteq LogKeys, NEW n \in Nat,
         ~(Cardinality(Logged(log) \cup NewLines(log, events, n)) > LogCap),
         NEW out \in LogThrottledEvents(log, events, n)
  PROVE  \A k \in LogKeys : out[k] = IF k \in NewLines(log, events, n) THEN n ELSE log[k]
<1> DEFINE new == NewLines(log, events, n)
<1>1. new \subseteq LogKeys
  BY DEF NewLines
<1>2. CASE events = {}
  <2>1. new = {} /\ out = log
    BY <1>2 DEF NewLines, LogThrottledEvents
  <2> QED BY <2>1
<1>3. CASE events # {}
  <2>1. out \in Prune(Stamped(log, new, n), n)
    BY <1>3 DEF LogThrottledEvents
  <2> HIDE DEF new
  <2> DEFINE s == Stamped(log, new, n)
  <2>2. Logged(s) = Logged(log) \cup new /\ \A k \in LogKeys : s[k] = IF k \in new THEN n ELSE log[k]
    BY <1>1, StampedLogged
  <2>3. Cardinality(Logged(s)) \in Nat
    <3>1. Logged(s) \subseteq LogKeys /\ IsFiniteSet(LogKeys)
      BY ThrottleLogAssumption DEF Logged
    <3>2. IsFiniteSet(Logged(s))
      BY <3>1, FS_Subset
    <3> QED BY <3>2, FS_CardinalityType
  <2>4. ~(Cardinality(Logged(s)) > LogCap)
    BY <2>2 DEF new
  <2> HIDE DEF s
  <2>5. Cardinality(Logged(s)) <= LogCap
    <3>1. LogCap \in Nat
      BY ThrottleLogAssumption
    <3> QED BY <2>3, <2>4, <3>1
  <2>6. out = s
    BY <2>1, <2>5 DEF Prune, s
  <2> QED BY <2>2, <2>6 DEF new
<1> QED BY <1>2, <1>3

\* What the end of a chunk does to the lines of a key.
LEMMA ChunkLines ==
  ASSUME CallsInv, LinesInv, NEW t \in Callers, FinishChunk(t), NEW k \in LogKeys, lines'[k] # NoLine
  PROVE  /\ lines'[k].at \in Nat /\ throttleLog'[k] = lines'[k].at
         /\ lines'[k] # lines[k] /\ lines[k] # NoLine =>
              lines'[k].at \notin lines[k].at .. lines[k].at + LogWindowS - 1
<1>1. PICK events \in SUBSET LogKeys :
        /\ throttleLog' \in LogThrottledEvents(throttleLog, events, call[t].now)
        /\ lines' = LET new == NewLines(throttleLog, events, call[t].now) IN
                    [j \in LogKeys |->
                      CASE Cardinality(Logged(throttleLog) \cup new) > LogCap -> NoLine
                        [] OTHER -> IF j \in new THEN [at |-> call[t].now, odd |-> ~lines[j].odd] ELSE lines[j]]
  BY DEF FinishChunk
<1> DEFINE n == call[t].now
           new == NewLines(throttleLog, events, n)
<1>2. n \in Nat
  BY DEF CallsInv, CallOK
<1>3. ~(Cardinality(Logged(throttleLog) \cup new) > LogCap)
  BY <1>1
<1>4. lines'[k] = IF k \in new THEN [at |-> n, odd |-> ~lines[k].odd] ELSE lines[k]
  BY <1>1, <1>3
<1>5. throttleLog'[k] = IF k \in new THEN n ELSE throttleLog[k]
  BY <1>1, <1>2, <1>3, NothingPruned
<1>6. CASE k \notin new
  BY <1>4, <1>5, <1>6 DEF LinesInv
<1>7. CASE k \in new
  <2>1. lines'[k].at = n /\ throttleLog'[k] = n
    BY <1>4, <1>5, <1>7
  <2>2. ASSUME lines[k] # NoLine PROVE n \notin lines[k].at .. lines[k].at + LogWindowS - 1
    <3>1. lines[k].at \in Nat /\ throttleLog[k] = lines[k].at
      BY <2>2 DEF LinesInv
    <3>2. k \in Logged(throttleLog)
      BY <3>1 DEF Logged, NoStamp
    <3>3. ~(n >= throttleLog[k] /\ n - throttleLog[k] < LogWindowS)
      BY <1>7, <3>2 DEF NewLines
    <3>4. LogWindowS \in Nat
      BY ThrottleLogAssumption
    <3> DEFINE a == lines[k].at
    <3>5. a \in Nat /\ ~(n >= a /\ n - a < LogWindowS)
      BY <3>1, <3>3
    <3> HIDE DEF a, n
    <3>6. n \notin a .. a + LogWindowS - 1
      BY <1>2, <3>4, <3>5
    <3> QED BY <3>6 DEF a, n
  <2> QED BY <1>2, <2>1, <2>2
<1> QED BY <1>6, <1>7

\* Only the end of a chunk writes warnings.
LEMMA LinesKept ==
  ASSUME CallsInv, Next
  PROVE  UNCHANGED <<lines, throttleLog>> \/ \E t \in Callers : FinishChunk(t)
<1>1. Environment => UNCHANGED <<lines, throttleLog>>
  BY DEF Environment, history
<1>2. ASSUME NEW t \in Callers, Kinds(t), ~FinishChunk(t) PROVE UNCHANGED <<lines, throttleLog>>
  BY <1>2 DEF Kinds, MovesOn, AcceptCached, Ask, Vouched, EndProbe, Validates, history
<1> QED BY <1>1, <1>2, Steps

\* Every step keeps the lines in agreement with the log.
LEMMA NextLinesInv == CallsInv /\ LinesInv /\ [Next]_vars => LinesInv'
<1> SUFFICES ASSUME CallsInv, LinesInv, [Next]_vars PROVE LinesInv'
  OBVIOUS
<1>1. CASE UNCHANGED <<lines, throttleLog>>
  BY <1>1 DEF LinesInv
<1>2. ASSUME NEW t \in Callers, FinishChunk(t) PROVE LinesInv'
  BY <1>2, ChunkLines DEF LinesInv
<1> QED BY <1>1, <1>2, LinesKept DEF vars

\* OneLinePerWindow: until the log overflows, two warnings with the same kid,
\* reason and endpoint are at least LogWindowS apart, or the later one was
\* written by a chunk whose reading of the clock is older.
THEOREM LogNotFlooded == Spec => OneLinePerWindow
<1>1. Init => LinesInv
  BY InitCheckInv DEF CheckInv
<1>2. ASSUME CallsInv, LinesInv, Next, NEW k \in LogKeys, lines'[k] \notin {lines[k], NoLine}, lines[k] # NoLine
      PROVE  lines'[k].at \notin lines[k].at .. lines[k].at + LogWindowS - 1
  <2>1. PICK t \in Callers : FinishChunk(t)
    BY <1>2, LinesKept
  <2> QED BY <1>2, <2>1, ChunkLines
<1>3. CallsInv /\ LinesInv /\ [Next]_vars =>
        [\A k \in LogKeys :
           lines'[k] \notin {lines[k], NoLine} /\ lines[k] # NoLine =>
             lines'[k].at \notin lines[k].at .. lines[k].at + LogWindowS - 1]_vars
  BY <1>2
<1> QED BY <1>1, <1>3, NextLinesInv, CallsHold, PTL DEF Spec, OneLinePerWindow

(***************************************************************************)
(* Cached decisions and the configurations they rest on.                    *)
(***************************************************************************)
\* Noting the uses: stamps are not ahead of the clock, and go back only for a
\* token without a decision.
LEMMA NoteUseIs ==
  ASSUME now \in Nat, DOMAIN used = Tokens, \A k \in Tokens : used[k] \in Nat /\ used[k] <= now, NoteUse
  PROVE  /\ DOMAIN used' = Tokens
         /\ \A k \in Tokens : used'[k] \in Nat /\ used'[k] <= now
         /\ \A k \in Tokens : vouch'[k] # NoConfig => used[k] <= used'[k]
         /\ \A k \in Tokens : vouch'[k] # NoConfig /\ vouch'[k] \in InUse => used'[k] = now
<1>1. DOMAIN used' = Tokens
  BY DEF NoteUse
<1>2. ASSUME NEW k \in Tokens
      PROVE  /\ used'[k] \in Nat /\ used'[k] <= now
             /\ vouch'[k] # NoConfig => used[k] <= used'[k]
             /\ vouch'[k] # NoConfig /\ vouch'[k] \in InUse => used'[k] = now
  <2>1. used[k] \in Nat /\ used[k] <= now
    OBVIOUS
  <2>2. used'[k] = CASE vouch'[k] = NoConfig -> 0
                     [] vouch'[k] # NoConfig /\ vouch'[k] \in InUse -> now
                     [] OTHER -> used[k]
    BY DEF NoteUse
  <2>3. CASE vouch'[k] = NoConfig
    <3>1. used'[k] = 0
      BY <2>2, <2>3
    <3> QED BY <2>3, <3>1
  <2>4. CASE vouch'[k] # NoConfig /\ vouch'[k] \in InUse
    <3>1. used'[k] = now
      BY <2>2, <2>4
    <3> QED BY <2>1, <2>4, <3>1
  <2>5. CASE vouch'[k] # NoConfig /\ vouch'[k] \notin InUse
    <3>1. used'[k] = used[k]
      BY <2>2, <2>5
    <3> QED BY <2>1, <2>5, <3>1
  <2> QED BY <2>3, <2>4, <2>5
<1> QED BY <1>1, <1>2

\* A step keeps VouchInv if what is held afterwards was held before with the
\* same window and the same configuration, or fits the clock.
LEMMA DecisionsCovered ==
  ASSUME CallsInv, VouchInv, NoteUse, now' \in {now, now + 1},
         DecisionsTypeOK(decisions'), DOMAIN vouch' = Tokens,
         \A j \in decisions'.held :
           \/ /\ j \in decisions.held /\ decisions'.entry[j] = decisions.entry[j] /\ vouch'[j] = vouch[j]
           \/ /\ vouch'[j] # NoConfig /\ vouch'[j] \in InUse
              /\ decisions'.entry[j].expiresAt <= now + DecisionTtlS
  PROVE  VouchInv'
<1>1. now \in Nat /\ DecisionTtlS \in Nat
  BY DecisionAssumption DEF CallsInv
<1>2. DOMAIN used = Tokens /\ \A k \in Tokens : used[k] \in Nat /\ used[k] <= now
  BY DEF VouchInv
<1>3. /\ DOMAIN used' = Tokens
      /\ \A k \in Tokens : used'[k] \in Nat /\ used'[k] <= now
      /\ \A k \in Tokens : vouch'[k] # NoConfig => used[k] <= used'[k]
      /\ \A k \in Tokens : vouch'[k] # NoConfig /\ vouch'[k] \in InUse => used'[k] = now
  BY <1>1, <1>2, NoteUseIs
<1>4. \A k \in Tokens : used'[k] \in Nat /\ used'[k] <= now'
  <2> SUFFICES ASSUME NEW k \in Tokens PROVE used'[k] \in Nat /\ used'[k] <= now'
    OBVIOUS
  <2>1. used'[k] \in Nat /\ used'[k] <= now
    BY <1>3
  <2> QED BY <1>1, <2>1
<1>5. ASSUME NEW j \in decisions'.held
      PROVE  vouch'[j] # NoConfig /\ decisions'.entry[j].expiresAt <= used'[j] + DecisionTtlS
  <2>1. j \in Tokens
    BY DEF DecisionsTypeOK
  <2>2. CASE j \in decisions.held /\ decisions'.entry[j] = decisions.entry[j] /\ vouch'[j] = vouch[j]
    <3>1. vouch[j] # NoConfig /\ decisions.entry[j].expiresAt <= used[j] + DecisionTtlS
      BY <2>2 DEF VouchInv
    <3>2. decisions.entry[j].expiresAt \in Int
      BY <2>1 DEF VouchInv, DecisionsTypeOK
    <3>3. used[j] \in Nat /\ used'[j] \in Nat /\ used[j] <= used'[j]
      BY <1>2, <1>3, <2>1, <2>2, <3>1
    <3> DEFINE x == decisions.entry[j].expiresAt
    <3>4. x <= used'[j] + DecisionTtlS
      <4>1. x \in Int /\ x <= used[j] + DecisionTtlS
        BY <3>1, <3>2
      <4> HIDE DEF x
      <4> QED BY <1>1, <3>3, <4>1
    <3> QED BY <2>2, <3>1, <3>4
  <2>3. CASE vouch'[j] # NoConfig /\ vouch'[j] \in InUse /\ decisions'.entry[j].expiresAt <= now + DecisionTtlS
    <3>1. used'[j] = now
      BY <1>3, <2>1, <2>3
    <3> QED BY <2>3, <3>1
  <2> QED BY <2>2, <2>3
<1> QED BY <1>3, <1>4, <1>5 DEF VouchInv

\* The provider vouches for a token: its decision rests on the caller's
\* configuration, which is in use.
LEMMA VouchedCovered ==
  ASSUME CallsInv, VouchInv, NEW t \in Callers, Vouched(t)
  PROVE  /\ DecisionsTypeOK(decisions') /\ DOMAIN vouch' = Tokens
         /\ \A j \in decisions'.held :
              \/ /\ j \in decisions.held /\ decisions'.entry[j] = decisions.entry[j] /\ vouch'[j] = vouch[j]
              \/ /\ vouch'[j] # NoConfig /\ vouch'[j] \in InUse
                 /\ decisions'.entry[j].expiresAt <= now + DecisionTtlS
<1> DEFINE k == call[t].tok
           n == call[t].now
           e == ExpOf[k]
           cfg == call[t].cfg
<1>1. /\ call[t].pc = "Asking" /\ decisions' = Store(decisions, k, e, n)
      /\ vouch' = [j \in Tokens |-> IF j \in decisions'.held
                                    THEN (IF decisions' = decisions THEN vouch
                                          ELSE [vouch EXCEPT ![k] = cfg])[j]
                                    ELSE NoConfig]
  BY DEF Vouched, Validates, Rests
<1>2. CallOK(call[t], now) /\ now \in Nat /\ DecisionTtlS \in Nat
  BY DecisionAssumption DEF CallsInv
<1>3. k \in Tokens /\ n \in Nat /\ n <= now /\ cfg # NoConfig /\ e \in Nat
  BY <1>1, <1>2, CheckTokenAssumption DEF CallOK
<1>4. cfg \in InUse
  BY DEF InUse
<1>5. DecisionsTypeOK(decisions) /\ DOMAIN vouch = Tokens /\ \A j \in Tokens : used[j] \in Nat /\ used[j] <= now
  BY DEF VouchInv
<1> HIDE DEF k, n, e, cfg
<1>6. DecisionsTypeOK(decisions')
  <2>1. DecisionsTypeOK(Store(decisions, k, e, n))
    BY <1>3, <1>5, CacheTypes
  <2> QED BY <1>1, <2>1
<1>7. ASSUME NEW j \in decisions'.held
      PROVE  \/ /\ j \in decisions.held /\ decisions'.entry[j] = decisions.entry[j] /\ vouch'[j] = vouch[j]
             \/ /\ vouch'[j] # NoConfig /\ vouch'[j] \in InUse
                /\ decisions'.entry[j].expiresAt <= now + DecisionTtlS
  <2>1. j \in Tokens
    BY <1>6 DEF DecisionsTypeOK
  <2>2. \/ j \in decisions.held /\ decisions'.entry[j] = decisions.entry[j]
        \/ j = k /\ decisions'.entry[j] = Decision(e, n)
    BY <1>1, <1>3, <1>5, StoreBound
  <2>3. CASE decisions' = decisions
    <3>1. vouch'[j] = vouch[j]
      BY <1>1, <2>1, <2>3
    <3> QED BY <2>3, <3>1
  <2>4. CASE decisions' # decisions
    <3>1. vouch'[j] = [vouch EXCEPT ![k] = cfg][j]
      BY <1>1, <2>1, <2>4
    <3>2. CASE j # k
      BY <2>2, <3>1, <3>2
    <3>3. CASE j = k
      <4>1. vouch'[j] = cfg
        BY <1>3, <1>5, <3>1, <3>3
      <4>2. decisions'.entry[j].expiresAt <= now + DecisionTtlS
        <5>1. CASE j \in decisions.held /\ decisions'.entry[j] = decisions.entry[j]
          <6> DEFINE x == decisions.entry[j].expiresAt
          <6>1. x \in Int /\ x <= used[j] + DecisionTtlS
            BY <2>1, <5>1 DEF VouchInv, DecisionsTypeOK
          <6>2. used[j] \in Nat /\ used[j] <= now
            BY <1>5, <2>1
          <6> HIDE DEF x
          <6>3. x <= now + DecisionTtlS
            BY <1>2, <6>1, <6>2
          <6> QED BY <5>1, <6>3 DEF x
        <5>2. CASE decisions'.entry[j] = Decision(e, n)
          <6>1. Decision(e, n).expiresAt <= n + DecisionTtlS /\ Decision(e, n).expiresAt \in Int
            <7>1. Decision(e, n).expiresAt <= n + DecisionTtlS
              BY <1>3, TtlBound
            <7>2. decisions'.entry[j].expiresAt \in Int
              BY <1>6, <2>1 DEF DecisionsTypeOK
            <7> QED BY <5>2, <7>1, <7>2
          <6> DEFINE x == Decision(e, n).expiresAt
          <6> HIDE DEF x
          <6>2. x <= now + DecisionTtlS
            BY <1>2, <1>3, <6>1 DEF x
          <6> QED BY <5>2, <6>2 DEF x
        <5> QED BY <2>2, <5>1, <5>2
      <4> QED BY <1>3, <1>4, <4>1, <4>2
    <3> QED BY <3>2, <3>3
  <2> QED BY <2>3, <2>4
<1>8. DOMAIN vouch' = Tokens
  BY <1>1
<1> QED BY <1>6, <1>7, <1>8

\* Every step keeps VouchInv.
LEMMA NextVouchInv == CallsInv /\ VouchInv /\ [Next]_vars => VouchInv'
<1> SUFFICES ASSUME CallsInv, VouchInv, [Next]_vars PROVE VouchInv'
  OBVIOUS
<1>1. CASE UNCHANGED vars
  BY <1>1 DEF vars, VouchInv, DecisionsTypeOK
<1>2. CASE Next
  <2>1. NoteUse
    BY <1>2, Steps
  <2>2. now \in Nat /\ DecisionsTypeOK(decisions) /\ DOMAIN vouch = Tokens
    BY DEF CallsInv, VouchInv
  <2>3. ASSUME UNCHANGED <<decisions, vouch>>, now' \in {now, now + 1} PROVE VouchInv'
    <3>1. \A j \in decisions'.held : j \in decisions.held /\ decisions'.entry[j] = decisions.entry[j] /\ vouch'[j] = vouch[j]
      BY <2>3
    <3>2. DecisionsTypeOK(decisions')
      BY <2>2, <2>3
    <3>3. DOMAIN vouch' = Tokens
      BY <2>2, <2>3
    <3> QED BY <2>1, <2>3, <3>1, <3>2, <3>3, DecisionsCovered
  <2>4. CASE Environment
    BY <2>3, <2>4 DEF Environment, history
  <2>5. ASSUME NEW t \in Callers, Kinds(t) PROVE VouchInv'
    <3>1. now' = now
      BY <2>5, KindCalls
    <3>2. CASE MovesOn(t) \/ FinishChunk(t) \/ EndProbe(t)
      <4>1. UNCHANGED <<decisions, vouch>>
        BY <3>2 DEF MovesOn, FinishChunk, EndProbe, history
      <4> QED BY <2>3, <3>1, <4>1
    <3>3. CASE AcceptCached(t) \/ Ask(t)
      <4> DEFINE k == call[t].tok
                 n == call[t].now
      <4>1. call[t].pc = "Row" /\ decisions' = Touch(decisions, k, n)
        BY <3>3 DEF AcceptCached, Ask, Validates
      <4>2. k \in Tokens /\ n \in Nat
        BY <4>1 DEF CallsInv, CallOK
      <4> HIDE DEF k, n
      <4>3. DecisionsTypeOK(decisions')
        <5>1. 0 \in Nat
          OBVIOUS
        <5> QED BY <2>2, <4>1, <4>2, <5>1, CacheTypes
      <4>4. \A j \in decisions'.held : j \in decisions.held /\ decisions'.entry[j] = decisions.entry[j]
        BY <2>2, <4>1, <4>2, TouchBound
      <4>5. \A j \in decisions'.held : vouch'[j] = vouch[j]
        <5>1. CASE AcceptCached(t)
          BY <5>1 DEF AcceptCached
        <5>2. CASE Ask(t)
          BY <4>3, <5>2 DEF Ask, Rests, DecisionsTypeOK
        <5> QED BY <3>3, <5>1, <5>2
      <4>6. DOMAIN vouch' = Tokens
        BY <2>2, <3>3 DEF AcceptCached, Ask, Rests
      <4> QED BY <2>1, <3>1, <4>3, <4>4, <4>5, <4>6, DecisionsCovered
    <3>4. CASE Vouched(t)
      <4>1. /\ DecisionsTypeOK(decisions') /\ DOMAIN vouch' = Tokens
            /\ \A j \in decisions'.held :
                 \/ /\ j \in decisions.held /\ decisions'.entry[j] = decisions.entry[j] /\ vouch'[j] = vouch[j]
                 \/ /\ vouch'[j] # NoConfig /\ vouch'[j] \in InUse
                    /\ decisions'.entry[j].expiresAt <= now + DecisionTtlS
        BY <3>4, VouchedCovered
      <4> QED BY <2>1, <3>1, <4>1, DecisionsCovered
    <3> QED BY <2>5, <3>2, <3>3, <3>4 DEF Kinds
  <2> QED BY <1>2, <2>4, <2>5, Steps
<1> QED BY <1>1, <1>2

\* ConfigTakesEffect: a token accepted from the decision cache rests on a
\* configuration that was in force, or held by a running call, less than
\* default_ttl_s before the chunk's reading of the clock.
THEOREM ConfigChangesApply == Spec => ConfigTakesEffect
<1>1. Init => VouchInv
  BY InitCheckInv DEF CheckInv
<1>2. ASSUME CallsInv, VouchInv, Next, NEW t \in Callers, call[t].pc = "Row", Opaque(t), call'[t].result = "Ok"
      PROVE  call[t].now - used[call[t].tok] < DecisionTtlS
  <2>1. CallOK(call[t], now) /\ DOMAIN call = Callers
    BY <1>2 DEF CallsInv
  <2>2. call[t].result = "" /\ call[t].tok \in Tokens /\ call[t].now \in Nat
    BY <1>2, <2>1 DEF CallOK
  <2>3. PICK u \in Callers : Kinds(u)
    <3>1. ~Environment
      BY <1>2, <2>2 DEF Environment
    <3> QED BY <1>2, <3>1, Steps
  <2>4. u = t
    <3>1. PICK c : call' = [call EXCEPT ![u] = c]
      BY <1>2, <2>3, KindCalls
    <3>2. u # t => call'[t] = call[t]
      BY <2>1, <3>1
    <3> QED BY <1>2, <2>2, <3>2
  <2>5. ~MovesOn(t)
    <3> SUFFICES ASSUME MovesOn(t) PROVE FALSE
      OBVIOUS
    <3>1. PICK c : call' = [call EXCEPT ![t] = c] /\ c.result # "Ok"
      BY <1>2 DEF MovesOn
    <3>2. call'[t] = c
      BY <2>1, <3>1
    <3> QED BY <1>2, <3>1, <3>2
  <2>6. ~Ask(t)
    <3> SUFFICES ASSUME Ask(t) PROVE FALSE
      OBVIOUS
    <3>1. call' = [call EXCEPT ![t] = [call[t] EXCEPT !.pc = "Asking"]]
      BY DEF Ask, Validates
    <3>2. DOMAIN call[t] = CallFields
      BY <2>1 DEF CallOK
    <3>3. call'[t].result = call[t].result
      BY <2>1, <3>1, <3>2 DEF CallFields
    <3> QED BY <1>2, <2>2, <3>3
  <2>7. AcceptCached(t)
    BY <1>2, <2>3, <2>4, <2>5, <2>6 DEF Kinds, Vouched, FinishChunk, EndProbe
  <2> DEFINE k == call[t].tok
             x == decisions.entry[k].expiresAt
  <2>8. k \in decisions.held /\ x > call[t].now
    BY <2>7 DEF AcceptCached, Covers
  <2>9. x \in Int /\ x <= used[k] + DecisionTtlS /\ used[k] \in Nat /\ DecisionTtlS \in Nat
    BY <1>2, <2>2, <2>8, DecisionAssumption DEF VouchInv, DecisionsTypeOK
  <2> DEFINE n == call[t].now
             v == used[k]
  <2>10. n \in Int /\ v \in Int /\ x \in Int /\ DecisionTtlS \in Int /\ x > n /\ x <= v + DecisionTtlS
    <3>1. n \in Int
      <4>1. n \in Nat
        BY <2>2
      <4> HIDE DEF n
      <4> QED BY <4>1
    <3>2. v \in Int
      <4>1. v \in Nat
        BY <2>9
      <4> HIDE DEF v
      <4> QED BY <4>1
    <3>3. x > n
      BY <2>8
    <3>4. DecisionTtlS \in Int
      BY DecisionAssumption
    <3>5. x \in Int /\ x <= v + DecisionTtlS
      BY <2>9
    <3> HIDE DEF x, n, v
    <3> QED BY <3>1, <3>2, <3>3, <3>4, <3>5
  <2>11. n - v < DecisionTtlS
    <3> HIDE DEF x, n, v
    <3> QED BY <2>10
  <2> QED BY <2>11
<1>3. CallsInv /\ VouchInv /\ [Next]_vars =>
        [\A t \in Callers :
           call[t].pc = "Row" /\ Opaque(t) /\ call'[t].result = "Ok" =>
             \/ vouch[call[t].tok] \in InUse
             \/ call[t].now - used[call[t].tok] < DecisionTtlS]_vars
  BY <1>2
<1> QED BY <1>1, <1>3, NextVouchInv, CallsHold, PTL DEF Spec, ConfigTakesEffect

(***************************************************************************)
(* What ValidateHttpUrl and EnforcePlaintextGuard read in a text, and what    *)
(* the URL designates by its structure.                                      *)
(***************************************************************************)
\* Every set of naturals has a least element.
LEMMA NatMin ==
  ASSUME NEW T, T \subseteq Nat, T # {}
  PROVE  \E x \in T : \A y \in T : x <= y
<1> DEFINE R == StrictSubsetOrdering(Nat)
           D == {0..n : n \in T}
<1>1. \A n \in Nat : 0..n \in FiniteSubsetsOf(Nat)
  <2> TAKE n \in Nat
  <2>1. IsFiniteSet(0..n)
    BY FS_Interval
  <2>2. 0..n \subseteq Nat
    OBVIOUS
  <2> QED BY <2>1, <2>2 DEF FiniteSubsetsOf
<1>2. D \subseteq FiniteSubsetsOf(Nat) /\ D # {}
  BY <1>1
<1>3. IsWellFoundedOn(R, FiniteSubsetsOf(Nat))
  BY FS_StrictSubsetOrderingWellFounded
<1> HIDE DEF R
<1>4. PICK d \in D : \A e \in D : ~(<<e, d>> \in R)
  <2> HIDE DEF D
  <2> QED BY <1>2, <1>3, WFMin
<1>5. PICK x \in T : d = 0..x
  BY <1>4
<1>6. ASSUME NEW y \in T, y < x PROVE FALSE
  <2>1. x \in Nat /\ y \in Nat
    OBVIOUS
  <2>2. 0..y \subseteq 0..x /\ x \in 0..x /\ x \notin 0..y
    BY <1>6, <2>1
  <2>3. 0..y \in SUBSET Nat /\ 0..x \in SUBSET Nat /\ 0..y # 0..x
    BY <2>1, <2>2
  <2>4. <<0..y, 0..x>> \in R
    BY <2>2, <2>3 DEF R, StrictSubsetOrdering
  <2> QED BY <1>4, <1>5, <2>4
<1>7. \A y \in T : x <= y
  BY <1>6
<1> QED BY <1>7

\* A text is cut at the first delimiter.
LEMMA CutAtFirst ==
  ASSUME NEW S, NEW s \in Seq(S), NEW ends, NEW n \in 1..Len(s), s[n] \in ends,
         \A i \in 1..(n - 1) : s[i] \notin ends
  PROVE  UpTo(s, ends) = SubSeq(s, 1, n - 1) /\ Past(s, ends) = SubSeq(s, n + 1, Len(s))
<1> DEFINE I == {j \in 1..Len(s) : s[j] \in ends}
           i == SelectInSeq(s, LAMBDA x : x \in ends)
<1>1. i = IF I # {} THEN Min(I) ELSE 0
  BY DEF SelectInSeq
<1>2. Len(s) \in Nat /\ n \in Nat /\ n \in I /\ n # 0 /\ I \subseteq Nat
  OBVIOUS
<1>6. \A j \in I : n <= j
  <2>1. \A j \in 1..Len(s) : n <= j \/ j \in 1..(n - 1)
    BY <1>2
  <2> QED BY <2>1
<1> HIDE DEF I
<1>3. Min(I) \in I /\ \A j \in I : Min(I) <= j
  BY <1>2, <1>6 DEF Min
<1>4. Min(I) = n
  <2>1. Min(I) \in Nat /\ n <= Min(I) /\ Min(I) <= n
    BY <1>2, <1>3, <1>6
  <2> QED BY <1>2, <2>1
<1> HIDE DEF i
<1>5. i = n /\ i # 0
  BY <1>1, <1>2, <1>4
<1> QED BY <1>5 DEF UpTo, Past, i

\* A text without a delimiter is not cut.
LEMMA NotCut ==
  ASSUME NEW S, NEW s \in Seq(S), NEW ends, \A i \in 1..Len(s) : s[i] \notin ends
  PROVE  UpTo(s, ends) = s /\ Past(s, ends) = <<>>
<1> DEFINE i == SelectInSeq(s, LAMBDA x : x \in ends)
<1>1. i = 0
  BY DEF SelectInSeq
<1> HIDE DEF i
<1> QED BY <1>1 DEF UpTo, Past, i

\* Two texts, of which the second begins with the first delimiter.
LEMMA CutAtDelimiter ==
  ASSUME NEW S, NEW a \in Seq(S), NEW b \in Seq(S), NEW ends,
         \A i \in 1..Len(a) : a[i] \notin ends, b # <<>> => b[1] \in ends
  PROVE  UpTo(a \o b, ends) = a
<1> DEFINE s == a \o b
           n == Len(a) + 1
<1>1. /\ s \in Seq(S) /\ Len(a) \in Nat /\ Len(b) \in Nat /\ Len(s) = Len(a) + Len(b)
      /\ \A j \in 1..Len(a) : s[j] = a[j]
      /\ \A j \in 1..Len(b) : s[Len(a) + j] = b[j]
  OBVIOUS
<1>2. CASE b = <<>>
  <2>1. s = a
    BY <1>2
  <2> QED BY <2>1, NotCut
<1>3. CASE b # <<>>
  <2>1. Len(b) >= 1 /\ n \in Nat
    BY <1>1, <1>3
  <2>2. n \in 1..Len(s) /\ s[n] = b[1] /\ n - 1 = Len(a)
    BY <1>1, <2>1
  <2>3. \A i \in 1..(n - 1) : s[i] \notin ends
    BY <1>1, <2>2
  <2>4. UpTo(s, ends) = SubSeq(s, 1, Len(a))
    <3>1. s \in Seq(S) /\ s[n] \in ends
      BY <1>1, <1>3, <2>2
    <3>2. UpTo(s, ends) = SubSeq(s, 1, n - 1)
      <4> HIDE DEF s, n
      <4> QED BY <2>2, <2>3, <3>1, CutAtFirst
    <3> QED BY <2>2, <3>2
  <2>5. SubSeq(s, 1, Len(a)) = SubSeq(a, 1, Len(a))
    BY SubSeqOfConcat1, <1>1
  <2> QED BY <2>4, <2>5, SubSeqFull
<1> QED BY <1>2, <1>3

\* How a text begins.
LEMMA Begins ==
  ASSUME NEW P, NEW S, NEW p \in Seq(P), NEW s \in Seq(S), IsPrefix(p, s)
  PROVE  Len(p) <= Len(s) /\ \A i \in 1..Len(p) : s[i] = p[i]
<1>1. /\ Len(p) <= Len(s) /\ SubSeq(p, 1, Len(p)) = SubSeq(s, 1, Len(p))
      /\ Len(p) \in Nat /\ Len(s) \in Nat
  BY DEF IsPrefix
<1>2. \A i \in 1..Len(p) : SubSeq(p, 1, Len(p))[i] = p[i] /\ SubSeq(s, 1, Len(p))[i] = s[i]
  BY <1>1
<1> QED BY <1>1, <1>2

\* The texts that IsLoopbackHost takes for this machine designate it.
LEMMA LoopbackIsThisMachine ==
  ASSUME NEW S, NEW h \in Seq(S), IsLoopbackHost(h)
  PROVE  ThisMachine(h) /\ h # <<>> /\ (Contains(h, ":") => h \in {<<":", ":", "1">>, <<"[", ":", ":", "1", "]">>})
<1> DEFINE l == AsciiToLower(h)
<1>1. /\ Len(h) \in Nat /\ DOMAIN h = 1..Len(h) /\ Len(l) = Len(h) /\ l \in Seq({l[i] : i \in 1..Len(h)})
      /\ \A i \in 1..Len(h) : l[i] = IF h[i] = "LOCALHOST" THEN "localhost" ELSE h[i]
  <2>1. Len(h) \in Nat /\ DOMAIN h = 1..Len(h)
    BY LenProperties
  <2>2. l = [i \in 1..Len(h) |-> IF h[i] = "LOCALHOST" THEN "localhost" ELSE h[i]]
    BY <2>1 DEF AsciiToLower
  <2>3. l = [i \in 1..Len(h) |-> l[i]] /\ DOMAIN l = 1..Len(h)
    BY <2>2
  <2>4. \A i \in 1..Len(h) : l[i] \in {l[j] : j \in 1..Len(h)}
    OBVIOUS
  <2>5. Len(l) = Len(h) /\ l \in Seq({l[i] : i \in 1..Len(h)})
    <3> HIDE DEF l
    <3> QED BY <2>1, <2>3, <2>4, SeqByElements
  <2> QED BY <2>1, <2>2, <2>5
<1>2. \A i \in 1..Len(h) : l[i] # "localhost" => h[i] = l[i]
  BY <1>1
<1> HIDE DEF l
<1>3. \/ l = <<"localhost">> \/ l = <<":", ":", "1">> \/ l = <<"[", ":", ":", "1", "]">>
      \/ IsPrefix(<<"127.">>, l) /\ ToSet(Tail(l)) \subseteq DottedDigits
  BY DEF IsLoopbackHost, l
<1>4. CASE l = <<"localhost">>
  <2>1. Len(l) = 1 /\ l[1] = "localhost"
    BY <1>4
  <2>2. Len(h) = 1 /\ h[1] \in {"localhost", "LOCALHOST"}
    BY <1>1, <2>1
  <2>3. h = <<h[1]>>
    BY <2>2
  <2> QED BY <2>2, <2>3 DEF ThisMachine, Contains
<1>5. CASE l = <<":", ":", "1">>
  <2>1. Len(l) = 3 /\ l[1] = ":" /\ l[2] = ":" /\ l[3] = "1"
    BY <1>5
  <2>2. Len(h) = 3 /\ h[1] = ":" /\ h[2] = ":" /\ h[3] = "1"
    BY <1>1, <1>2, <2>1
  <2>3. h = <<":", ":", "1">>
    BY <2>2
  <2> QED BY <2>3 DEF ThisMachine
<1>6. CASE l = <<"[", ":", ":", "1", "]">>
  <2>1. Len(l) = 5 /\ l[1] = "[" /\ l[2] = ":" /\ l[3] = ":" /\ l[4] = "1" /\ l[5] = "]"
    BY <1>6
  <2>2. Len(h) = 5 /\ h[1] = "[" /\ h[2] = ":" /\ h[3] = ":" /\ h[4] = "1" /\ h[5] = "]"
    BY <1>1, <1>2, <2>1
  <2>3. h = <<"[", ":", ":", "1", "]">>
    BY <2>2
  <2> QED BY <2>3 DEF ThisMachine
<1>7. CASE IsPrefix(<<"127.">>, l) /\ ToSet(Tail(l)) \subseteq DottedDigits
  <2>1. Len(l) >= 1 /\ l[1] = "127."
    <3> DEFINE p == <<"127.">>
    <3>1. p \in Seq({"127."})
      OBVIOUS
    <3>2. Len(p) = 1 /\ p[1] = "127."
      OBVIOUS
    <3> HIDE DEF p
    <3>3. Len(p) <= Len(l) /\ \A i \in 1..Len(p) : l[i] = p[i]
      <4> DEFINE L == {l[i] : i \in 1..Len(h)}
      <4>1. IsPrefix(p, l)
        BY <1>7 DEF p
      <4>2. l \in Seq(L)
        BY <1>1
      <4> HIDE DEF L
      <4> QED BY <3>1, <4>1, <4>2, Begins
    <3>4. 1 \in 1..Len(p)
      BY <3>2
    <3> QED BY <1>1, <3>2, <3>3, <3>4
  <2>2. h # <<>> /\ h[1] = "127."
    BY <1>1, <1>2, <2>1
  <2>3. ASSUME NEW i \in 2..Len(h) PROVE h[i] \in DottedDigits
    <3>1. l # <<>>
      BY <2>1
    <3>2. Len(Tail(l)) = Len(l) - 1 /\ DOMAIN Tail(l) = 1..(Len(l) - 1) /\ Tail(l)[i - 1] = l[i - 1 + 1]
      BY <1>1, <2>1
    <3>3. i - 1 + 1 = i /\ i - 1 \in 1..(Len(l) - 1)
      BY <1>1
    <3>4. l[i] \in DottedDigits
      BY <1>7, <3>2, <3>3 DEF ToSet
    <3> QED BY <1>1, <1>2, <3>4, HttpUrlAssumption
  <2>4. ~Contains(h, ":")
    <3>1. \A i \in 1..Len(h) : i = 1 \/ i \in 2..Len(h)
      BY <1>1
    <3> QED BY <2>2, <2>3, <3>1, HttpUrlAssumption DEF Contains
  <2> QED BY <2>2, <2>3, <2>4 DEF ThisMachine
<1> QED BY <1>3, <1>4, <1>5, <1>6, <1>7

\* Concatenation under a name, so that the provers take it as it stands.
Cat(x, y) == x \o y

\* Concatenation is associative.
LEMMA CatIs ==
  ASSUME NEW S, NEW x \in Seq(S), NEW y \in Seq(S), NEW z \in Seq(S)
  PROVE Cat(Cat(x, y), z) = Cat(x, Cat(y, z)) /\ Cat(x, y) \in Seq(S)
<1>1. (x \o y) \o z = x \o (y \o z)
  BY ConcatAssociative
<1>2. x \o y \in Seq(S)
  OBVIOUS
<1> QED BY <1>1, <1>2, Zenon DEF Cat

\* Five texts in a row, the first apart.
LEMMA Regroup ==
  ASSUME NEW S, NEW a \in Seq(S), NEW b \in Seq(S), NEW c \in Seq(S), NEW d \in Seq(S), NEW e \in Seq(S)
  PROVE  Cat(Cat(Cat(Cat(a, b), c), d), e) = Cat(a, Cat(Cat(Cat(b, c), d), e))
<1>1. Cat(b, c) \in Seq(S) /\ Cat(Cat(b, c), d) \in Seq(S)
  BY CatIs
<1>2. Cat(Cat(a, b), c) = Cat(a, Cat(b, c))
  BY CatIs
<1>3. Cat(Cat(a, Cat(b, c)), d) = Cat(a, Cat(Cat(b, c), d))
  BY <1>1, CatIs
<1>4. Cat(Cat(a, Cat(Cat(b, c), d)), e) = Cat(a, Cat(Cat(Cat(b, c), d), e))
  BY <1>1, CatIs
<1> QED BY <1>2, <1>3, <1>4

\* The length of a concatenation and how it begins.
LEMMA CatLength ==
  ASSUME NEW S, NEW x \in Seq(S), NEW y \in Seq(S)
  PROVE  /\ Cat(x, y) \in Seq(S) /\ Len(Cat(x, y)) = Len(x) + Len(y) /\ Len(x) \in Nat /\ Len(y) \in Nat
         /\ \A i \in 1..Len(x) : Cat(x, y)[i] = x[i] /\ i \in 1..Len(Cat(x, y))
         /\ \A i \in 1..Len(y) : Cat(x, y)[Len(x) + i] = y[i]
  BY DEF Cat

\* The parts of a URL and its text.
LEMMA Parts ==
  ASSUME NEW u \in Url
  PROVE  /\ u.scheme \in Seq(Lexemes) /\ u.user \in Seq(Lexemes) /\ u.host \in Seq(Lexemes)
         /\ u.port \in Seq(Lexemes) /\ u.rest \in Seq(Lexemes) /\ Text(u) \in Seq(Lexemes)
  BY DEF Url, Text

\* Past its scheme, the text of a well-formed URL begins with user, host and
\* port, and these are what Authority reads.
LEMMA AuthorityIs ==
  ASSUME NEW u, WellFormed(u), NEW s, Len(s) = Len(u.scheme)
  PROVE  Authority(s, Text(u)) = u.user \o u.host \o u.port
<1> DEFINE a == u.user \o u.host \o u.port
           n == Len(u.scheme)
<1>1. /\ u.scheme \in Seq(Lexemes) /\ u.user \in Seq(Lexemes) /\ u.host \in Seq(Lexemes)
      /\ u.port \in Seq(Lexemes) /\ u.rest \in Seq(Lexemes)
  BY Parts DEF WellFormed
<1>2. a \in Seq(Lexemes) /\ Free(a, {"/", "?", "#"}) /\ (u.rest # <<>> => u.rest[1] \in {"/", "?", "#"})
  BY <1>1 DEF WellFormed
<1>3. Text(u) = u.scheme \o (a \o u.rest)
  <2>1. Cat(Cat(Cat(Cat(u.scheme, u.user), u.host), u.port), u.rest)
          = Cat(u.scheme, Cat(Cat(Cat(u.user, u.host), u.port), u.rest))
    <3> DEFINE a1 == u.scheme
               a2 == u.user
               a3 == u.host
               a4 == u.port
               a5 == u.rest
    <3>1. a1 \in Seq(Lexemes) /\ a2 \in Seq(Lexemes) /\ a3 \in Seq(Lexemes) /\ a4 \in Seq(Lexemes) /\ a5 \in Seq(Lexemes)
      BY <1>1
    <3> HIDE DEF a1, a2, a3, a4, a5
    <3>2. Cat(Cat(Cat(Cat(a1, a2), a3), a4), a5) = Cat(a1, Cat(Cat(Cat(a2, a3), a4), a5))
      BY <3>1, Regroup
    <3> QED BY <3>2 DEF a1, a2, a3, a4, a5
  <2> QED BY <2>1, Zenon DEF Text, Cat
<1> HIDE DEF a
<1>4. Without(s, Text(u)) = a \o u.rest
  <2> DEFINE t == a \o u.rest
             x == u.scheme \o t
  <2>1. t \in Seq(Lexemes) /\ Len(t) \in Nat /\ n \in Nat
    BY <1>1, <1>2
  <2> HIDE DEF t
  <2>2. Len(x) = n + Len(t)
    BY <1>1, <2>1
  <2>3. n + 1 \in (Len(u.scheme) + 1)..(Len(u.scheme) + Len(t) + 1) /\ Len(x) \in n + 1 - 1..Len(u.scheme) + Len(t)
    BY <2>1, <2>2
  <2>4. SubSeq(x, n + 1, Len(x)) = SubSeq(t, n + 1 - Len(u.scheme), Len(x) - Len(u.scheme))
    BY <1>1, <2>1, <2>3, SubSeqOfConcat2
  <2>5. n + 1 - Len(u.scheme) = 1 /\ Len(x) - Len(u.scheme) = Len(t)
    BY <2>1, <2>2
  <2>6. SubSeq(t, 1, Len(t)) = t
    BY <2>1, SubSeqFull
  <2>7. Without(s, Text(u)) = SubSeq(x, n + 1, Len(x))
    BY <1>3 DEF Without, t
  <2> QED BY <2>4, <2>5, <2>6, <2>7 DEF t
<1>5. \A i \in 1..Len(a) : a[i] \notin {"/", "?", "#"}
  BY <1>2 DEF Free
<1>6. UpTo(a \o u.rest, {"/", "?", "#"}) = a
  BY <1>1, <1>2, <1>5, CutAtDelimiter
<1> QED BY <1>4, <1>6 DEF Authority, a

\* What HostAndPort makes of the host and port of a well-formed URL: a host that
\* it takes for loopback is the URL's host, and designates this machine.
LEMMA LocalHost ==
  ASSUME NEW ho \in Seq(Lexemes), NEW po \in Seq(Lexemes),
         IF ho # <<>> /\ ho[1] = "["
         THEN /\ \E i \in DOMAIN ho : ho[i] = ":" /\ \A j \in 1..i : ho[j] # "]"
              /\ \A i \in DOMAIN ho : ho[i] = "]" => i = Len(ho) \/ ho[i + 1] # ":"
         ELSE Free(ho, {":"}),
         po # <<>> => po[1] = ":" /\ Free(po, {"[", "]"}),
         ho \o po # <<>>, IsLoopbackHost(HostAndPort(ho \o po).host)
  PROVE  ThisMachine(ho)
<1> DEFINE A == ho \o po
<1>1. /\ A \in Seq(Lexemes) /\ Len(ho) \in Nat /\ Len(po) \in Nat /\ Len(A) = Len(ho) + Len(po)
      /\ DOMAIN ho = 1..Len(ho) /\ DOMAIN po = 1..Len(po)
      /\ \A i \in 1..Len(ho) : A[i] = ho[i]
      /\ \A i \in 1..Len(po) : A[Len(ho) + i] = po[i]
  OBVIOUS
<1>2. ASSUME NEW S, NEW h \in Seq(S), IsLoopbackHost(h) PROVE h # <<>>
  BY <1>2, LoopbackIsThisMachine
<1>3. CASE ~(ho # <<>> /\ ho[1] = "[")
  <2>1. A[1] # "["
    <3>1. CASE ho # <<>>
      <4>1. 1 \in 1..Len(ho)
        BY <1>1, <3>1
      <4> QED BY <1>1, <1>3, <3>1, <4>1
    <3>2. CASE ho = <<>>
      <4>1. A = po
        BY <3>2
      <4> QED BY <4>1
    <3> QED BY <3>1, <3>2
  <2>2. HostAndPort(A) = [host |-> UpTo(A, {":"}), port |-> Past(A, {":"})]
    BY <2>1 DEF HostAndPort
  <2>3. HostAndPort(A).host = UpTo(A, {":"})
    BY <2>2
  <2>4. \A i \in 1..Len(ho) : ho[i] \notin {":"}
    BY <1>1, <1>3 DEF Free
  <2>5. UpTo(A, {":"}) = ho
    BY <2>4, CutAtDelimiter
  <2> QED BY <2>3, <2>5, LoopbackIsThisMachine
<1>4. CASE ho # <<>> /\ ho[1] = "["
  <2> DEFINE inner == Past(UpTo(A, {"]"}), {"["})
             after == Past(A, {"]"})
             I     == {i \in 1..Len(ho) : ho[i] = "]"}
  <2>1. 1 \in 1..Len(ho) /\ A[1] = "["
    <3>1. 1 \in 1..Len(ho)
      BY <1>1, <1>4
    <3> QED BY <1>1, <1>4, <3>1
  <2>2. Contains(A, "]") /\ (after = <<>> \/ after[1] = ":") /\ HostAndPort(A).host = inner
    <3>1. CASE Contains(A, "]") /\ (after = <<>> \/ after[1] = ":")
      BY <2>1, <3>1 DEF HostAndPort
    <3>2. CASE ~(Contains(A, "]") /\ (after = <<>> \/ after[1] = ":"))
      <4>1. HostAndPort(A).host = <<>>
        BY <2>1, <3>2 DEF HostAndPort
      <4>2. <<>> \in Seq(Lexemes) /\ IsLoopbackHost(<<>>)
        BY <4>1
      <4> QED BY <1>2, <4>2
    <3> QED BY <3>1, <3>2
  <2>3. I # {} /\ I \subseteq Nat
    <3>1. PICK i \in 1..Len(A) : A[i] = "]"
      BY <2>2 DEF Contains
    <3>2. CASE i <= Len(ho)
      BY <1>1, <3>1, <3>2
    <3>3. CASE i > Len(ho)
      <4>1. i - Len(ho) \in 1..Len(po)
        BY <1>1, <3>3
      <4>2. A[Len(ho) + (i - Len(ho))] = po[i - Len(ho)]
        BY <1>1, <4>1
      <4>3. Len(ho) + (i - Len(ho)) = i
        BY <1>1
      <4>4. po # <<>>
        BY <1>1, <4>1
      <4> QED BY <1>1, <3>1, <4>1, <4>2, <4>3, <4>4 DEF Free
    <3> QED BY <1>1, <3>2, <3>3
  <2>4. PICK k \in I : \A i \in I : k <= i
    <3> HIDE DEF I
    <3> QED BY <2>3, NatMin
  <2>5. k \in 1..Len(ho) /\ ho[k] = "]" /\ k # 1
    BY <1>4, <2>4
  <2> DEFINE x == SubSeq(A, 1, k - 1)
  <2>6. k \in 1..Len(A) /\ A[k] = "]" /\ \A i \in 1..(k - 1) : A[i] # "]"
    <3>1. \A i \in 1..(k - 1) : i \in 1..Len(ho) /\ ~(k <= i)
      BY <1>1, <2>5
    <3> QED BY <1>1, <2>4, <2>5, <3>1
  <2>7. UpTo(A, {"]"}) = x /\ after = SubSeq(A, k + 1, Len(A))
    <3> DEFINE E == {"]"}
    <3>1. A \in Seq(Lexemes) /\ A[k] \in E /\ \A i \in 1..(k - 1) : A[i] \notin E
      BY <1>1, <2>6
    <3> HIDE DEF A, E
    <3>2. UpTo(A, E) = SubSeq(A, 1, k - 1) /\ Past(A, E) = SubSeq(A, k + 1, Len(A))
      BY <2>6, <3>1, CutAtFirst
    <3> QED BY <3>2 DEF E
  <2>8. x \in Seq(Lexemes) /\ Len(x) = k - 1 /\ \A i \in 1..(k - 1) : x[i] = A[i] /\ x[i] # "]"
    <3>1. k \in Nat /\ k >= 2 /\ k <= Len(A)
      BY <1>1, <2>5
    <3>2. \A i \in 1..Len(A) : A[i] \in Lexemes
      BY <1>1, ElementOfSeq
    <3> HIDE DEF A
    <3> QED BY <1>1, <2>6, <3>1, <3>2
  <2>9. k = Len(ho)
    <3> SUFFICES ASSUME k < Len(ho) PROVE FALSE
      BY <2>5
    <3>1. k + 1 \in 1..Len(ho) /\ k + 1 <= Len(A)
      BY <1>1, <2>5
    <3>2. A[k + 1] = ho[k + 1] /\ ho[k + 1] # ":"
      BY <1>1, <1>4, <2>5, <3>1
    <3>3. Len(after) >= 1 /\ after[1] = A[k + 1]
      <4> HIDE DEF A
      <4>1. /\ Len(SubSeq(A, k + 1, Len(A))) = Len(A) - (k + 1) + 1
            /\ SubSeq(A, k + 1, Len(A))[1] = A[k + 1 + 1 - 1]
        BY <1>1, <2>5, <3>1
      <4>2. Len(A) - (k + 1) + 1 >= 1 /\ k + 1 + 1 - 1 = k + 1
        BY <1>1, <2>5, <3>1
      <4> QED BY <2>7, <4>1, <4>2
    <3>4. after # <<>>
      BY <3>3
    <3> QED BY <2>2, <3>2, <3>3, <3>4
  <2>10. inner = SubSeq(x, 2, Len(x))
    <3>1. 1 \in 1..Len(x) /\ x[1] \in {"["} /\ 1 + 1 = 2 /\ \A i \in 1..(1 - 1) : x[i] \notin {"["}
      BY <2>1, <2>5, <2>8
    <3>2. Past(x, {"["}) = SubSeq(x, 1 + 1, Len(x))
      <4> HIDE DEF x
      <4> QED BY <2>8, <3>1, CutAtFirst
    <3> QED BY <2>7, <3>1, <3>2
  <2>11. inner \in Seq(Lexemes) /\ Len(inner) = k - 2 /\ \A i \in 1..(k - 2) : inner[i] = ho[i + 1] /\ inner[i] # "]"
    <3> HIDE DEF x
    <3>1. k - 1 \in Nat /\ k - 1 >= 1 /\ Len(x) = k - 1
      BY <2>5, <2>8
    <3>2. \A i \in 1..Len(x) : x[i] \in Lexemes
      BY <2>8, ElementOfSeq
    <3>3. /\ SubSeq(x, 2, Len(x)) \in Seq(Lexemes) /\ Len(SubSeq(x, 2, Len(x))) = k - 1 - 2 + 1
          /\ \A i \in 1..(k - 1 - 2 + 1) : SubSeq(x, 2, Len(x))[i] = x[2 + i - 1]
      BY <2>8, <3>1, <3>2
    <3>4. k - 1 - 2 + 1 = k - 2 /\ \A i \in 1..(k - 2) : 2 + i - 1 = i + 1 /\ i + 1 \in 1..(k - 1)
      BY <3>1
    <3>5. \A i \in 1..(k - 1) : i \in 1..Len(ho)
      BY <1>1, <2>5
    <3>6. \A i \in 1..(k - 2) : SubSeq(x, 2, Len(x))[i] = ho[i + 1] /\ SubSeq(x, 2, Len(x))[i] # "]"
      BY <1>1, <2>8, <3>3, <3>4, <3>5
    <3> QED BY <2>10, <3>3, <3>4, <3>6
  <2> HIDE DEF inner
  <2>12. Contains(inner, ":")
    <3>1. PICK i \in 1..Len(ho) : ho[i] = ":" /\ \A j \in 1..i : ho[j] # "]"
      BY <1>1, <1>4
    <3>2. i < k
      <4>1. ~(k \in 1..i)
        BY <2>5, <3>1
      <4> QED BY <1>1, <2>5, <4>1
    <3>3. i # 1
      BY <1>4, <3>1
    <3>4. i - 1 \in 1..(k - 2) /\ i - 1 + 1 = i
      BY <1>1, <2>5, <3>2, <3>3
    <3> QED BY <2>11, <3>1, <3>4 DEF Contains
  <2>13. inner = <<":", ":", "1">>
    <3>1. inner \in {<<":", ":", "1">>, <<"[", ":", ":", "1", "]">>}
      BY <2>2, <2>11, <2>12, LoopbackIsThisMachine
    <3>2. inner # <<"[", ":", ":", "1", "]">>
      <4> SUFFICES ASSUME inner = <<"[", ":", ":", "1", "]">> PROVE FALSE
        OBVIOUS
      <4>1. Len(inner) = 5 /\ inner[5] = "]"
        OBVIOUS
      <4>2. 5 \in 1..(k - 2)
        BY <2>11, <4>1
      <4> QED BY <2>11, <4>1, <4>2
    <3> QED BY <3>1, <3>2
  <2>14. Len(inner) = 3 /\ inner[1] = ":" /\ inner[2] = ":" /\ inner[3] = "1"
    BY <2>13
  <2>15. k = 5
    <3>1. k \in Nat
      BY <1>1, <2>5
    <3>2. Len(inner) = k - 2 /\ Len(inner) = 3
      BY <2>11, <2>14
    <3>3. k - 2 = 3
      BY <3>2
    <3> QED BY <3>1, <3>3
  <2>16. 1 \in 1..(k - 2) /\ 2 \in 1..(k - 2) /\ 3 \in 1..(k - 2) /\ 1 + 1 = 2 /\ 2 + 1 = 3 /\ 3 + 1 = 4
    BY <2>15
  <2>17. ho[2] = ":" /\ ho[3] = ":" /\ ho[4] = "1"
    BY <2>11, <2>14, <2>16
  <2>18. ho = <<"[", ":", ":", "1", "]">>
    BY <1>1, <1>4, <2>5, <2>9, <2>15, <2>17
  <2> QED BY <2>18 DEF ThisMachine
<1> QED BY <1>3, <1>4

\* A URL that ValidateHttpUrl lets through is protected: it has no user, and
\* it is https or its host is this machine.
LEMMA ValidIsProtected ==
  ASSUME NEW u, WellFormed(u), u # NoUrl, ValidHttpUrl(Text(u))
  PROVE  u.user = <<>> /\ (u.scheme = Https \/ ThisMachine(u.host))
<1> DEFINE sc == u.scheme
           us == u.user
           ho == u.host
           po == u.port
           re == u.rest
           t  == Text(u)
<1>1. /\ u \in Url /\ sc \in Seq(Lexemes) /\ us \in Seq(Lexemes) /\ ho \in Seq(Lexemes) /\ po \in Seq(Lexemes)
      /\ re \in Seq(Lexemes) /\ t \in Seq(Lexemes)
  BY Parts DEF WellFormed
<1>13. Len(t) = Len(sc) + Len(us) + Len(ho) + Len(po) + Len(re) /\ \A i \in 1..Len(sc) : t[i] = sc[i]
  <2> DEFINE x == Cat(sc, us)
             y == Cat(x, ho)
             z == Cat(y, po)
  <2>1. sc \in Seq(Lexemes) /\ us \in Seq(Lexemes) /\ ho \in Seq(Lexemes) /\ po \in Seq(Lexemes) /\ re \in Seq(Lexemes)
    BY <1>1
  <2>2. t = Cat(z, re)
    BY Zenon DEF Text, Cat
  <2> HIDE DEF sc, us, ho, po, re, t
  <2>3. x \in Seq(Lexemes) /\ Len(x) = Len(sc) + Len(us) /\ \A i \in 1..Len(sc) : x[i] = sc[i] /\ i \in 1..Len(x)
    BY <2>1, CatLength
  <2> HIDE DEF x
  <2>4. y \in Seq(Lexemes) /\ Len(y) = Len(x) + Len(ho) /\ \A i \in 1..Len(x) : y[i] = x[i] /\ i \in 1..Len(y)
    BY <2>1, <2>3, CatLength
  <2> HIDE DEF y
  <2>5. z \in Seq(Lexemes) /\ Len(z) = Len(y) + Len(po) /\ \A i \in 1..Len(y) : z[i] = y[i] /\ i \in 1..Len(z)
    BY <2>1, <2>4, CatLength
  <2> HIDE DEF z
  <2>6. Len(t) = Len(z) + Len(re) /\ \A i \in 1..Len(z) : t[i] = z[i]
    BY <2>1, <2>2, <2>5, CatLength
  <2>7. \A i \in 1..Len(sc) : t[i] = sc[i]
    BY <2>3, <2>4, <2>5, <2>6
  <2>8. Len(t) = Len(sc) + Len(us) + Len(ho) + Len(po) + Len(re)
    BY <2>3, <2>4, <2>5, <2>6
  <2> QED BY <2>7, <2>8
<1>2. t # <<>>
  <2> SUFFICES ASSUME t = <<>> PROVE FALSE
    OBVIOUS
  <2>1. Len(t) = 0
    OBVIOUS
  <2>2. sc = <<>> /\ us = <<>> /\ ho = <<>> /\ po = <<>> /\ re = <<>>
    <3> HIDE DEF sc, us, ho, po, re, t
    <3> QED BY <1>1, <1>13, <2>1
  <2> QED BY <1>1, <2>2 DEF Url, NoUrl
<1>3. \/ IsPrefix(Https, t) /\ ~Contains(Authority(Https, t), "@")
      \/ IsPrefix(Http, t) /\ ~Contains(Authority(Http, t), "@") /\ IsLocalhostUrl(t)
  BY <1>2 DEF ValidHttpUrl
<1>4. ASSUME NEW name \in {"http", "https"}, IsPrefix(<<name, ":", "/", "/">>, t) PROVE sc = <<name, ":", "/", "/">>
  <2> DEFINE p == <<name, ":", "/", "/">>
  <2>1. p \in Seq({name, ":", "/"}) /\ Len(p) = 4 /\ p[1] = name /\ p[2] = ":" /\ p[3] = "/" /\ p[4] = "/"
    OBVIOUS
  <2>2. IsPrefix(p, t)
    BY <1>4
  <2> HIDE DEF p
  <2>3. Len(p) <= Len(t) /\ \A i \in 1..Len(p) : t[i] = p[i]
    <3> DEFINE P == {name, ":", "/"}
    <3>1. p \in Seq(P) /\ t \in Seq(Lexemes) /\ IsPrefix(p, t)
      BY <1>1, <2>1, <2>2
    <3> HIDE DEF t, P
    <3> QED BY <3>1, Begins
  <2>4. Len(t) > 1 /\ t[1] = name /\ t[2] = ":"
    <3> HIDE DEF t
    <3>1. 1 \in 1..Len(p) /\ 2 \in 1..Len(p)
      BY <2>1
    <3> QED BY <1>1, <2>1, <2>3, <3>1
  <2>5. Len(sc) = 4 /\ SubSeq(sc, 2, 4) = <<":", "/", "/">>
    BY <2>4 DEF WellFormed
  <2>6. t[1] = sc[1]
    <3>1. 1 \in 1..Len(sc)
      BY <2>5
    <3>2. \A i \in 1..Len(sc) : t[i] = sc[i]
      BY <1>13
    <3> HIDE DEF t, sc
    <3> QED BY <3>1, <3>2
  <2>7. sc[2] = ":" /\ sc[3] = "/" /\ sc[4] = "/"
    <3> DEFINE m == SubSeq(sc, 2, 4)
               q == <<":", "/", "/">>
    <3>1. m[1] = sc[2] /\ m[2] = sc[3] /\ m[3] = sc[4]
      <4>1. sc \in Seq(Lexemes) /\ Len(sc) = 4
        BY <1>1, <2>5
      <4> HIDE DEF sc
      <4> QED BY <4>1
    <3>2. m = q
      BY <2>5
    <3>3. q[1] = ":" /\ q[2] = "/" /\ q[3] = "/"
      OBVIOUS
    <3> HIDE DEF m, q, sc
    <3> QED BY <3>1, <3>2, <3>3
  <2> HIDE DEF sc, t
  <2> QED BY <1>1, <2>4, <2>5, <2>6, <2>7
<1>5. sc = Https \/ sc = Http
  BY <1>3, <1>4 DEF Http, Https
<1>6. Len(Https) = 4 /\ Len(Http) = 4 /\ Len(sc) = 4
  BY <1>5 DEF Http, Https
<1> DEFINE A == us \o ho \o po
<1>7. Authority(Https, t) = A /\ Authority(Http, t) = A
  BY <1>6, AuthorityIs
<1>8. ~Contains(A, "@")
  BY <1>3, <1>7
<1>9. us = <<>>
  <2> SUFFICES ASSUME us # <<>> PROVE FALSE
    OBVIOUS
  <2>1. us[Len(us)] = "@"
    BY DEF WellFormed
  <2> HIDE DEF us, ho, po
  <2>2. Len(us) \in 1..Len(us)
    BY <1>1
  <2>3. A[Len(us)] = us[Len(us)] /\ Len(us) \in 1..Len(A)
    <3> DEFINE x == Cat(us, ho)
    <3>0. us \in Seq(Lexemes) /\ ho \in Seq(Lexemes) /\ po \in Seq(Lexemes)
      BY <1>1
    <3>4. x \in Seq(Lexemes) /\ \A i \in 1..Len(us) : x[i] = us[i] /\ i \in 1..Len(x)
      BY <3>0, CatLength
    <3>1. x \in Seq(Lexemes) /\ x[Len(us)] = us[Len(us)] /\ Len(us) \in 1..Len(x)
      BY <2>2, <3>4, Zenon
    <3> HIDE DEF x
    <3>5. \A i \in 1..Len(x) : Cat(x, po)[i] = x[i] /\ i \in 1..Len(Cat(x, po))
      BY <3>0, <3>1, CatLength
    <3>2. Cat(x, po)[Len(us)] = x[Len(us)] /\ Len(us) \in 1..Len(Cat(x, po))
      BY <3>1, <3>5, Zenon
    <3>3. A = Cat(x, po)
      BY Zenon DEF Cat, x
    <3> QED BY <3>1, <3>2, <3>3
  <2> QED BY <1>8, <2>1, <2>3 DEF Contains
<1>10. A = ho \o po
  <2> HIDE DEF us, ho, po
  <2> QED BY <1>1, <1>9
<1>11. CASE sc = Https
  BY <1>9, <1>11
<1>12. CASE sc = Http
  <2>1. ~IsPrefix(Https, t)
    <3>1. IsPrefix(Https, t) => sc = Https
      BY <1>4 DEF Https
    <3>2. Http # Https
      <4>1. Http[1] # Https[1]
        BY DEF Http, Https
      <4> QED BY <4>1
    <3> QED BY <1>12, <3>1, <3>2
  <2>2. IsLocalhostUrl(t)
    BY <1>3, <2>1
  <2>3. ho \o po # <<>> /\ IsLoopbackHost(HostAndPort(ho \o po).host)
    BY <1>7, <1>10, <2>2 DEF IsLocalhostUrl
  <2>4. /\ IF ho # <<>> /\ ho[1] = "["
           THEN /\ \E i \in DOMAIN ho : ho[i] = ":" /\ \A j \in 1..i : ho[j] # "]"
                /\ \A i \in DOMAIN ho : ho[i] = "]" => i = Len(ho) \/ ho[i + 1] # ":"
           ELSE Free(ho, {":"})
        /\ po # <<>> => po[1] = ":" /\ Free(po, {"[", "]"})
    BY DEF WellFormed
  <2>5. ThisMachine(ho)
    <3> HIDE DEF ho, po
    <3> QED BY <1>1, <2>3, <2>4, LocalHost
  <2> QED BY <1>9, <2>5
<1> QED BY <1>5, <1>11, <1>12

\* A longer path keeps a URL well-formed.
LEMMA BelowWellFormed ==
  ASSUME NEW u, WellFormed(u), NEW p \in Seq(Lexemes), p # <<>>, p[1] = "/"
  PROVE  WellFormed(Below(u, p))
<1> DEFINE b  == Below(u, p)
           sc == u.scheme
           us == u.user
           ho == u.host
           po == u.port
           re == u.rest
           r  == re \o p
           t  == Text(u)
           tb == Text(b)
<1>1. /\ u \in Url /\ sc \in Seq(Lexemes) /\ us \in Seq(Lexemes) /\ ho \in Seq(Lexemes) /\ po \in Seq(Lexemes)
      /\ re \in Seq(Lexemes) /\ t \in Seq(Lexemes)
  BY Parts DEF WellFormed
<1>2. r \in Seq(Lexemes) /\ r # <<>> /\ r[1] \in {"/", "?", "#"}
  <2>1. re # <<>> => re[1] \in {"/", "?", "#"}
    BY DEF WellFormed
  <2>2. re \in Seq(Lexemes)
    BY <1>1
  <2> HIDE DEF re
  <2>3. r \in Seq(Lexemes) /\ Len(r) = Len(re) + Len(p) /\ Len(re) \in Nat /\ Len(p) \in Nat /\ Len(p) >= 1
    BY <2>2
  <2>4. CASE re = <<>>
    BY <2>4
  <2>5. CASE re # <<>>
    <3>1. 1 \in 1..Len(re) /\ r[1] = re[1]
      BY <2>2, <2>5
    <3> QED BY <2>1, <2>3, <2>5, <3>1
  <2> QED BY <2>3, <2>4, <2>5
<1>3. /\ b \in Url /\ b.scheme = sc /\ b.user = us /\ b.host = ho /\ b.port = po /\ b.rest = r
  <2> HIDE DEF r
  <2>1. b = [u EXCEPT !.rest = r]
    BY DEF Below, r
  <2> QED BY <1>1, <1>2, <2>1 DEF Url
<1>4. tb = t \o p
  <2> DEFINE x == Cat(Cat(Cat(sc, us), ho), po)
  <2>1. t = Cat(x, re)
    BY Zenon DEF Text, Cat
  <2>2. tb = Cat(x, r)
    BY <1>3, Zenon DEF Text, Cat
  <2>3. r = Cat(re, p)
    BY Zenon DEF Cat
  <2>4. x \in Seq(Lexemes)
    BY <1>1 DEF Cat
  <2>5. re \in Seq(Lexemes)
    BY <1>1
  <2> HIDE DEF x, t, tb, r, re
  <2>6. Cat(Cat(x, re), p) = Cat(x, Cat(re, p))
    BY <2>4, <2>5, CatIs
  <2>7. tb = Cat(t, p)
    BY <2>1, <2>2, <2>3, <2>6
  <2> QED BY <2>7, Zenon DEF Cat
<1>5. (Len(tb) > 1 /\ tb[1] \in {"http", "https"} /\ tb[2] = ":")
        => (Len(t) > 1 /\ t[1] \in {"http", "https"} /\ t[2] = ":")
  <2>1. t \in Seq(Lexemes)
    BY <1>1
  <2> HIDE DEF t, tb
  <2>2. /\ Len(t) \in Nat /\ Len(p) >= 1 /\ Len(tb) = Len(t) + Len(p) /\ \A i \in 1..Len(t) : tb[i] = t[i]
        /\ tb[Len(t) + 1] = "/"
    BY <1>4, <2>1
  <2>3. CASE Len(t) > 1
    <3>1. 1 \in 1..Len(t) /\ 2 \in 1..Len(t)
      BY <2>2, <2>3
    <3> QED BY <2>2, <2>3, <3>1
  <2>4. CASE Len(t) = 1
    <3>1. tb[2] = "/"
      BY <2>2, <2>4
    <3> QED BY <3>1
  <2>5. CASE Len(t) = 0
    <3>1. tb[1] = "/"
      BY <2>2, <2>5
    <3> QED BY <3>1
  <2> QED BY <2>2, <2>3, <2>4, <2>5
<1>6. \/ Len(sc) = 4 /\ SubSeq(sc, 2, 4) = <<":", "/", "/">>
      \/ sc = <<>> /\ ~(Len(tb) > 1 /\ tb[1] \in {"http", "https"} /\ tb[2] = ":")
  <2>1. \/ Len(sc) = 4 /\ SubSeq(sc, 2, 4) = <<":", "/", "/">>
        \/ sc = <<>> /\ ~(Len(t) > 1 /\ t[1] \in {"http", "https"} /\ t[2] = ":")
    BY DEF WellFormed
  <2> HIDE DEF t, tb, sc
  <2> QED BY <1>5, <2>1
<1>7. /\ Free(us \o ho \o po, {"/", "?", "#"})
      /\ us # <<>> => us[Len(us)] = "@"
      /\ IF ho # <<>> /\ ho[1] = "["
         THEN /\ \E i \in DOMAIN ho : ho[i] = ":" /\ \A j \in 1..i : ho[j] # "]"
              /\ \A i \in DOMAIN ho : ho[i] = "]" => i = Len(ho) \/ ho[i + 1] # ":"
         ELSE Free(ho, {":"})
      /\ po # <<>> => po[1] = ":" /\ Free(po, {"[", "]"})
  BY Zenon DEF WellFormed
<1> HIDE DEF b, sc, us, ho, po, r
<1> QED BY <1>2, <1>3, <1>6, <1>7, Zenon DEF WellFormed, b

\* The host that EnforcePlaintextGuard reads in host and port of a listener is
\* this machine only if the listener is bound to this machine.
LEMMA HostOfBody ==
  ASSUME NEW ho \in Seq(Lexemes), NEW po \in Seq(Lexemes), ho # <<>>, NEW h,
         po # <<>> => Len(po) = 2 /\ po[1] = ":" /\ po[2] # ":",
         IF ho[1] = "[" THEN \A i \in DOMAIN ho : ho[i] = "]" => i = Len(ho)
         ELSE po = <<>> => Free(ho, {":"}) \/ ho = <<":", ":", "1">>,
         ho[1] = "[" => Contains(ho \o po, "]") /\ h = Append(UpTo(ho \o po, {"]"}), "]"),
         ho[1] # "[" => LET colon == SelectLastInSeq(ho \o po, LAMBDA x : x = ":") IN
                        h = IF colon = 0 THEN ho \o po ELSE SubSeq(ho \o po, 1, colon - 1),
         IsLoopbackHost(h)
  PROVE  ThisMachine(ho)
<1> DEFINE A == ho \o po
<1>1. /\ A \in Seq(Lexemes) /\ Len(ho) \in Nat /\ Len(po) \in Nat /\ Len(A) = Len(ho) + Len(po)
      /\ DOMAIN ho = 1..Len(ho) /\ DOMAIN po = 1..Len(po) /\ Len(ho) >= 1
      /\ \A i \in 1..Len(ho) : A[i] = ho[i]
      /\ \A i \in 1..Len(po) : A[Len(ho) + i] = po[i]
  OBVIOUS
<1>2. SubSeq(A, 1, Len(ho)) = ho
  <2>1. SubSeq(A, 1, Len(ho)) = SubSeq(ho, 1, Len(ho))
    BY SubSeqOfConcat1, <1>1
  <2> QED BY <2>1, SubSeqFull
<1>3. CASE ho[1] # "[" /\ po = <<>>
  <2>1. CASE ho = <<":", ":", "1">>
    BY <2>1 DEF ThisMachine
  <2>2. CASE Free(ho, {":"})
    <3>1. A = ho
      BY <1>3
    <3>2. SelectLastInSeq(ho, LAMBDA x : x = ":") = 0
      BY <2>2, <1>1 DEF SelectLastInSeq, Free
    <3>3. h = ho
      BY <1>3, <3>1, <3>2
    <3> QED BY <3>3, LoopbackIsThisMachine
  <2> QED BY <1>3, <2>1, <2>2
<1>4. CASE ho[1] # "[" /\ po # <<>>
  <2> DEFINE n == Len(ho) + 1
             I == {i \in 1..Len(A) : A[i] = ":"}
             c == SelectLastInSeq(A, LAMBDA x : x = ":")
  <2>1. Len(po) = 2 /\ po[1] = ":" /\ po[2] # ":" /\ 1 \in 1..Len(po) /\ 2 \in 1..Len(po)
    <3>1. Len(po) = 2 /\ po[1] = ":" /\ po[2] # ":"
      BY <1>4, Zenon
    <3>2. 1 \in 1..Len(po) /\ 2 \in 1..Len(po)
      BY <3>1
    <3> QED BY <3>1, <3>2
  <2>2. Len(A) = Len(ho) + 2 /\ A[n] = ":" /\ A[Len(ho) + 2] # ":"
    BY <1>1, <2>1
  <2>3. n \in I /\ n \in Nat /\ n # 0 /\ n - 1 = Len(ho)
    BY <1>1, <2>2
  <2>4. \A j \in I : j \in Nat /\ n >= j
    <3>1. \A j \in 1..Len(A) : j \in Nat /\ (n >= j \/ j = Len(ho) + 2)
      BY <1>1, <2>2
    <3> QED BY <2>2, <3>1
  <2>5. c = IF I # {} THEN Max(I) ELSE 0
    BY DEF SelectLastInSeq
  <2> HIDE DEF I
  <2>6. Max(I) \in I /\ \A j \in I : Max(I) >= j
    BY <2>3, <2>4 DEF Max
  <2>7. Max(I) = n
    <3>1. Max(I) \in Nat /\ n >= Max(I) /\ Max(I) >= n
      BY <2>3, <2>4, <2>6
    <3> QED BY <2>3, <3>1
  <2>8. c = n
    BY <2>3, <2>5, <2>7
  <2>9. h = IF c = 0 THEN A ELSE SubSeq(A, 1, c - 1)
    BY <1>4
  <2>10. h = SubSeq(A, 1, Len(ho))
    <3> HIDE DEF c, A, n
    <3> QED BY <2>3, <2>8, <2>9
  <2> QED BY <1>2, <2>10, LoopbackIsThisMachine
<1>5. CASE ho[1] = "[" /\ Contains(ho, "]")
  <2> DEFINE n == Len(ho)
             x == SubSeq(A, 1, n - 1)
  <2>1. ho[n] = "]" /\ \A i \in 1..(n - 1) : ho[i] # "]"
    <3>1. \A i \in 1..n : ho[i] = "]" => i = n
      BY <1>1, <1>5
    <3>2. PICK i \in 1..n : ho[i] = "]"
      BY <1>5 DEF Contains
    <3>3. \A j \in 1..(n - 1) : j \in 1..n /\ j # n
      BY <1>1
    <3> QED BY <3>1, <3>2, <3>3
  <2>2. n \in 1..Len(A) /\ A[n] \in {"]"} /\ \A i \in 1..(n - 1) : A[i] \notin {"]"}
    <3>1. n \in 1..n /\ n \in 1..Len(A) /\ \A i \in 1..(n - 1) : i \in 1..n
      BY <1>1
    <3> QED BY <1>1, <2>1, <3>1
  <2>3. UpTo(A, {"]"}) = x
    <3> DEFINE E == {"]"}
    <3>1. A \in Seq(Lexemes) /\ n \in 1..Len(A) /\ A[n] \in E /\ \A i \in 1..(n - 1) : A[i] \notin E
      BY <1>1, <2>2
    <3> HIDE DEF A, n, E
    <3>2. UpTo(A, E) = SubSeq(A, 1, n - 1)
      BY <3>1, CutAtFirst
    <3> QED BY <3>2 DEF E
  <2>4. h = Append(x, "]")
    BY <1>5, <2>3
  <2>5. Append(x, "]") = ho
    <3>1. x \in Seq(Lexemes) /\ Len(x) = n - 1 /\ \A i \in 1..(n - 1) : x[i] = ho[i]
      <4>1. n - 1 \in Nat /\ n - 1 <= Len(A) /\ \A i \in 1..(n - 1) : i \in 1..n
        BY <1>1
      <4>2. SubSeq(A, 1, n - 1) \in Seq(Lexemes)
        BY <1>1, <4>1, SubSeqProperties
      <4>3. Len(SubSeq(A, 1, n - 1)) = n - 1 /\ \A i \in 1..(n - 1) : SubSeq(A, 1, n - 1)[i] = A[i]
        <5> HIDE DEF A
        <5> QED BY <1>1, <4>1
      <4> QED BY <1>1, <4>1, <4>2, <4>3
    <3> HIDE DEF x, A
    <3>2. "]" \in Lexemes
      <4>1. ho[n] \in Lexemes
        BY <1>1, ElementOfSeq
      <4> QED BY <2>1, <4>1
    <3>3. Append(x, "]") \in Seq(Lexemes) /\ Len(Append(x, "]")) = n /\ \A i \in 1..n : Append(x, "]")[i] = ho[i]
      <4> HIDE DEF n
      <4>1. n \in Nat /\ n - 1 \in Nat /\ n - 1 + 1 = n
        BY <1>1 DEF n
      <4>2. /\ Append(x, "]") \in Seq(Lexemes) /\ Len(Append(x, "]")) = n - 1 + 1
            /\ \A i \in 1..(n - 1) : Append(x, "]")[i] = x[i]
            /\ Append(x, "]")[n - 1 + 1] = "]"
        BY <3>1, <3>2, <4>1
      <4>3. \A i \in 1..n : i \in 1..(n - 1) \/ i = n
        BY <4>1
      <4> QED BY <2>1, <3>1, <4>1, <4>2, <4>3
    <3> QED BY <3>3, SeqEqual
  <2> QED BY <2>4, <2>5, LoopbackIsThisMachine
<1>6. CASE ho[1] = "[" /\ ~Contains(ho, "]")
  <2> DEFINE n == Len(ho) + 2
             x == SubSeq(A, 1, n - 1)
  <2>1. PICK k \in 1..Len(A) : A[k] = "]"
    BY <1>6 DEF Contains
  <2>2. \A i \in 1..Len(ho) : A[i] # "]"
    BY <1>1, <1>6 DEF Contains
  <2>3. po # <<>>
    BY <1>1, <2>1, <2>2
  <2>4. Len(po) = 2 /\ po[1] = ":" /\ 1 \in 1..Len(po) /\ 2 \in 1..Len(po)
    <3>1. Len(po) = 2 /\ po[1] = ":"
      BY <2>3, Zenon
    <3>2. 1 \in 1..Len(po) /\ 2 \in 1..Len(po)
      BY <3>1
    <3> QED BY <3>1, <3>2
  <2>5. Len(A) = n /\ A[n - 1] = ":" /\ n - 1 = Len(ho) + 1
    BY <1>1, <2>4
  <2>6. n \in 1..Len(A) /\ A[n] \in {"]"} /\ \A i \in 1..(n - 1) : A[i] \notin {"]"}
    <3>1. \A i \in 1..Len(A) : i \in 1..Len(ho) \/ i = n - 1 \/ i = n
      BY <1>1, <2>5
    <3>2. k = n
      BY <2>1, <2>2, <2>5, <3>1
    <3>3. \A i \in 1..(n - 1) : i \in 1..Len(ho) \/ i = n - 1
      BY <1>1
    <3> QED BY <2>1, <2>2, <2>5, <3>2, <3>3
  <2>7. UpTo(A, {"]"}) = x
    <3> DEFINE E == {"]"}
    <3>1. A \in Seq(Lexemes) /\ n \in 1..Len(A) /\ A[n] \in E /\ \A i \in 1..(n - 1) : A[i] \notin E
      BY <1>1, <2>6
    <3> HIDE DEF A, n, E
    <3>2. UpTo(A, E) = SubSeq(A, 1, n - 1)
      BY <3>1, CutAtFirst
    <3> QED BY <3>2 DEF E
  <2>8. h = Append(x, "]")
    BY <1>6, <2>7
  <2>9. x \in Seq(Lexemes) /\ Len(x) = n - 1 /\ x[n - 1] = ":" /\ x[1] = "["
    <3>1. n - 1 \in Nat /\ n - 1 <= Len(A) /\ 1 \in 1..(n - 1) /\ n - 1 \in 1..(n - 1)
      BY <1>1, <2>5
    <3>2. x \in Seq(Lexemes)
      BY <1>1, <3>1, SubSeqProperties
    <3>3. Len(SubSeq(A, 1, n - 1)) = n - 1 /\ \A i \in 1..(n - 1) : SubSeq(A, 1, n - 1)[i] = A[i]
      <4> HIDE DEF A
      <4> QED BY <1>1, <3>1
    <3>4. A[1] = "["
      <4>1. 1 \in 1..Len(ho)
        BY <1>1
      <4> QED BY <1>1, <1>6, <4>1
    <3> QED BY <2>5, <3>1, <3>2, <3>3, <3>4
  <2>10. "]" \in Lexemes
    <3>1. A[n] \in Lexemes
      BY <1>1, <2>6, ElementOfSeq
    <3> QED BY <2>6, <3>1
  <2> HIDE DEF x, A
  <2>11. h \in Seq(Lexemes) /\ Len(h) = n /\ h[n - 1] = ":" /\ h[1] = "["
    BY <1>1, <2>8, <2>9, <2>10
  <2>12. h \in {<<":", ":", "1">>, <<"[", ":", ":", "1", "]">>}
    <3>1. n - 1 \in 1..Len(h)
      BY <1>1, <2>11
    <3>2. Contains(h, ":")
      BY <2>11, <3>1 DEF Contains
    <3> QED BY <2>11, <3>2, LoopbackIsThisMachine
  <2>13. h[1] = "[" => h = <<"[", ":", ":", "1", "]">>
    BY <2>12
  <2>14. Len(h) = 5 /\ h[4] = "1"
    <3> DEFINE v == <<"[", ":", ":", "1", "]">>
    <3>1. h = v
      BY <2>11, <2>13
    <3>2. Len(v) = 5 /\ v[4] = "1"
      OBVIOUS
    <3> HIDE DEF v
    <3> QED BY <3>1, <3>2
  <2>15. n - 1 = 4
    <3>1. n = 5
      BY <2>11, <2>14
    <3> QED BY <3>1
  <2> QED BY <2>11, <2>14, <2>15
<1> QED BY <1>3, <1>4, <1>5, <1>6

\* A listener that EnforcePlaintextGuard takes for a loopback one is bound to
\* this machine.
LEMMA ListenerIsHere ==
  ASSUME NEW l, ListenUri(l), IsLoopbackHost(HostFromQuackUri(Text(l)))
  PROVE  ThisMachine(l.host)
<1> DEFINE sc == l.scheme
           ho == l.host
           po == l.port
           A  == ho \o po
           t  == Text(l)
           long  == <<"quack", ":", "/", "/">>
           short == <<"quack", ":">>
           h  == HostFromQuackUri(t)
<1>1. /\ l \in Url /\ sc \in Seq(Lexemes) /\ ho \in Seq(Lexemes) /\ po \in Seq(Lexemes) /\ t \in Seq(Lexemes)
      /\ l.user = <<>> /\ l.rest = <<>>
  BY Parts DEF ListenUri
<1>2. t = Cat(sc, A)
  <2>1. t = Cat(Cat(Cat(Cat(sc, <<>>), ho), po), <<>>)
    BY <1>1, Zenon DEF Text, Cat
  <2>2. sc \in Seq(Lexemes) /\ ho \in Seq(Lexemes) /\ po \in Seq(Lexemes)
    BY <1>1
  <2>5. A = Cat(ho, po)
    BY Zenon DEF Cat
  <2> HIDE DEF t, sc, ho, po, A
  <2>3. Cat(sc, <<>>) = sc /\ Cat(Cat(Cat(sc, ho), po), <<>>) = Cat(Cat(sc, ho), po)
    <3> DEFINE y == Cat(Cat(sc, ho), po)
    <3>1. y \in Seq(Lexemes)
      BY <2>2 DEF Cat
    <3> HIDE DEF y
    <3>2. sc \o <<>> = sc /\ y \o <<>> = y
      BY <2>2, <3>1
    <3>3. Cat(sc, <<>>) = sc /\ Cat(y, <<>>) = y
      BY <3>2, Zenon DEF Cat
    <3> QED BY <3>3 DEF y
  <2>4. Cat(Cat(sc, ho), po) = Cat(sc, Cat(ho, po))
    BY <2>2, CatIs
  <2> QED BY <2>1, <2>3, <2>4, <2>5
<1>3. /\ A \in Seq(Lexemes) /\ Len(ho) \in Nat /\ Len(ho) >= 1 /\ Len(A) \in Nat /\ Len(A) >= 1 /\ A[1] = ho[1]
      /\ ho # <<>> /\ A # <<>>
  <2>1. ho # <<>>
    BY DEF ListenUri
  <2>2. ho \in Seq(Lexemes) /\ po \in Seq(Lexemes)
    BY <1>1
  <2> HIDE DEF ho, po
  <2>3. Len(ho) \in Nat /\ Len(po) \in Nat /\ Len(ho) >= 1 /\ A \in Seq(Lexemes) /\ Len(A) = Len(ho) + Len(po)
    BY <2>1, <2>2
  <2>4. A[1] = ho[1] /\ Len(A) >= 1 /\ Len(A) \in Nat
    BY <2>2, <2>3
  <2>5. A # <<>>
    BY <2>3, <2>4
  <2> QED BY <2>1, <2>3, <2>4, <2>5
<1>4. /\ Len(t) = Len(sc) + Len(A) /\ Len(sc) \in Nat
      /\ t[Len(sc) + 1] = A[1]
      /\ \A i \in 1..Len(sc) : t[i] = sc[i]
  <2>3. Len(A) \in Nat /\ Len(A) >= 1 /\ sc \in Seq(Lexemes) /\ A \in Seq(Lexemes)
    BY <1>1, <1>3
  <2> HIDE DEF sc, A, t
  <2>1. 1 \in 1..Len(A)
    BY <2>3
  <2>2. /\ Len(Cat(sc, A)) = Len(sc) + Len(A) /\ Len(sc) \in Nat
        /\ \A i \in 1..Len(sc) : Cat(sc, A)[i] = sc[i]
        /\ \A i \in 1..Len(A) : Cat(sc, A)[Len(sc) + i] = A[i]
    <3>1. sc \in Seq(Lexemes) /\ A \in Seq(Lexemes)
      BY <2>3
    <3>2. Len(Cat(sc, A)) = Len(sc) + Len(A) /\ Len(sc) \in Nat
      BY <3>1, CatLength
    <3>3. \A i \in 1..Len(sc) : Cat(sc, A)[i] = sc[i]
      BY <3>1, CatLength
    <3>4. \A i \in 1..Len(A) : Cat(sc, A)[Len(sc) + i] = A[i]
      <4> DEFINE z == Cat(sc, A)
      <4>1. z = sc \o A
        BY Zenon DEF Cat
      <4> HIDE DEF z
      <4>2. \A i \in 1..Len(A) : z[Len(sc) + i] = A[i]
        BY <3>1, <4>1
      <4> QED BY <4>2 DEF z
    <3> QED BY <3>2, <3>3, <3>4
  <2> QED BY <1>2, <2>1, <2>2
<1>5. ho[1] # "/"
  <2>1. Free(ho, {"/"})
    BY DEF ListenUri
  <2>2. 1 \in DOMAIN ho
    BY <1>1, <1>3
  <2> QED BY <2>1, <2>2 DEF Free
<1>6. \/ Len(sc) = 2 /\ sc[2] = ":"
      \/ Len(sc) = 4 /\ sc[2] = ":" /\ sc[3] = "/" /\ sc[4] = "/"
  <2>1. \/ Len(sc) = 2 /\ sc[2] = ":"
        \/ Len(sc) = 4 /\ SubSeq(sc, 2, 4) = <<":", "/", "/">>
    BY DEF ListenUri
  <2>2. sc \in Seq(Lexemes)
    BY <1>1
  <2> HIDE DEF sc
  <2>3. ASSUME Len(sc) = 4, SubSeq(sc, 2, 4) = <<":", "/", "/">> PROVE sc[2] = ":" /\ sc[3] = "/" /\ sc[4] = "/"
    <3> DEFINE m == SubSeq(sc, 2, 4)
               q == <<":", "/", "/">>
    <3>1. m[1] = sc[2] /\ m[2] = sc[3] /\ m[3] = sc[4]
      BY <2>2, <2>3
    <3>2. m = q
      BY <2>3
    <3>3. q[1] = ":" /\ q[2] = "/" /\ q[3] = "/"
      OBVIOUS
    <3> HIDE DEF m, q
    <3> QED BY <3>1, <3>2, <3>3
  <2> QED BY <2>1, <2>3
<1>7. SubSeq(t, Len(sc) + 1, Len(t)) = A
  <2>1. sc \in Seq(Lexemes) /\ A \in Seq(Lexemes)
    BY <1>1, <1>3
  <2> HIDE DEF sc, A
  <2> DEFINE x == sc \o A
             n == Len(sc)
  <2>2. Len(x) = n + Len(A) /\ n \in Nat /\ Len(A) \in Nat
    BY <2>1
  <2>3. n + 1 \in (Len(sc) + 1)..(Len(sc) + Len(A) + 1) /\ Len(x) \in n + 1 - 1..Len(sc) + Len(A)
    BY <2>1, <2>2
  <2>4. SubSeq(x, n + 1, Len(x)) = SubSeq(A, n + 1 - Len(sc), Len(x) - Len(sc))
    BY <2>1, <2>3, SubSeqOfConcat2
  <2>5. n + 1 - Len(sc) = 1 /\ Len(x) - Len(sc) = Len(A)
    BY <2>2
  <2>6. SubSeq(A, 1, Len(A)) = A
    BY <2>1, SubSeqFull
  <2>7. t = x
    <3> HIDE DEF t
    <3> QED BY <1>2, Zenon DEF Cat
  <2> HIDE DEF t, x
  <2> QED BY <2>4, <2>5, <2>6, <2>7
<1>8. Len(long) = 4 /\ Len(short) = 2 /\ long[1] = "quack" /\ long[2] = ":" /\ long[3] = "/" /\ long[4] = "/"
      /\ short[1] = "quack" /\ short[2] = ":" /\ long \in Seq({"quack", ":", "/"}) /\ short \in Seq({"quack", ":", "/"})
  OBVIOUS
<1> HIDE DEF long, short
<1>9. IsPrefix(long, t) => Len(sc) = 4
  <2> SUFFICES ASSUME IsPrefix(long, t), Len(sc) # 4 PROVE FALSE
    OBVIOUS
  <2> DEFINE P == {"quack", ":", "/"}
  <2>1. long \in Seq(P) /\ t \in Seq(Lexemes) /\ IsPrefix(long, t)
    BY <1>1, <1>8
  <2> HIDE DEF t, P, sc, A, ho
  <2>2. \A i \in 1..Len(long) : t[i] = long[i]
    BY <2>1, Begins
  <2>3. 3 \in 1..Len(long) /\ Len(sc) + 1 = 3
    <3>1. Len(sc) = 2 /\ Len(long) = 4
      BY <1>6, <1>8
    <3> QED BY <3>1
  <2>4. t[3] = A[1]
    BY <1>4, <2>3
  <2> QED BY <1>3, <1>5, <1>8, <2>2, <2>3, <2>4
<1>10. IsPrefix(short, t) /\ ~IsPrefix(long, t) => Len(sc) = 2
  <2> SUFFICES ASSUME IsPrefix(short, t), Len(sc) # 2 PROVE IsPrefix(long, t)
    OBVIOUS
  <2> DEFINE P == {"quack", ":", "/"}
  <2>1. short \in Seq(P) /\ t \in Seq(Lexemes) /\ IsPrefix(short, t) /\ long \in Seq(P) /\ sc \in Seq(Lexemes)
    BY <1>1, <1>8
  <2> HIDE DEF t, P, sc, A, ho
  <2>2. \A i \in 1..Len(short) : t[i] = short[i]
    BY <2>1, Begins
  <2>3. Len(sc) = 4 /\ sc[2] = ":" /\ sc[3] = "/" /\ sc[4] = "/"
    BY <1>6
  <2>4. t[1] = "quack"
    <3>1. 1 \in 1..Len(short)
      BY <1>8
    <3> QED BY <1>8, <2>2, <3>1
  <2>5. t[2] = ":" /\ t[3] = "/" /\ t[4] = "/"
    <3>1. 2 \in 1..Len(sc) /\ 3 \in 1..Len(sc) /\ 4 \in 1..Len(sc)
      BY <2>3
    <3> QED BY <1>4, <2>3, <3>1
  <2>6. Len(long) <= Len(t)
    BY <1>3, <1>4, <1>8, <2>3
  <2>7. SubSeq(t, 1, 4) = long
    <3>1. 4 <= Len(t)
      BY <1>8, <2>6
    <3> DEFINE m == SubSeq(t, 1, 4)
    <3>2. m \in Seq(Lexemes) /\ Len(m) = 4 /\ m[1] = t[1] /\ m[2] = t[2] /\ m[3] = t[3] /\ m[4] = t[4]
      BY <2>1, <3>1
    <3> HIDE DEF m
    <3>3. m = <<m[1], m[2], m[3], m[4]>>
      BY <3>2
    <3>4. m = <<"quack", ":", "/", "/">>
      BY <2>4, <2>5, <3>2, <3>3
    <3> QED BY <3>4, Zenon DEF long, m
  <2>8. SubSeq(long, 1, 4) = long
    <3>1. SubSeq(long, 1, Len(long)) = long
      BY <2>1, SubSeqFull
    <3> QED BY <1>8, <3>1
  <2> QED BY <1>8, <2>6, <2>7, <2>8 DEF IsPrefix
<1> DEFINE body == CASE IsPrefix(long, t) -> SubSeq(t, 5, Len(t))
                     [] IsPrefix(short, t) /\ ~IsPrefix(long, t) -> SubSeq(t, 3, Len(t))
                     [] OTHER -> <<>>
           colon == SelectLastInSeq(body, LAMBDA x : x = ":")
<1>11. body \in {<<>>, A}
  <2>1. CASE IsPrefix(long, t)
    <3>1. body = SubSeq(t, 5, Len(t))
      BY <2>1
    <3> HIDE DEF t, A, sc, body
    <3>3. Len(sc) = 4
      BY <1>9, <2>1, Zenon
    <3>2. Len(sc) + 1 = 5
      BY <3>3
    <3> QED BY <1>7, <3>1, <3>2
  <2>2. CASE IsPrefix(short, t) /\ ~IsPrefix(long, t)
    <3>1. body = SubSeq(t, 3, Len(t))
      BY <2>2
    <3> HIDE DEF t, A, sc, body
    <3>3. Len(sc) = 2
      BY <1>10, <2>2, Zenon
    <3>2. Len(sc) + 1 = 3
      BY <3>3
    <3> QED BY <1>7, <3>1, <3>2
  <2>3. CASE ~IsPrefix(long, t) /\ ~IsPrefix(short, t)
    BY <2>3
  <2> QED BY <2>1, <2>2, <2>3
<1>12. h = CASE body = <<>> -> <<>>
             [] body # <<>> /\ body[1] = "[" -> IF Contains(body, "]") THEN Append(UpTo(body, {"]"}), "]") ELSE <<>>
             [] OTHER -> IF colon = 0 THEN body ELSE SubSeq(body, 1, colon - 1)
  BY DEF HostFromQuackUri, long, short
<1>13. h # <<>>
  <2> SUFFICES ASSUME h = <<>> PROVE FALSE
    OBVIOUS
  <2>1. IsLoopbackHost(<<>>)
    OBVIOUS
  <2>2. <<>> \in Seq(Lexemes)
    OBVIOUS
  <2> QED BY <2>1, <2>2, LoopbackIsThisMachine
<1>14. body = A
  <2> HIDE DEF body, h, A
  <2> QED BY <1>11, <1>12, <1>13
<1>15. /\ ho[1] = "[" => Contains(A, "]") /\ h = Append(UpTo(A, {"]"}), "]")
       /\ ho[1] # "[" => LET c == SelectLastInSeq(A, LAMBDA x : x = ":") IN
                         h = IF c = 0 THEN A ELSE SubSeq(A, 1, c - 1)
  <2> DEFINE c == SelectLastInSeq(A, LAMBDA x : x = ":")
  <2>1. h = CASE A = <<>> -> <<>>
             [] A # <<>> /\ A[1] = "[" -> IF Contains(A, "]") THEN Append(UpTo(A, {"]"}), "]") ELSE <<>>
             [] OTHER -> IF c = 0 THEN A ELSE SubSeq(A, 1, c - 1)
    <3> HIDE DEF body, h, A
    <3> QED BY <1>12, <1>14
  <2> HIDE DEF body, h, A, ho, c
  <2>2. ho[1] = "[" => Contains(A, "]") /\ h = Append(UpTo(A, {"]"}), "]")
    BY <1>3, <1>13, <2>1
  <2>3. ho[1] # "[" => h = IF c = 0 THEN A ELSE SubSeq(A, 1, c - 1)
    BY <1>3, <2>1
  <2> QED BY <2>2, <2>3 DEF c
<1>16. /\ po # <<>> => Len(po) = 2 /\ po[1] = ":" /\ po[2] # ":"
       /\ IF ho[1] = "[" THEN \A i \in DOMAIN ho : ho[i] = "]" => i = Len(ho)
          ELSE po = <<>> => Free(ho, {":"}) \/ ho = <<":", ":", "1">>
  BY DEF ListenUri
<1>17. ho \in Seq(Lexemes) /\ po \in Seq(Lexemes)
  BY <1>1
<1>18. IsLoopbackHost(h)
  OBVIOUS
<1> HIDE DEF h, ho, po
<1>19. ThisMachine(ho)
  BY <1>3, <1>15, <1>16, <1>17, <1>18, HostOfBody
<1> QED BY <1>19 DEF ho

(***************************************************************************)
(* What VerifyJwt makes of a token, for any list of keys under its kid.       *)
(***************************************************************************)
\* The least position of a set of positions is one of them.
LEMMA LeastIn ==
  ASSUME NEW T, T \subseteq Nat, T # {}
  PROVE  Min(T) \in T
BY NatMin DEF Min

\* The errors that jwt-cpp finds, and what each is mapped to.
LEMMA ClaimResults ==
  ASSUME NEW tok, tok.exp \in Int, tok.nbf \in Int, tok.iat \in Int, NEW listed,
         NEW o, o.now \in Int, o.skew \in Int, Signed(tok, listed),
         NEW r, \/ ClaimErrors(tok, o) = {} /\ r = "Ok"
                \/ \E e \in ClaimErrors(tok, o) : r = MapVerificationError(e, tok, o)
  PROVE  TrueOf(r, tok, listed, o)
<1> DEFINE past  == tok.exp # NoTime /\ tok.exp + o.skew < o.now
           soon  == tok.nbf # NoTime /\ tok.nbf > o.now + o.skew
           ahead == tok.iat # NoTime /\ tok.iat > o.now + o.skew
           alien == o.issuer # <<>> /\ tok.iss # o.issuer
           other == o.audience # "" /\ o.audience \notin tok.aud
           bare  == o.audience # "" /\ tok.aud = {}
<1>1. /\ (tok.exp # NoTime /\ o.now > tok.exp + o.skew) = past
      /\ (tok.nbf # NoTime /\ o.now < tok.nbf - o.skew) = soon
      /\ (tok.iat # NoTime /\ o.now < tok.iat - o.skew) = ahead
      /\ (tok.nbf # NoTime /\ o.now + o.skew < tok.nbf) = soon
  BY DEF NoTime
<1>2. /\ "token_expired" \in ClaimErrors(tok, o) <=> past \/ soon \/ ahead
      /\ "claim_value_missmatch" \in ClaimErrors(tok, o) <=> alien
      /\ "audience_missmatch" \in ClaimErrors(tok, o) <=> other
      /\ "missing_claim" \in ClaimErrors(tok, o) <=> bare
      /\ ClaimErrors(tok, o) \subseteq {"token_expired", "claim_value_missmatch", "audience_missmatch", "missing_claim"}
  <2> DEFINE A == o.now > tok.exp + o.skew
             B == o.now < tok.nbf - o.skew
             C == o.now < tok.iat - o.skew
  <2>1. past = (tok.exp # NoTime /\ A) /\ soon = (tok.nbf # NoTime /\ B) /\ ahead = (tok.iat # NoTime /\ C)
    BY <1>1
  <2> HIDE DEF past, soon, ahead
  <2> QED BY <2>1, Zenon DEF ClaimErrors
<1> HIDE DEF past, soon, ahead
<1>4. IsPrincipalExpired(PrincipalFromJwt(tok), o.now, o.skew) => past
  BY DEF IsPrincipalExpired, PrincipalFromJwt, NoTime, past
<1>5. /\ (tok.nbf # NoTime /\ tok.nbf > o.now + o.skew) = soon
      /\ (tok.iat # NoTime /\ tok.iat > o.now + o.skew) = ahead
  BY DEF soon, ahead
<1>8. (tok.exp # NoTime /\ tok.exp + o.skew < o.now) = past
  BY DEF past
<1>9. CASE ClaimErrors(tok, o) = {} /\ r = "Ok"
  BY <1>2, <1>4, <1>5, <1>8, <1>9 DEF TrueOf
<1>10. ASSUME NEW e \in ClaimErrors(tok, o), r = MapVerificationError(e, tok, o) PROVE TrueOf(r, tok, listed, o)
  <2>1. past \/ soon \/ ahead \/ alien \/ other
    BY <1>2, <1>10
  <2>2. CASE e = "token_expired"
    <3>1. r = IF soon THEN "NotYetValid" ELSE "Expired"
      BY <1>1, <1>10, <2>2 DEF MapVerificationError
    <3> QED BY <1>2, <1>5, <1>8, <2>1, <2>2, <3>1 DEF TrueOf
  <2>3. CASE e = "audience_missmatch"
    <3>1. r = "WrongAudience"
      BY <1>10, <2>3 DEF MapVerificationError
    <3> QED BY <1>2, <2>3, <3>1, <1>5, <1>8 DEF TrueOf
  <2>4. CASE e \in {"claim_value_missmatch", "missing_claim"}
    <3>1. r = "WrongIssuer"
      BY <1>10, <2>4 DEF MapVerificationError
    <3> QED BY <1>2, <2>4, <3>1, <1>5, <1>8 DEF TrueOf
  <2> QED BY <1>2, <2>2, <2>3, <2>4
<1> QED BY <1>9, <1>10

\* What VerifyJwt makes of a usable key: a failed signature, or the verdict on
\* the claims.
LEMMA UsableKeyResults ==
  ASSUME NEW tok, ~tok.malformed, tok.alg \in DefaultAllowedAlgorithms, NEW jwk, IsUsableSigningKey(jwk), NEW o
  PROVE  VerifyJwt(tok, jwk, o) = IF FitsAlgorithm(tok.alg, jwk) /\ jwk.id = tok.signer
                                  THEN IF ClaimErrors(tok, o) = {} THEN {"Ok"}
                                       ELSE {MapVerificationError(e, tok, o) : e \in ClaimErrors(tok, o)}
                                  ELSE {"InvalidSignature"}
<1>1. ~IsForbiddenAlgorithm(tok.alg) /\ IsAlgorithmAllowed(tok.alg)
  BY DEF DefaultAllowedAlgorithms, IsForbiddenAlgorithm, IsAlgorithmAllowed
<1>2. VerifyJwt(tok, jwk, o) = VerifyWithVerifier(tok, jwk, o)
  BY <1>1 DEF VerifyJwt, IsUsableSigningKey
<1>3. CASE ~FitsAlgorithm(tok.alg, jwk) \/ tok.signer # jwk.id
  BY <1>2, <1>3 DEF VerifyWithVerifier
<1>4. CASE FitsAlgorithm(tok.alg, jwk) /\ tok.signer = jwk.id /\ ClaimErrors(tok, o) = {}
  BY <1>2, <1>4 DEF VerifyWithVerifier
<1>5. CASE FitsAlgorithm(tok.alg, jwk) /\ tok.signer = jwk.id /\ ClaimErrors(tok, o) # {}
  BY <1>2, <1>5 DEF VerifyWithVerifier
<1> QED BY <1>3, <1>4, <1>5

\* The verdicts on the claims are those that end the search for a key.
LEMMA ClaimResultsMatch ==
  ASSUME NEW tok, NEW o, NEW e
  PROVE  SignatureMatchesCandidate(MapVerificationError(e, tok, o)) /\ MapVerificationError(e, tok, o) # "Ok"
BY DEF SignatureMatchesCandidate, MapVerificationError

\* What ValidateToken yields says of the token what TrueOf has it say.
LEMMA ValidateTokenIsTrue ==
  ASSUME NEW tok, tok.exp \in Int, tok.nbf \in Int, tok.iat \in Int, NEW listed, DOMAIN listed \subseteq Nat,
         NEW o, o.now \in Int, o.skew \in Int, NEW r \in ValidateToken(tok, listed, o)
  PROVE  TrueOf(r, tok, listed, o)
<1> DEFINE cached   == {i \in DOMAIN listed : IsUsableSigningKey(listed[i])}
           matching == {i \in cached : JwkMatchesTokenHeader(listed[i], tok.alg)}
           results  == [i \in matching |-> VerifyJwt(tok, listed[i], o)]
           matches  == {i \in matching : \A x \in results[i] : SignatureMatchesCandidate(x)}
           claims   == IF ClaimErrors(tok, o) = {} THEN {"Ok"}
                       ELSE {MapVerificationError(e, tok, o) : e \in ClaimErrors(tok, o)}
           signs(i) == FitsAlgorithm(tok.alg, listed[i]) /\ listed[i].id = tok.signer
<1>1. CASE tok.malformed \/ tok.alg \notin DefaultAllowedAlgorithms
  <2>1. r \in {"Malformed", "DisallowedAlgorithm"} /\ ~Signed(tok, listed)
    BY <1>1 DEF ValidateToken, IsAlgorithmAllowed, Signed
  <2>2. /\ r = "Malformed" => tok.malformed
        /\ r = "DisallowedAlgorithm" => tok.alg \notin DefaultAllowedAlgorithms
    BY <1>1 DEF ValidateToken, IsAlgorithmAllowed, IsForbiddenAlgorithm, DefaultAllowedAlgorithms
  <2> QED BY <2>1, <2>2 DEF TrueOf
<1>2. CASE ~tok.malformed /\ tok.alg \in DefaultAllowedAlgorithms
  <2>1. ~IsForbiddenAlgorithm(tok.alg) /\ IsAlgorithmAllowed(tok.alg)
    BY <1>2 DEF DefaultAllowedAlgorithms, IsForbiddenAlgorithm, IsAlgorithmAllowed
  <2>2. Signed(tok, listed) <=> \E i \in matching : signs(i)
    BY <1>2 DEF Signed, JwkMatchesTokenHeader
  <2>3. \A i \in matching : results[i] = IF signs(i) THEN claims ELSE {"InvalidSignature"}
    BY <1>2, UsableKeyResults
  <2>4. ASSUME NEW x \in claims
        PROVE  \/ ClaimErrors(tok, o) = {} /\ x = "Ok"
               \/ \E e \in ClaimErrors(tok, o) : x = MapVerificationError(e, tok, o)
    BY <2>4
  <2>5. \A x \in claims : SignatureMatchesCandidate(x)
    BY <2>4, ClaimResultsMatch DEF SignatureMatchesCandidate
  <2>6. ~SignatureMatchesCandidate("InvalidSignature")
    BY DEF SignatureMatchesCandidate
  <2> HIDE DEF claims
  <2>7. matches = {i \in matching : signs(i)}
    <3> SUFFICES ASSUME NEW i \in matching PROVE (\A x \in results[i] : SignatureMatchesCandidate(x)) <=> signs(i)
      OBVIOUS
    <3> HIDE DEF results, signs, matching
    <3> QED BY <2>3, <2>5, <2>6
  <2>8. CASE cached = {} \/ matching = {}
    <3>1. r \in {"UnknownKid", "NoMatchingKey"}
      BY <1>2, <2>1, <2>8 DEF ValidateToken
    <3>2. ~Signed(tok, listed)
      BY <2>2, <2>8
    <3> QED BY <3>1, <3>2 DEF TrueOf
  <2>9. CASE cached # {} /\ matching # {}
    <3>1. r \in VerifyWithCachedKeys(tok, listed, matching, o)
      BY <1>2, <2>1, <2>9 DEF ValidateToken
    <3>2. CASE matches # {}
      <4>1. r \in results[Min(matches)]
        BY <2>9, <3>1, <3>2 DEF VerifyWithCachedKeys
      <4>2. Min(matches) \in matches
        <5>1. matches \subseteq Nat
          OBVIOUS
        <5> HIDE DEF matches
        <5> QED BY <3>2, <5>1, LeastIn
      <4>3. r \in claims
        BY <2>3, <2>7, <4>1, <4>2
      <4>4. Signed(tok, listed)
        BY <2>2, <2>7, <4>2
      <4> QED BY <2>4, <4>3, <4>4, ClaimResults
    <3>3. CASE matches = {}
      <4>1. ~Signed(tok, listed)
        BY <2>2, <2>7, <3>3
      <4>2. \A i \in matching : results[i] = {"InvalidSignature"}
        BY <2>3, <2>7, <3>3
      <4>3. "InvalidSignature" \in UNION {results[i] : i \in matching}
        <5>1. PICK i \in matching : TRUE
          BY <2>9
        <5> QED BY <4>2, <5>1
      <4>4. r = "InvalidSignature"
        BY <2>9, <3>1, <3>3, <4>3 DEF VerifyWithCachedKeys
      <4> QED BY <4>1, <4>4 DEF TrueOf
    <3> QED BY <3>2, <3>3
  <2> QED BY <2>8, <2>9
<1> QED BY <1>1, <1>2

(***************************************************************************)
(* What calls carry: a configuration whose URLs were written down well or    *)
(* come from a preset, and was validated after its last field was filled in. *)
(***************************************************************************)
SafeUrl(u) == WellFormed(u) \/ (u.scheme = Https /\ u.user = <<>>)

ConfigFields == {"mode", "issuer", "audience", "skew", "jwksUri", "endpoint", "clientId", "clientSecret"}
ConfigOK(cfg) == DOMAIN cfg = ConfigFields /\ cfg.skew \in Nat /\ SafeUrl(cfg.jwksUri) /\ SafeUrl(cfg.endpoint)

OptionsOf(c) == [issuer |-> c.cfg.issuer, audience |-> c.cfg.audience, skew |-> c.cfg.skew, now |-> c.now]
Guarded(c) == c.trusted \/ \A l \in c.seen : ThisMachine(l.host)

CallSound(c) ==
  /\ c.pc = "Open" => c.name \in Names
  /\ c.pc \in {"Mode", "Skew", "Provider"} => WellFormedSecret(c.secret)
  /\ c.pc = "Provider" => ConfigOK(c.cfg)
  /\ c.pc \in {"Clock", "Row", "Asking", "Done"} => ConfigOK(c.cfg) /\ ValidateServerConfig(c.cfg)
  /\ c.pc = "Asking" => c.cfg.mode # "jwks"
  /\ c.pc \in {"Name", "Open", "Mode", "Skew", "Provider", "Clock", "Row", "Asking"} => Guarded(c)
  /\ c.pc = "Done" /\ c.cfg.mode = "jwks" /\ c.result # "JwksFetchFailed" =>
       TrueOf(c.result, Jwt[c.tok], Listed(c.cfg.jwksUri), OptionsOf(c))

WrittenInv ==
  /\ DOMAIN settings = SettingNames /\ \A x \in SettingNames : OfType(x, settings[x])
  /\ DOMAIN secrets = Names /\ \A n \in Names : WellFormedSecret(secrets[n])
  /\ \A l \in listeners : ListenUri(l)

SoundInv == \A t \in Callers : CallSound(call[t])

\* The absent URL and the absent SECRET are well-formed.
LEMMA NothingWellFormed == WellFormed(NoUrl) /\ WellFormedSecret(NoSecret)
<1> DEFINE u == NoUrl
<1>1. u.scheme = <<>> /\ u.user = <<>> /\ u.host = <<>> /\ u.port = <<>> /\ u.rest = <<>> /\ u \in Url
  BY DEF NoUrl, Url
<1> HIDE DEF u
<1>2. Text(u) = <<>> /\ u.user \o u.host \o u.port = <<>>
  BY <1>1 DEF Text
<1>3. Len(<<>>) = 0
  OBVIOUS
<1>4. Free(<<>>, {"/", "?", "#"}) /\ Free(<<>>, {":"})
  BY DEF Free
<1>5. WellFormed(u)
  BY <1>1, <1>2, <1>3, <1>4 DEF WellFormed
<1> QED BY <1>5 DEF u, WellFormedSecret, NoSecret

\* A URL of a configuration that ValidateHttpUrl lets through is protected.
LEMMA SafeIsProtected ==
  ASSUME NEW u, SafeUrl(u), u # NoUrl, ValidHttpUrl(Text(u))
  PROVE  Protected(u)
BY ValidIsProtected DEF SafeUrl, Protected

\* The URLs of a preset: on a provider's own host, or below the tenant.
LEMMA PresetUrls ==
  ASSUME NEW id, NEW tenant, WellFormed(tenant)
  PROVE  SafeUrl(ResolveProvider(id, tenant).jwksUri) /\ SafeUrl(ResolveProvider(id, tenant).endpoint)
<1>1. SafeUrl(NoUrl)
  BY NothingWellFormed DEF SafeUrl
<1>2. ASSUME NEW host, NEW rest PROVE SafeUrl(On(host, rest))
  <2>1. On(host, rest).scheme = Https /\ On(host, rest).user = <<>>
    BY DEF On, NoUrl
  <2> QED BY <2>1 DEF SafeUrl
<1>3. ASSUME NEW x \in {"certs", "introspect"} PROVE SafeUrl(Below(tenant, <<"/", x>>))
  <2> DEFINE p == <<"/", x>>
  <2>1. p \in Seq(Lexemes) /\ p # <<>> /\ p[1] = "/"
    BY ServerConfigAssumption
  <2> HIDE DEF p
  <2>2. WellFormed(Below(tenant, p))
    BY <2>1, BelowWellFormed
  <2> QED BY <2>2 DEF SafeUrl, p
<1> DEFINE r == ResolveProvider(id, tenant)
           t == Text(tenant)
<1> SUFFICES SafeUrl(r.jwksUri) /\ SafeUrl(r.endpoint)
  OBVIOUS
<1>4. CASE id = "entra"
  <2>1. r.jwksUri = On("login.microsoftonline.com", <<"/">> \o t \o <<"/", "keys">>) /\ r.endpoint = NoUrl
    BY <1>4 DEF ResolveProvider
  <2> HIDE DEF r
  <2> QED BY <1>1, <1>2, <2>1
<1>5. CASE id = "google"
  <2>1. /\ r.jwksUri = On("www.googleapis.com", <<"/", "certs">>)
        /\ r.endpoint = On("oauth2.googleapis.com", <<"/", "tokeninfo">>)
    BY <1>5 DEF ResolveProvider
  <2> HIDE DEF r
  <2> QED BY <1>2, <2>1
<1>6. CASE id = "keycloak"
  <2>1. r.jwksUri = Below(tenant, <<"/", "certs">>) /\ r.endpoint = Below(tenant, <<"/", "introspect">>)
    BY <1>6 DEF ResolveProvider
  <2> HIDE DEF r
  <2> QED BY <1>3, <2>1
<1>7. CASE id = "github"
  <2>1. /\ r.jwksUri = NoUrl
        /\ r.endpoint = On("api.github.com", <<"/", "applications", "/">> \o t \o <<"/", "token">>)
    BY <1>7 DEF ResolveProvider
  <2> HIDE DEF r
  <2> QED BY <1>1, <1>2, <2>1
<1>8. CASE id \notin {"entra", "google", "keycloak", "github"}
  <2>1. r.jwksUri = NoUrl /\ r.endpoint = NoUrl
    BY <1>8 DEF ResolveProvider
  <2> HIDE DEF r
  <2> QED BY <1>1, <2>1
<1> QED BY <1>4, <1>5, <1>6, <1>7, <1>8

\* A preset keeps a configuration one.
LEMMA PresetOK ==
  ASSUME NEW provider, NEW s, WellFormedSecret(s), NEW cfg, ConfigOK(cfg)
  PROVE  ConfigOK(ApplyProviderPreset(provider, s, cfg))
<1> DEFINE id == ProviderFromString(provider)
           r  == ResolveProvider(id, s.tenant)
           f  == FillEmpty(cfg, r)
           a  == ApplyProviderPreset(provider, s, cfg)
           g  == [f EXCEPT !.clientId = IF @ = <<>> THEN Text(s.tenant) ELSE @,
                           !.mode = IF @ = "jwks" THEN "github_check" ELSE @]
<1>1. SafeUrl(r.jwksUri) /\ SafeUrl(r.endpoint)
  BY PresetUrls DEF WellFormedSecret
<1> HIDE DEF r
<1>2. /\ DOMAIN f = ConfigFields /\ f.skew = cfg.skew
      /\ f.jwksUri \in {cfg.jwksUri, r.jwksUri} /\ f.endpoint \in {cfg.endpoint, r.endpoint}
  BY DEF FillEmpty, ConfigOK, ConfigFields
<1>3. a \in {cfg, f, g}
  BY DEF ApplyProviderPreset, r
<1> HIDE DEF f
<1>4. DOMAIN g = ConfigFields /\ g.skew = f.skew /\ g.jwksUri = f.jwksUri /\ g.endpoint = f.endpoint
  BY <1>2 DEF ConfigFields
<1> HIDE DEF a, g
<1>5. ConfigOK(f)
  BY <1>1, <1>2 DEF ConfigOK
<1>6. ConfigOK(g)
  BY <1>2, <1>4, <1>5 DEF ConfigOK
<1>7. ConfigOK(a)
  BY <1>3, <1>5, <1>6
<1> QED BY <1>7 DEF a

\* The configuration read from a SECRET and the settings.
LEMMA CoreOK ==
  ASSUME NEW s, WellFormedSecret(s), NEW mode, NEW skew \in Int
  PROVE  ConfigOK(ReadServerConfigCore(s, mode, skew))
<1> DEFINE c == ReadServerConfigCore(s, mode, skew)
<1>1. /\ DOMAIN c = ConfigFields /\ c.skew = (IF skew < 0 THEN 0 ELSE IF skew > MaxSkewS THEN MaxSkewS ELSE skew)
      /\ c.jwksUri = s.jwksUri /\ c.endpoint = s.endpoint
  BY DEF ReadServerConfigCore, ConfigFields
<1>2. (IF skew < 0 THEN 0 ELSE IF skew > MaxSkewS THEN MaxSkewS ELSE skew) \in Nat
  BY ServerConfigAssumption
<1> HIDE DEF c
<1>3. SafeUrl(c.jwksUri) /\ SafeUrl(c.endpoint)
  BY <1>1 DEF WellFormedSecret, SafeUrl
<1>4. ConfigOK(c)
  BY <1>1, <1>2, <1>3 DEF ConfigOK
<1> QED BY <1>4 DEF c

\* An idle call, and one that diagnoses, carries nothing.
LEMMA IdleSound == CallSound(IdleCall)
<1>1. IdleCall.pc = "Idle"
  BY DEF IdleCall
<1> QED BY <1>1 DEF CallSound

\* A step of the call t that leaves the configuration alone.
Carries(t, c) == call' = [call EXCEPT ![t] = c] /\ UNCHANGED config

\* Such a step keeps the invariant if what the call then carries is sound.
LEMMA CarriesSound ==
  ASSUME CallsInv, WrittenInv, SoundInv, NEW t \in Callers, NEW c, Carries(t, c), CallSound(c)
  PROVE  WrittenInv' /\ SoundInv'
<1>1. UNCHANGED <<settings, secrets, listeners>>
  BY DEF Carries, config
<1>2. WrittenInv'
  BY <1>1 DEF WrittenInv
<1>3. \A x \in Callers : call'[x] = IF x = t THEN c ELSE call[x]
  BY DEF Carries, CallsInv
<1>4. ASSUME NEW x \in Callers PROVE CallSound(call[x])'
  <2>1. CallSound(call'[x])
    BY <1>3 DEF SoundInv
  <2> QED BY <2>1
<1> QED BY <1>2, <1>4 DEF SoundInv

\* The steps that read the configuration.
LEMMA LoadConfigSound ==
  ASSUME CallsInv, WrittenInv, SoundInv, NEW t \in Callers, LoadConfig(t)
  PROVE  WrittenInv' /\ SoundInv'
<1> DEFINE q == call[t]
<1>1. CallSound(q) /\ DOMAIN q = CallFields
  BY DEF SoundInv, CallsInv, CallOK
<1>2. ASSUME NEW c, Reads(t, c), CallSound(c) PROVE WrittenInv' /\ SoundInv'
  <2>1. Carries(t, c)
    BY <1>2 DEF Reads, Carries
  <2> QED BY <1>2, <2>1, CarriesSound
<1>3. Throw(t) => WrittenInv' /\ SoundInv'
  BY <1>2, IdleSound DEF Throw
<1>4. CASE ReadTrust(t)
  <2> DEFINE c == [call[t] EXCEPT !.pc = IF settings.trust THEN "Name" ELSE "Listeners", !.trusted = settings.trust]
  <2>1. Reads(t, c)
    BY <1>4 DEF ReadTrust
  <2>2. c.pc = (IF settings.trust THEN "Name" ELSE "Listeners") /\ c.trusted = settings.trust
    BY <1>1 DEF CallFields
  <2> HIDE DEF c
  <2>3. CallSound(c)
    <3>1. CASE settings.trust
      <4>1. c.pc = "Name" /\ Guarded(c)
        BY <2>2, <3>1 DEF Guarded
      <4> QED BY <4>1 DEF CallSound
    <3>2. CASE ~settings.trust
      <4>1. c.pc = "Listeners"
        BY <2>2, <3>2
      <4> QED BY <4>1 DEF CallSound
    <3> QED BY <3>1, <3>2
  <2> QED BY <1>2, <2>1, <2>3
<1>5. CASE EnforcePlaintextGuard(t)
  <2> DEFINE c == [call[t] EXCEPT !.pc = "Name", !.seen = listeners]
  <2>1. CASE \A l \in listeners : IsLoopbackHost(HostFromQuackUri(Text(l)))
    <3>1. Reads(t, c)
      BY <1>5, <2>1 DEF EnforcePlaintextGuard
    <3>2. c.pc = "Name" /\ c.seen = listeners
      BY <1>1 DEF CallFields
    <3> HIDE DEF c
    <3>3. \A l \in listeners : ThisMachine(l.host)
      BY <2>1, ListenerIsHere DEF WrittenInv
    <3>4. CallSound(c)
      BY <3>2, <3>3 DEF CallSound, Guarded
    <3> QED BY <1>2, <3>1, <3>4
  <2>2. CASE ~\A l \in listeners : IsLoopbackHost(HostFromQuackUri(Text(l)))
    BY <1>3, <1>5, <2>2 DEF EnforcePlaintextGuard
  <2> QED BY <2>1, <2>2
<1>6. CASE ReadSecretName(t)
  <2> DEFINE c == [call[t] EXCEPT !.pc = "Open", !.name = settings.secretName]
  <2>1. CASE settings.secretName # ""
    <3>1. Reads(t, c) /\ q.pc = "Name"
      BY <1>6, <2>1 DEF ReadSecretName
    <3>2. c.pc = "Open" /\ c.name = settings.secretName /\ c.trusted = q.trusted /\ c.seen = q.seen
      BY <1>1 DEF CallFields
    <3>3. settings.secretName \in Names
      BY <2>1 DEF WrittenInv, SettingNames, OfType
    <3> HIDE DEF c
    <3>4. Guarded(c)
      BY <1>1, <3>1, <3>2 DEF CallSound, Guarded
    <3>5. CallSound(c)
      BY <3>2, <3>3, <3>4 DEF CallSound
    <3> QED BY <1>2, <3>1, <3>5
  <2>2. CASE settings.secretName = ""
    BY <1>3, <1>6, <2>2 DEF ReadSecretName
  <2> QED BY <2>1, <2>2
<1>7. CASE OpenSecret(t)
  <2> DEFINE c == [call[t] EXCEPT !.pc = "Mode", !.secret = secrets[call[t].name], !.name = ""]
  <2>1. (Reads(t, c) \/ Throw(t)) /\ q.pc = "Open"
    BY <1>7 DEF OpenSecret
  <2>2. c.pc = "Mode" /\ c.secret = secrets[q.name] /\ c.trusted = q.trusted /\ c.seen = q.seen
    BY <1>1 DEF CallFields
  <2> HIDE DEF c
  <2>3. q.name \in Names
    BY <1>1, <2>1 DEF CallSound
  <2>4. WellFormedSecret(c.secret)
    BY <2>2, <2>3 DEF WrittenInv
  <2>5. Guarded(c)
    BY <1>1, <2>1, <2>2 DEF CallSound, Guarded
  <2>6. CallSound(c)
    BY <2>2, <2>4, <2>5 DEF CallSound
  <2> QED BY <1>2, <1>3, <2>1, <2>6
<1>8. CASE ReadMode(t)
  <2> DEFINE c == [call[t] EXCEPT !.pc = "Skew", !.cfg.mode = settings.mode]
  <2>1. Reads(t, c) /\ q.pc = "Mode"
    BY <1>8 DEF ReadMode
  <2>2. c.pc = "Skew" /\ c.secret = q.secret /\ c.trusted = q.trusted /\ c.seen = q.seen
    BY <1>1 DEF CallFields
  <2> HIDE DEF c
  <2>3. WellFormedSecret(c.secret) /\ Guarded(c)
    BY <1>1, <2>1, <2>2 DEF CallSound, Guarded
  <2>4. CallSound(c)
    BY <2>2, <2>3 DEF CallSound
  <2> QED BY <1>2, <2>1, <2>4
<1>9. CASE ReadSkew(t)
  <2> DEFINE g == ReadServerConfigCore(call[t].secret, call[t].cfg.mode, settings.skew)
             c == [call[t] EXCEPT !.pc = "Provider",
                                  !.cfg = ReadServerConfigCore(call[t].secret, @.mode, settings.skew)]
  <2>1. Reads(t, c) /\ q.pc = "Skew"
    BY <1>9 DEF ReadSkew
  <2>2. c.pc = "Provider" /\ c.secret = q.secret /\ c.trusted = q.trusted /\ c.seen = q.seen /\ c.cfg = g
    BY <1>1 DEF CallFields
  <2> HIDE DEF c
  <2>3. WellFormedSecret(q.secret) /\ Guarded(c)
    BY <1>1, <2>1, <2>2 DEF CallSound, Guarded
  <2>4. settings.skew \in Int
    BY DEF WrittenInv, SettingNames, OfType
  <2>5. ConfigOK(g)
    BY <2>3, <2>4, CoreOK
  <2> HIDE DEF g
  <2>6. CallSound(c)
    BY <2>2, <2>3, <2>5 DEF CallSound
  <2> QED BY <1>2, <2>1, <2>6
<1>10. CASE ReadProvider(t)
  <2> DEFINE g == ApplyProviderPreset(settings.provider, call[t].secret, call[t].cfg)
             c == [call[t] EXCEPT !.pc = "Clock", !.cfg = g, !.secret = NoSecret]
  <2>1. ((Reads(t, c) /\ ValidateServerConfig(g)) \/ Throw(t)) /\ q.pc = "Provider"
    BY <1>10 DEF ReadProvider
  <2>2. WellFormedSecret(q.secret) /\ ConfigOK(q.cfg)
    BY <1>1, <2>1 DEF CallSound
  <2>3. ConfigOK(g)
    BY <2>2, PresetOK
  <2> HIDE DEF g
  <2>4. c.pc = "Clock" /\ c.trusted = q.trusted /\ c.seen = q.seen /\ c.cfg = g
    BY <1>1 DEF CallFields
  <2> HIDE DEF c
  <2>5. Guarded(c)
    BY <1>1, <2>1, <2>4 DEF CallSound, Guarded
  <2>6. ValidateServerConfig(g) => CallSound(c)
    BY <2>3, <2>4, <2>5 DEF CallSound
  <2> QED BY <1>2, <1>3, <2>1, <2>6
<1>11. CASE ReadClock(t)
  <2>1. PICK k \in budget.wallet : Reads(t, [call[t] EXCEPT !.pc = "Row", !.now = now, !.tok = k])
    BY <1>11 DEF ReadClock
  <2> DEFINE c == [call[t] EXCEPT !.pc = "Row", !.now = now, !.tok = k]
  <2>2. Reads(t, c) /\ q.pc = "Clock"
    BY <1>11, <2>1 DEF ReadClock
  <2>3. c.pc = "Row" /\ c.trusted = q.trusted /\ c.seen = q.seen /\ c.cfg = q.cfg
    BY <1>1 DEF CallFields
  <2> HIDE DEF c
  <2>4. Guarded(c) /\ ConfigOK(q.cfg) /\ ValidateServerConfig(q.cfg)
    BY <1>1, <2>2, <2>3 DEF CallSound, Guarded
  <2>5. CallSound(c)
    BY <2>3, <2>4 DEF CallSound
  <2> QED BY <1>2, <2>2, <2>5
<1> QED BY <1>4, <1>5, <1>6, <1>7, <1>8, <1>9, <1>10, <1>11 DEF LoadConfig

\* The steps of a row.
LEMMA RowSound ==
  ASSUME CallsInv, WrittenInv, SoundInv, NEW t \in Callers, ValidateChunk(t)
  PROVE  WrittenInv' /\ SoundInv'
<1> DEFINE q == call[t]
<1>1. CallSound(q) /\ DOMAIN q = CallFields /\ q.now \in Nat /\ (q.pc = "Row" => q.tok \in Tokens)
  BY DEF SoundInv, CallsInv, CallOK
<1>2. ASSUME NEW c, NEW d, Validates(t, c, d), CallSound(c) PROVE WrittenInv' /\ SoundInv'
  <2>1. Carries(t, c)
    BY <1>2 DEF Validates, Carries
  <2> QED BY <1>2, <2>1, CarriesSound
<1>3. CASE FinishChunk(t)
  <2>1. Carries(t, IdleCall)
    BY <1>3 DEF FinishChunk, Carries
  <2> QED BY <2>1, CarriesSound, IdleSound
<1>4. CASE Ask(t)
  <2> DEFINE c == [call[t] EXCEPT !.pc = "Asking"]
  <2>1. Validates(t, c, Touch(decisions, call[t].tok, call[t].now)) /\ q.pc = "Row" /\ q.cfg.mode # "jwks"
    BY <1>4 DEF Ask, Opaque
  <2>2. c.pc = "Asking" /\ c.cfg = q.cfg /\ c.trusted = q.trusted /\ c.seen = q.seen
    BY <1>1 DEF CallFields
  <2> HIDE DEF c
  <2>3. Guarded(c) /\ ConfigOK(q.cfg) /\ ValidateServerConfig(q.cfg)
    BY <1>1, <2>1, <2>2 DEF CallSound, Guarded
  <2>4. CallSound(c)
    BY <2>1, <2>2, <2>3 DEF CallSound
  <2> QED BY <1>2, <2>1, <2>4
<1>5. CASE AcceptCached(t) \/ Vouched(t) \/ Refused(t)
  <2>1. PICK r, d : Validates(t, [call[t] EXCEPT !.pc = "Done", !.result = r], d)
    BY <1>5 DEF AcceptCached, Vouched, Refused
  <2>2. q.pc \in {"Row", "Asking"} /\ q.cfg.mode # "jwks"
    BY <1>1, <1>5 DEF AcceptCached, Vouched, Refused, Opaque, CallSound
  <2> DEFINE c == [call[t] EXCEPT !.pc = "Done", !.result = r]
  <2>3. c.pc = "Done" /\ c.cfg = q.cfg
    BY <1>1 DEF CallFields
  <2>4. Validates(t, c, d)
    BY <2>1
  <2> HIDE DEF c
  <2>5. ConfigOK(q.cfg) /\ ValidateServerConfig(q.cfg)
    BY <1>1, <2>2 DEF CallSound
  <2>6. CallSound(c)
    BY <2>2, <2>3, <2>5 DEF CallSound
  <2> QED BY <1>2, <2>4, <2>6
<1>6. CASE Judge(t)
  <2> DEFINE L == Listed(call[t].cfg.jwksUri)
             o == Options(t)
             tok == Jwt[call[t].tok]
  <2>1. PICK r \in ValidateToken(tok, L, o) \cup {"JwksFetchFailed"} :
          Validates(t, [call[t] EXCEPT !.pc = "Done", !.result = r], decisions)
    BY <1>6 DEF Judge
  <2>2. q.pc = "Row"
    BY <1>6 DEF Judge
  <2> DEFINE c == [call[t] EXCEPT !.pc = "Done", !.result = r]
  <2>3. c.pc = "Done" /\ c.cfg = q.cfg /\ c.result = r /\ c.tok = q.tok /\ c.now = q.now
    BY <1>1 DEF CallFields
  <2>4. Validates(t, c, decisions)
    BY <2>1
  <2> HIDE DEF c
  <2>5. ConfigOK(q.cfg) /\ ValidateServerConfig(q.cfg)
    BY <1>1, <2>2 DEF CallSound
  <2>6. DOMAIN L \subseteq Nat
    BY JwtAssumption DEF Listed
  <2>7. tok.exp \in Int /\ tok.nbf \in Int /\ tok.iat \in Int
    BY <1>1, <2>2, JwtAssumption
  <2>8. o.now \in Int /\ o.skew \in Int
    <3>1. o.now = q.now /\ o.skew = q.cfg.skew
      BY DEF Options
    <3>2. q.now \in Int /\ q.cfg.skew \in Int
      BY <1>1, <2>5 DEF ConfigOK
    <3> QED BY <3>1, <3>2
  <2>9. OptionsOf(c) = o
    BY <2>3, Zenon DEF OptionsOf, Options
  <2>10. ASSUME r # "JwksFetchFailed" PROVE TrueOf(r, tok, L, o)
    <3>1. r \in ValidateToken(tok, L, o)
      BY <2>10
    <3> HIDE DEF tok, L, o
    <3> QED BY <2>6, <2>7, <2>8, <3>1, ValidateTokenIsTrue
  <2>11. c.result # "JwksFetchFailed" => TrueOf(c.result, Jwt[c.tok], Listed(c.cfg.jwksUri), OptionsOf(c))
    BY <2>3, <2>9, <2>10, Zenon
  <2>12. CallSound(c)
    BY <2>3, <2>5, <2>11 DEF CallSound
  <2> QED BY <1>2, <2>4, <2>12
<1> QED BY <1>3, <1>4, <1>5, <1>6 DEF ValidateChunk

\* The steps of diagnose, and those that begin a call.
LEMMA DiagnoseSound ==
  ASSUME CallsInv, WrittenInv, SoundInv, NEW t \in Callers,
         Diagnose(t) \/ Begin(t, "Trust") \/ Begin(t, "ProbeName")
  PROVE  WrittenInv' /\ SoundInv'
<1> DEFINE q == call[t]
           Idle == {"Idle", "Trust", "ProbeName", "ProbeSecret", "ProbeClock", "ProbeCheck", "Probing"}
<1>1. DOMAIN q = CallFields
  BY DEF CallsInv, CallOK
<1>2. ASSUME NEW c, Carries(t, c), c.pc \in Idle PROVE WrittenInv' /\ SoundInv'
  <2>1. CallSound(c)
    BY <1>2 DEF CallSound
  <2> QED BY <1>2, <2>1, CarriesSound
<1>3. IdleCall.pc = "Idle"
  BY DEF IdleCall
<1>4. ASSUME NEW c, Reads(t, c) PROVE Carries(t, c)
  BY <1>4 DEF Reads, Carries
<1>5. CASE Begin(t, "Trust") \/ Begin(t, "ProbeName")
  <2>1. PICK pc \in {"Trust", "ProbeName"} : Carries(t, [call[t] EXCEPT !.pc = pc])
    BY <1>5 DEF Begin, Carries
  <2> DEFINE c == [call[t] EXCEPT !.pc = pc]
  <2>2. Carries(t, c) /\ c.pc = pc
    BY <1>1, <2>1 DEF CallFields
  <2> HIDE DEF c
  <2> QED BY <1>2, <2>2
<1>6. CASE EndProbe(t)
  <2>1. Carries(t, IdleCall)
    BY <1>6 DEF EndProbe, Carries
  <2> QED BY <1>2, <1>3, <2>1
<1>7. CASE ReadProbeName(t)
  <2> DEFINE c == [call[t] EXCEPT !.pc = "ProbeSecret", !.name = settings.secretName]
  <2>1. Reads(t, c) \/ Reads(t, IdleCall)
    BY <1>7 DEF ReadProbeName
  <2>2. c.pc = "ProbeSecret"
    BY <1>1 DEF CallFields
  <2> HIDE DEF c
  <2> QED BY <1>2, <1>3, <1>4, <2>1, <2>2
<1>8. CASE TryOpenSecret(t)
  <2>1. PICK uri : Reads(t, [call[t] EXCEPT !.pc = "ProbeClock", !.uri = uri, !.name = ""]) \/ Reads(t, IdleCall)
    BY <1>8 DEF TryOpenSecret
  <2> DEFINE c == [call[t] EXCEPT !.pc = "ProbeClock", !.uri = uri, !.name = ""]
  <2>2. c.pc = "ProbeClock" /\ (Reads(t, c) \/ Reads(t, IdleCall))
    BY <1>1, <2>1 DEF CallFields
  <2> HIDE DEF c
  <2> QED BY <1>2, <1>3, <1>4, <2>2
<1>9. CASE ReadProbeClock(t)
  <2> DEFINE c == [call[t] EXCEPT !.pc = "ProbeCheck", !.now = now]
  <2>1. Reads(t, c)
    BY <1>9 DEF ReadProbeClock
  <2>2. c.pc = "ProbeCheck"
    BY <1>1 DEF CallFields
  <2> HIDE DEF c
  <2> QED BY <1>2, <1>4, <2>1, <2>2
<1>10. CASE UseProbe(t)
  BY <1>2, <1>3, <1>4, <1>10 DEF UseProbe
<1>11. CASE StartProbe(t)
  <2> DEFINE c == [call[t] EXCEPT !.pc = "Probing", !.askedAt = now]
  <2>1. Reads(t, c)
    BY <1>11 DEF StartProbe
  <2>2. c.pc = "Probing"
    BY <1>1 DEF CallFields
  <2> HIDE DEF c
  <2> QED BY <1>2, <1>4, <2>1, <2>2
<1> QED BY <1>5, <1>6, <1>7, <1>8, <1>9, <1>10, <1>11 DEF Diagnose

\* What operators write keeps the configuration well-formed.
LEMMA OperatorSound ==
  ASSUME CallsInv, WrittenInv, SoundInv, Tick \/ Operator
  PROVE  WrittenInv' /\ SoundInv'
<1>1. UNCHANGED call
  BY DEF Tick, Operator, Set, CreateSecret, DropSecret, Listen, Changes
<1>2. SoundInv'
  BY <1>1 DEF SoundInv
<1>3. CASE Tick
  BY <1>2, <1>3 DEF Tick, config, WrittenInv
<1>4. CASE Set
  <2>1. PICK x \in Settings : settings' = [settings EXCEPT ![x[1]] = x[2]]
    BY <1>4 DEF Set
  <2>2. x[1] \in SettingNames /\ OfType(x[1], x[2])
    BY ConfigAssumption
  <2>3. UNCHANGED <<secrets, listeners>>
    BY <1>4 DEF Set
  <2>4. DOMAIN settings' = SettingNames /\ \A y \in SettingNames : settings'[y] = IF y = x[1] THEN x[2] ELSE settings[y]
    BY <2>1, <2>2 DEF WrittenInv
  <2>5. \A y \in SettingNames : OfType(y, settings'[y])
    BY <2>2, <2>4 DEF WrittenInv
  <2> QED BY <1>2, <2>3, <2>4, <2>5 DEF WrittenInv
<1>5. CASE CreateSecret \/ DropSecret
  <2>1. PICK n \in Names, s \in Offered \cup {NoSecret} : secrets' = [secrets EXCEPT ![n] = s]
    BY <1>5 DEF CreateSecret, DropSecret
  <2>2. WellFormedSecret(s)
    BY ConfigAssumption, NothingWellFormed
  <2>3. UNCHANGED <<settings, listeners>>
    BY <1>5 DEF CreateSecret, DropSecret
  <2> QED BY <1>2, <2>1, <2>2, <2>3 DEF WrittenInv
<1>6. CASE Listen
  <2>1. PICK l \in Listeners : listeners' = listeners \cup {l}
    BY <1>6 DEF Listen
  <2>2. UNCHANGED <<settings, secrets>>
    BY <1>6 DEF Listen
  <2>3. ListenUri(l)
    BY ConfigAssumption
  <2> QED BY <1>2, <2>1, <2>2, <2>3 DEF WrittenInv
<1> QED BY <1>2, <1>3, <1>4, <1>5, <1>6 DEF Operator

\* What is written is well-formed and what calls carry is sound, initially and
\* after every step.
LEMMA SoundHolds == Spec => [](WrittenInv /\ SoundInv)
<1>1. Init => WrittenInv /\ SoundInv
  <2> SUFFICES ASSUME Init PROVE WrittenInv /\ SoundInv
    OBVIOUS
  <2>1. PICK s \in Starts : settings = s.settings /\ secrets = s.secrets /\ listeners = s.listeners
    BY DEF Init
  <2>2. WrittenInv
    BY <2>1, ConfigAssumption DEF WrittenInv
  <2>3. \A t \in Callers : call[t] = IdleCall
    BY DEF Init
  <2> QED BY <2>2, <2>3, IdleSound DEF SoundInv
<1>2. CallsInv /\ WrittenInv /\ SoundInv /\ [Next]_vars => WrittenInv' /\ SoundInv'
  <2> SUFFICES ASSUME CallsInv, WrittenInv, SoundInv, [Next]_vars PROVE WrittenInv' /\ SoundInv'
    OBVIOUS
  <2>1. CASE UNCHANGED vars
    BY <2>1 DEF vars, WrittenInv, SoundInv
  <2>2. CASE Tick \/ Operator
    BY <2>2, OperatorSound
  <2>3. ASSUME NEW t \in Callers,
               CheckTokenScalarFun(t) \/ DiagnoseBind(t) \/ LoadConfig(t) \/ ValidateChunk(t) \/ Diagnose(t)
        PROVE  WrittenInv' /\ SoundInv'
    BY <2>3, LoadConfigSound, RowSound, DiagnoseSound DEF CheckTokenScalarFun, DiagnoseBind
  <2> QED BY <2>1, <2>2, <2>3 DEF Next
<1> QED BY <1>1, <1>2, CallsHold, PTL DEF Spec

\* No token, credential or key travels in the clear: the provider that a row is
\* asked about or judged by is protected by the structure of its URL, and past
\* EnforcePlaintextGuard every listener seen is bound to this machine, or an
\* operator had opted in, whatever is changed between two reads.
THEOREM TrafficStaysProtected == Spec => []TrafficProtected
<1>1. SoundInv => TrafficProtected
  <2> SUFFICES ASSUME SoundInv, NEW t \in Callers
               PROVE  /\ call[t].pc = "Asking" => Protected(call[t].cfg.endpoint)
                      /\ call[t].pc = "Row" /\ ~Opaque(t) => Protected(call[t].cfg.jwksUri)
                      /\ call[t].pc \in {"Row", "Asking"} =>
                           call[t].trusted \/ \A l \in call[t].seen : ThisMachine(l.host)
    BY DEF TrafficProtected
  <2> DEFINE q == call[t]
  <2>1. CallSound(q)
    BY DEF SoundInv
  <2>2. ASSUME q.pc = "Asking" PROVE Protected(q.cfg.endpoint)
    <3>1. SafeUrl(q.cfg.endpoint) /\ ValidateServerConfig(q.cfg) /\ q.cfg.mode # "jwks"
      BY <2>1, <2>2 DEF CallSound, ConfigOK
    <3>2. q.cfg.endpoint # NoUrl /\ ValidHttpUrl(Text(q.cfg.endpoint))
      BY <3>1 DEF ValidateServerConfig
    <3> QED BY <3>1, <3>2, SafeIsProtected
  <2>3. ASSUME q.pc = "Row", ~Opaque(t) PROVE Protected(q.cfg.jwksUri)
    <3>1. SafeUrl(q.cfg.jwksUri) /\ ValidateServerConfig(q.cfg) /\ q.cfg.mode = "jwks"
      BY <2>1, <2>3 DEF CallSound, ConfigOK, Opaque
    <3>2. q.cfg.jwksUri # NoUrl /\ ValidHttpUrl(Text(q.cfg.jwksUri))
      BY <3>1 DEF ValidateServerConfig
    <3> QED BY <3>1, <3>2, SafeIsProtected
  <2>4. q.pc \in {"Row", "Asking"} => q.trusted \/ \A l \in q.seen : ThisMachine(l.host)
    BY <2>1 DEF CallSound, Guarded
  <2> QED BY <2>2, <2>3, <2>4
<1> QED BY <1>1, SoundHolds, PTL

\* ValidateToken accepts a token exactly if a usable key that the endpoint lists
\* under its kid signed it and its claims fit, and a rejected one fails a check
\* that the reason stands for in TrueOf (Expired also for a token issued in the
\* future, WrongIssuer also for one without aud), for any number of keys under
\* the kid and any order in which jwt-cpp checks the claims.
THEOREM VerdictsAreTrue == Spec => []VerdictIsTrue
<1>1. SoundInv => VerdictIsTrue
  <2> SUFFICES ASSUME SoundInv, NEW t \in Callers, call[t].pc = "Done", ~Opaque(t), call[t].result # "JwksFetchFailed"
               PROVE  TrueOf(call[t].result, Jwt[call[t].tok], Listed(call[t].cfg.jwksUri), Options(t))
    BY DEF VerdictIsTrue, Judged
  <2>1. CallSound(call[t])
    BY DEF SoundInv
  <2>2. OptionsOf(call[t]) = Options(t)
    BY DEF OptionsOf, Options
  <2> QED BY <2>1, <2>2 DEF CallSound, Opaque
<1> QED BY <1>1, SoundHolds, PTL
==============================================================================
