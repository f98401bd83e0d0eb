------------------------ MODULE OpaqueValidatorProofs ------------------------
(***************************************************************************)
(* Proofs about OpaqueValidator, for any number of threads and tokens, any  *)
(* configurations, and any size and lifetime of the decision cache:         *)
(*                                                                          *)
(*   OpaqueTypeCorrect    Spec => []TypeOK                                  *)
(*   CacheConsistent      Spec => []DecisionsConsistent                     *)
(*   ExpiryEnforced       Spec => []ExpiryRespected                         *)
(*   RevocationInvariant  Spec => []RevocationInv          (ForwardClock)   *)
(*   RevocationEffective  Spec => []RevocationTakesEffect  (ForwardClock)   *)
(*                                                                          *)
(* TypeOK is inductive by itself; that the cache is sound, ExpiryInv and    *)
(* RevocationInv each are relative to it.                                   *)
(***************************************************************************)
EXTENDS OpaqueValidator, CacheProofs

(***************************************************************************)
(* Types.                                                                   *)
(***************************************************************************)
\* A row of a thread that waits for work is well typed.
LEMMA IdleRowTypeOK == RowTypeOK(IdleRow)
  BY OpaqueAssumption DEF RowTypeOK, IdleRow, Results

\* The verdict on any response is one of the results, and a positive one
\* comes from a positive answer.
LEMMA OutcomeTypes ==
  ASSUME NEW r, RowTypeOK(r), r.pc = "Answered"
  PROVE  Outcome(r) \in Results /\ (Outcome(r) = "Ok" => r.resp = "Active")
  BY DEF RowTypeOK, Outcome, IntrospectOutcome, TokeninfoOutcome, Results

\* The exp of a principal is a natural number.
LEMMA ExpTypes ==
  ASSUME NEW r, RowTypeOK(r)
  PROVE  PrincipalExp(r) \in Nat
  BY OpaqueAssumption DEF RowTypeOK, PrincipalExp

\* The initial state is well typed.
LEMMA InitTypeOK == Init => TypeOK
  BY IdleRowTypeOK DEF Init, TypeOK, EmptyDecisions, DecisionsTypeOK, NoDecision, NotRevoked

\* Returning from a row keeps the rows well typed.
LEMMA ReturnTypes ==
  ASSUME TypeOK, NEW t \in Threads, NEW result \in Results, NEW cached \in BOOLEAN,
         Return(t, result, cached)
  PROVE  DOMAIN row' = Threads /\ \A u \in Threads : RowTypeOK(row'[u])
<1> DEFINE r == [row[t] EXCEPT !.pc = "Done", !.attempt = 0, !.resp = "None",
                               !.result = result, !.cached = cached]
<1>1. RowTypeOK(r)
  BY OpaqueAssumption DEF TypeOK, RowTypeOK
<1>2. row' = [row EXCEPT ![t] = r]
  BY DEF Return
<1> HIDE DEF r
<1> QED BY <1>1, <1>2 DEF TypeOK

\* A response reaching a thread keeps the rows well typed.
LEMMA RespondTypes ==
  ASSUME TypeOK, NEW t \in Threads, NEW resp \in {"Active", "Inactive", "Refused", "Garbled"},
         Respond(t, resp)
  PROVE  DOMAIN row' = Threads /\ \A u \in Threads : RowTypeOK(row'[u])
<1> DEFINE r == [row[t] EXCEPT !.pc = "Answered", !.attempt = 0, !.resp = resp]
<1>1. RowTypeOK(r)
  BY OpaqueAssumption DEF TypeOK, RowTypeOK
<1>2. row' = [row EXCEPT ![t] = r]
  BY DEF Respond
<1> HIDE DEF r
<1> QED BY <1>1, <1>2 DEF TypeOK

\* Every step keeps the types.
LEMMA NextTypeOK == TypeOK /\ [Next]_vars => TypeOK'
<1> SUFFICES ASSUME TypeOK, [Next]_vars PROVE TypeOK'
  OBVIOUS
<1> USE DEF TypeOK
<1>1. CASE UNCHANGED vars
  BY <1>1 DEF vars, DecisionsTypeOK, RowTypeOK
<1>2. CASE Environment
  BY <1>2, OpaqueAssumption DEF Environment, Tick, Revoke
<1>3. ASSUME NEW t \in Threads, Caller(t) PROVE TypeOK'
  <2>1. ASSUME NEW cfg \in Configs, NEW k \in Tokens, NEW now \in Nat, Present(t, cfg, k, now)
        PROVE  TypeOK'
    <3>1. RowTypeOK([IdleRow EXCEPT !.pc = "Ready", !.now = now, !.cfg = cfg, !.tok = k])
      BY <2>1, IdleRowTypeOK DEF RowTypeOK, IdleRow
    <3> QED BY <2>1, <3>1 DEF Present
  <2>2. CASE \E cfg \in Configs, k \in Tokens : StartChunk(t, cfg, k)
    BY <2>1, <2>2 DEF StartChunk
  <2>3. CASE \E k \in Tokens : NextRow(t, k)
    BY <2>1, <2>3 DEF NextRow, RowTypeOK
  <2>4. CASE FinishChunk(t)
    BY <2>4, IdleRowTypeOK DEF FinishChunk, env
  <2> QED BY <1>3, <2>2, <2>3, <2>4 DEF Caller
<1>4. ASSUME NEW t \in Threads, Validate(t) PROVE TypeOK'
  <2>0. RowTypeOK(row[t]) /\ row[t].tok \in Tokens /\ row[t].now \in Nat
    BY DEF RowTypeOK
  <2>1. CASE RejectEmpty(t)
    BY <2>1, ReturnTypes DEF RejectEmpty, env, Results
  <2>2. CASE AcceptCached(t)
    BY <2>2, <2>0, ReturnTypes, CacheTypes DEF AcceptCached, env, Results
  <2>3. CASE Ask(t)
    <3>1. RowTypeOK([row[t] EXCEPT !.pc = "Asking"])
      BY <2>3 DEF Ask, RowTypeOK
    <3> QED BY <2>3, <2>0, <3>1, CacheTypes DEF Ask, env
  <2>4. CASE Answer(t)
    <3>1. PICK resp \in {"Active", "Inactive", "Refused", "Garbled"} : Respond(t, resp)
      BY <2>4 DEF Answer
    <3>2. UNCHANGED decisions /\ UNCHANGED env
      BY <3>1 DEF Respond
    <3> QED BY <3>1, <3>2, RespondTypes DEF env
  <2>5. CASE AttemptFails(t)
    <3>1. CASE Respond(t, "Refused")
      BY <3>1, RespondTypes DEF Respond, env
    <3>2. CASE /\ row[t].attempt < MaxRetries
               /\ row' = [row EXCEPT ![t].attempt = @ + 1]
               /\ UNCHANGED decisions /\ UNCHANGED env
      <4>1. RowTypeOK([row[t] EXCEPT !.attempt = @ + 1])
        BY <2>5, <3>2, OpaqueAssumption DEF AttemptFails, RowTypeOK
      <4> QED BY <3>2, <4>1 DEF env
    <3> QED BY <2>5, <3>1, <3>2 DEF AttemptFails
  <2>6. CASE Decide(t)
    <3>1. Outcome(row[t]) \in Results /\ PrincipalExp(row[t]) \in Nat
      BY <2>0, <2>6, OutcomeTypes, ExpTypes DEF Decide
    <3>2. DecisionsTypeOK(decisions')
      BY <2>0, <2>6, <3>1, CacheTypes DEF Decide, StoreStamp
    <3> QED BY <2>6, <3>1, <3>2, ReturnTypes DEF Decide, env
  <2> QED BY <1>4, <2>1, <2>2, <2>3, <2>4, <2>5, <2>6 DEF Validate
<1> QED BY <1>1, <1>2, <1>3, <1>4 DEF Next

\* The validator of opaque tokens is type correct (validator.cpp 508-636,
\* github_check.cpp, decision_cache.cpp), and a POST is sent again at most
\* max_retries times (retry_http_client.cpp).
THEOREM OpaqueTypeCorrect == Spec => []TypeOK
  BY InitTypeOK, NextTypeOK, PTL DEF Spec

(***************************************************************************)
(* Index and list of the decision cache.                                    *)
(***************************************************************************)
\* What a step does to the cache: nothing, a lookup or a store.
LEMMA CacheSteps ==
  ASSUME TypeOK, [Next]_vars
  PROVE  \/ decisions' = decisions
         \/ \E t \in Threads :
              \/ /\ AcceptCached(t) \/ Ask(t)
                 /\ decisions' = Touch(decisions, row[t].tok, row[t].now)
              \/ /\ Decide(t) /\ Outcome(row[t]) = "Ok"
                 /\ decisions' = Store(decisions, row[t].tok, PrincipalExp(row[t]), row[t].now)
  BY DEF vars, Next, Environment, Tick, Revoke, Caller, Validate, StartChunk, NextRow, FinishChunk,
     Present, RejectEmpty, AcceptCached, Ask, Answer, AttemptFails, Respond, Decide, StoreStamp

\* Every step keeps index and list in agreement.
LEMMA NextSound == TypeOK /\ Sound(decisions) /\ [Next]_vars => Sound(decisions')
<1> SUFFICES ASSUME TypeOK, Sound(decisions), [Next]_vars PROVE Sound(decisions')
  OBVIOUS
<1>1. DecisionsTypeOK(decisions)
  BY DEF TypeOK
<1>2. ASSUME NEW t \in Threads
      PROVE  row[t].tok \in Tokens /\ row[t].now \in Nat /\ PrincipalExp(row[t]) \in Nat
  BY ExpTypes DEF TypeOK, RowTypeOK
<1> QED BY <1>1, <1>2, CacheSteps, TouchSound, StoreSound

\* The map and the list of the decision cache hold the same tokens, each once,
\* within the bound, whatever lookups, stores and evictions come in whatever
\* order (decision_cache.cpp keeps an iterator of one in the other).
THEOREM CacheConsistent == Spec => []DecisionsConsistent
<1>1. Init => Sound(decisions)
  BY EmptySound DEF Init
<1>2. Sound(decisions) => DecisionsConsistent
  BY DEF Sound, Lists, DecisionsConsistent
<1>3. TypeOK /\ Sound(decisions) /\ [Next]_vars => Sound(decisions)'
  BY NextSound
<1> QED BY <1>1, <1>2, <1>3, OpaqueTypeCorrect, PTL DEF Spec

(***************************************************************************)
(* Expiry.                                                                  *)
(***************************************************************************)
\* A stored decision ends by the reported expiry, which only GitHub leaves
\* out, and a provider vouches only in its own mode.
StoredByExpiry(d) ==
  \A k \in d.held : Claims[k].exp > 0 /\ Claims[k].idp # "github_check"
                    => d.entry[k].expiresAt <= Claims[k].exp

ExpiryOK(r) ==
  /\ r.resp = "Active" => Claims[r.tok].idp = r.cfg.mode
  /\ r.pc = "Done" /\ r.result = "Ok" /\ Claims[r.tok].exp > 0 =>
       /\ r.cached /\ Claims[r.tok].idp # "github_check" => r.now < Claims[r.tok].exp
       /\ Claims[r.tok].idp = "tokeninfo" => r.now <= Claims[r.tok].exp + ClockSkewS

ExpiryInv == StoredByExpiry(decisions) /\ \A t \in Threads : ExpiryOK(row[t])

\* A step of thread t keeps the bounds of its own row.
LEMMA OwnExpiry ==
  ASSUME TypeOK, ExpiryInv, NEW t \in Threads, Caller(t) \/ Validate(t)
  PROVE  ExpiryOK(row'[t])
<1>1. RowTypeOK(row[t]) /\ row[t].tok \in Tokens /\ ExpiryOK(row[t]) /\ row[t].now \in Nat /\ DOMAIN row = Threads
  BY DEF TypeOK, RowTypeOK, ExpiryInv
<1>2. PICK k \in Tokens : row[t].tok = k
  BY <1>1
<1>3. Claims[k].exp \in Nat /\ Claims[k].idp \in Modes /\ ClockSkewS \in Nat
  BY OpaqueAssumption
<1>4. CASE row'[t].resp = "None" /\ row'[t].pc # "Done"
  BY <1>4 DEF ExpiryOK
<1>5. CASE Caller(t)
  <2>1. ASSUME NEW cfg, NEW j, NEW now, Present(t, cfg, j, now)
        PROVE  row'[t].resp = "None" /\ row'[t].pc = "Ready"
    BY <1>1, <2>1 DEF Present, IdleRow
  <2>2. CASE FinishChunk(t)
    <3>1. row'[t].resp = "None" /\ row'[t].pc = "Idle"
      BY <1>1, <2>2 DEF FinishChunk, IdleRow
    <3> QED BY <1>4, <3>1
  <2> QED BY <1>4, <1>5, <2>1, <2>2 DEF Caller, StartChunk, NextRow
<1>6. CASE RejectEmpty(t)
  <2>1. row'[t].resp = "None" /\ row'[t].result = "Malformed"
    BY <1>1, <1>6 DEF RejectEmpty, Return, RowTypeOK
  <2> QED BY <2>1 DEF ExpiryOK
<1>7. CASE AcceptCached(t)
  <2>1. /\ row'[t].resp = "None" /\ row'[t].tok = k /\ row'[t].now = row[t].now
        /\ k \in decisions.held /\ decisions.entry[k].expiresAt > row[t].now
    BY <1>1, <1>2, <1>7 DEF AcceptCached, Return, RowTypeOK, Covers
  <2>2. decisions.entry[k].expiresAt \in Int
    BY DEF TypeOK, DecisionsTypeOK
  <2>3. Claims[k].exp > 0 /\ Claims[k].idp # "github_check" => decisions.entry[k].expiresAt <= Claims[k].exp
    BY <2>1 DEF ExpiryInv, StoredByExpiry
  <2> QED BY <1>1, <1>3, <2>1, <2>2, <2>3 DEF ExpiryOK
<1>8. CASE Ask(t)
  <2>1. row'[t].resp = row[t].resp /\ row'[t].pc = "Asking" /\ row[t].pc = "Ready"
    BY <1>1, <1>8 DEF Ask, RowTypeOK
  <2> QED BY <1>1, <1>4, <2>1 DEF RowTypeOK
<1>9. CASE Answer(t) \/ AttemptFails(t)
  <2>1. ASSUME NEW resp, Respond(t, resp), resp = "Active" => Claims[k].idp = row[t].cfg.mode
        PROVE  ExpiryOK(row'[t])
    <3>1. row'[t].tok = k /\ row'[t].cfg = row[t].cfg /\ row'[t].resp = resp /\ row'[t].pc = "Answered"
      BY <1>1, <1>2, <2>1 DEF Respond, RowTypeOK
    <3> QED BY <2>1, <3>1 DEF ExpiryOK
  <2>2. CASE row' = [row EXCEPT ![t].attempt = @ + 1] /\ row[t].pc = "Asking"
    <3>1. row'[t].resp = row[t].resp /\ row'[t].pc = "Asking"
      BY <1>1, <2>2 DEF RowTypeOK
    <3> QED BY <1>1, <1>4, <2>2, <3>1 DEF RowTypeOK
  <2> QED BY <1>2, <1>9, <2>1, <2>2 DEF Answer, AttemptFails, Vouches
<1>10. CASE Decide(t)
  <2>1. /\ row'[t].resp = "None" /\ row'[t].tok = k /\ row'[t].now = row[t].now /\ ~row'[t].cached
        /\ row'[t].result = Outcome(row[t]) /\ row[t].pc = "Answered"
    BY <1>1, <1>2, <1>10 DEF Decide, Return, RowTypeOK
  <2>2. CASE Outcome(row[t]) = "Ok" /\ Claims[k].exp > 0 /\ Claims[k].idp = "tokeninfo"
    <3>1. row[t].resp = "Active"
      BY <1>1, <2>1, <2>2, OutcomeTypes
    <3>2. row[t].cfg.mode = "tokeninfo"
      BY <1>1, <1>2, <2>2, <3>1 DEF ExpiryOK
    <3>3. TokeninfoOutcome(row[t].cfg, Claims[k], row[t].now) = "Ok"
      BY <1>2, <2>2, <3>1, <3>2 DEF Outcome
    <3>4. ~(row[t].now > Claims[k].exp + ClockSkewS)
      BY <2>2, <3>3 DEF TokeninfoOutcome
    <3> QED BY <1>1, <1>3, <2>1, <3>4 DEF ExpiryOK
  <2> QED BY <2>1, <2>2 DEF ExpiryOK
<1> QED BY <1>5, <1>6, <1>7, <1>8, <1>9, <1>10 DEF Validate

\* What a step of thread t leaves alone.
LEMMA OtherRowsStay ==
  ASSUME TypeOK, NEW t \in Threads, Caller(t) \/ Validate(t), NEW u \in Threads, u # t
  PROVE  row'[u] = row[u]
  BY DEF TypeOK, Caller, Validate, StartChunk, NextRow, FinishChunk, Present, RejectEmpty,
     AcceptCached, Ask, Answer, AttemptFails, Respond, Decide, Return

\* Every step keeps stored decisions within the reported expiry.
LEMMA StoredExpiry ==
  ASSUME TypeOK, ExpiryInv, [Next]_vars
  PROVE  StoredByExpiry(decisions')
<1> SUFFICES ASSUME NEW k \in decisions'.held, Claims[k].exp > 0, Claims[k].idp # "github_check"
             PROVE  decisions'.entry[k].expiresAt <= Claims[k].exp
  BY DEF StoredByExpiry
<1>1. DecisionsTypeOK(decisions)
  BY DEF TypeOK
<1>2. ASSUME k \in decisions.held, decisions'.entry[k] = decisions.entry[k]
      PROVE  decisions'.entry[k].expiresAt <= Claims[k].exp
  BY <1>2 DEF ExpiryInv, StoredByExpiry
<1>3. ASSUME NEW t \in Threads, decisions' = Touch(decisions, row[t].tok, row[t].now)
      PROVE  decisions'.entry[k].expiresAt <= Claims[k].exp
  <2>1. row[t].tok \in Tokens /\ row[t].now \in Nat
    BY DEF TypeOK, RowTypeOK
  <2> QED BY <1>1, <1>2, <1>3, <2>1, TouchBound
<1>4. ASSUME NEW t \in Threads, Decide(t), Outcome(row[t]) = "Ok",
             decisions' = Store(decisions, row[t].tok, PrincipalExp(row[t]), row[t].now)
      PROVE  decisions'.entry[k].expiresAt <= Claims[k].exp
  <2>1. RowTypeOK(row[t]) /\ row[t].tok \in Tokens /\ row[t].now \in Nat /\ PrincipalExp(row[t]) \in Nat
    BY ExpTypes DEF TypeOK, RowTypeOK
  <2>2. CASE k = row[t].tok /\ decisions'.entry[k] = Decision(PrincipalExp(row[t]), row[t].now)
    <3>1. row[t].resp = "Active"
      BY <1>4, <2>1, OutcomeTypes DEF Decide
    <3>2. row[t].cfg.mode # "github_check"
      BY <2>2, <3>1 DEF ExpiryInv, ExpiryOK
    <3>3. PrincipalExp(row[t]) = Claims[k].exp
      BY <2>2, <3>2 DEF PrincipalExp
    <3>4. Claims[k].exp \in Nat \ {0}
      BY <2>1, <2>2, OpaqueAssumption
    <3> QED BY <2>1, <2>2, <3>3, <3>4, ExpBound
  <2> QED BY <1>1, <1>2, <1>4, <2>1, <2>2, StoreBound
<1>5. CASE decisions' = decisions
  BY <1>2, <1>5
<1> QED BY <1>3, <1>4, <1>5, CacheSteps

\* Every step keeps ExpiryInv.
LEMMA NextExpiryInv == TypeOK /\ ExpiryInv /\ [Next]_vars => ExpiryInv'
<1> SUFFICES ASSUME TypeOK, ExpiryInv, [Next]_vars PROVE ExpiryInv'
  OBVIOUS
<1>1. StoredByExpiry(decisions')
  BY StoredExpiry
<1>2. ASSUME NEW u \in Threads PROVE ExpiryOK(row'[u])
  <2>1. CASE row'[u] = row[u]
    BY <2>1 DEF ExpiryInv
  <2>2. CASE \E t \in Threads : Caller(t) \/ Validate(t)
    BY <2>1, <2>2, OtherRowsStay, OwnExpiry
  <2>3. CASE Environment \/ UNCHANGED vars
    BY <2>1, <2>3 DEF Environment, Tick, Revoke, vars
  <2> QED BY <2>2, <2>3 DEF Next
<1> QED BY <1>1, <1>2 DEF ExpiryInv

\* No decision is served at or past the expiry that the provider reported,
\* and no tokeninfo answer accepted beyond the clock skew after it, whichever
\* chunks store it in whatever order and however the clock moves
\* (decision_cache.cpp, Store and Lookup; validator.cpp 566-636).
THEOREM ExpiryEnforced == Spec => []ExpiryRespected
<1>1. Init => ExpiryInv
  BY DEF Init, ExpiryInv, StoredByExpiry, ExpiryOK, EmptyDecisions, IdleRow
<1>2. ExpiryInv => ExpiryRespected
  BY DEF ExpiryInv, ExpiryOK, ExpiryRespected
<1> QED BY <1>1, <1>2, NextExpiryInv, OpaqueTypeCorrect, PTL DEF Spec

(***************************************************************************)
(* Revocation.                                                              *)
(***************************************************************************)
\* The conjuncts of RevocationInv about one thread, for any clock and
\* revocations.
RowInv(r, last) ==
  /\ r.resp = "Active" => r.now <= last
  /\ r.pc = "Done" /\ r.result = "Ok" => r.now < last + DecisionTtlS

\* LastVouch is a natural number and, while the clock runs forward, grows.
LEMMA LastVouchGrows ==
  ASSUME ForwardClock, TypeOK, RevocationInv, Next, NEW k \in Tokens
  PROVE  /\ LastVouch(k) \in Nat /\ LastVouch(k)' \in Nat
         /\ LastVouch(k) <= LastVouch(k)'
         /\ clock <= clock' /\ revokedAt[k]' <= clock' /\ clock' \in Nat
<1>0. /\ revokedAt[k] \in Nat /\ clock \in Nat \ {0} /\ revokedAt[k] <= clock
      /\ DOMAIN revokedAt = Tokens
  BY DEF TypeOK, RevocationInv
<1>1. CASE \E d \in ClockDeltas : Tick(d)
  BY <1>0, <1>1 DEF Tick, ForwardClock, LastVouch, NotRevoked
<1>2. CASE \E j \in Tokens : Revoke(j)
  BY <1>0, <1>2 DEF Revoke, LastVouch, NotRevoked
<1>3. CASE clock' = clock /\ revokedAt' = revokedAt
  BY <1>0, <1>3 DEF LastVouch
<1>4. ASSUME NEW t \in Threads, Caller(t) \/ Validate(t)
      PROVE  clock' = clock /\ revokedAt' = revokedAt
  BY <1>4 DEF Caller, Validate, StartChunk, NextRow, FinishChunk, Present, RejectEmpty, AcceptCached,
     Ask, Answer, AttemptFails, Respond, Decide, env
<1> QED BY <1>1, <1>2, <1>3, <1>4 DEF Next, Environment

\* The conjuncts of RevocationInv about thread u.
RowBounded(u) == row[u].now <= clock /\ RowInv(row[u], LastVouch(row[u].tok))

\* A row that a step leaves alone keeps its invariant.
LEMMA RowsStay ==
  ASSUME ForwardClock, TypeOK, RevocationInv, Next, NEW u \in Threads, row'[u] = row[u]
  PROVE  RowBounded(u)'
<1>1. PICK k \in Tokens : row[u].tok = k
  BY DEF TypeOK, RowTypeOK
<1>2. row[u].now \in Nat /\ row[u].now <= clock /\ RowInv(row[u], LastVouch(k))
  BY <1>1 DEF TypeOK, RowTypeOK, RevocationInv, RowInv
<1>3. /\ LastVouch(k) \in Nat /\ LastVouch(k)' \in Nat /\ LastVouch(k) <= LastVouch(k)'
      /\ clock <= clock' /\ clock' \in Nat /\ clock \in Nat
  BY LastVouchGrows DEF TypeOK
<1>4. row'[u].now <= clock' /\ RowInv(row'[u], LastVouch(k)')
  BY <1>2, <1>3, DecisionAssumption DEF RowInv
<1>5. LastVouch(row[u].tok)' = LastVouch(k)'
  BY <1>1 DEF LastVouch
<1> QED BY <1>4, <1>5 DEF RowBounded, RowInv

\* Decisions that a step leaves alone or drops keep their bound.
LEMMA DecisionsStay ==
  ASSUME ForwardClock, TypeOK, RevocationInv, Next,
         NEW k \in decisions.held, decisions'.entry[k] = decisions.entry[k]
  PROVE  decisions'.entry[k].expiresAt <= LastVouch(k)' + DecisionTtlS
<1>1. k \in Tokens /\ decisions.entry[k].expiresAt \in Int
  BY DEF TypeOK, DecisionsTypeOK
<1>2. decisions.entry[k].expiresAt <= LastVouch(k) + DecisionTtlS
  BY DEF RevocationInv
<1>3. LastVouch(k) \in Nat /\ LastVouch(k)' \in Nat /\ LastVouch(k) <= LastVouch(k)'
  BY <1>1, LastVouchGrows
<1> HIDE DEF LastVouch
<1> QED BY <1>1, <1>2, <1>3, DecisionAssumption

\* The token and the reading of the clock of a row stay while it is validated.
LEMMA RowAfterReturn ==
  ASSUME TypeOK, NEW t \in Threads, NEW result, NEW cached, Return(t, result, cached)
  PROVE  /\ row'[t].now = row[t].now /\ row'[t].tok = row[t].tok /\ row'[t].resp = "None"
         /\ row'[t].result = result
  BY DEF TypeOK, RowTypeOK, Return

\* A step of thread t keeps the invariant of its own row.
LEMMA OwnRow ==
  ASSUME ForwardClock, TypeOK, RevocationInv, Next, NEW t \in Threads, Caller(t) \/ Validate(t)
  PROVE  RowBounded(t)'
<1>1. clock' = clock /\ revokedAt' = revokedAt
  BY DEF Caller, Validate, StartChunk, NextRow, FinishChunk, Present, RejectEmpty, AcceptCached,
     Ask, Answer, AttemptFails, Respond, Decide, env
<1>2. PICK k \in Tokens : row[t].tok = k
  BY DEF TypeOK, RowTypeOK
<1>3. /\ row[t].now \in Nat /\ row[t].now <= clock /\ RowInv(row[t], LastVouch(k))
      /\ LastVouch(k) \in Nat /\ clock \in Nat /\ row[t].pc \in {"Idle", "Ready", "Asking", "Answered", "Done"}
      /\ row[t].pc = "Answered" <=> row[t].resp # "None"
  BY <1>2, LastVouchGrows DEF TypeOK, RowTypeOK, RevocationInv, RowInv
<1>4. LastVouch(k)' = LastVouch(k)
  BY <1>1 DEF LastVouch
<1>5. ASSUME row'[t].tok = k, row'[t].now = row[t].now,
             row'[t].resp = "Active" => row[t].now <= LastVouch(k),
             row'[t].pc = "Done" /\ row'[t].result = "Ok" => row[t].now < LastVouch(k) + DecisionTtlS
      PROVE  RowBounded(t)'
  <2>1. LastVouch(row[t].tok)' = LastVouch(k)'
    BY <1>5 DEF LastVouch
  <2> QED BY <1>1, <1>3, <1>4, <1>5, <2>1 DEF RowBounded, RowInv
<1>6. ASSUME NEW now \in Nat, now <= clock, row'[t].now = now,
             row'[t].resp = "None", row'[t].pc # "Done"
      PROVE  RowBounded(t)'
  BY <1>1, <1>3, <1>6 DEF RowBounded, RowInv
<1>7. CASE Caller(t)
  <2>1. ASSUME NEW cfg, NEW j, NEW now \in Nat, now <= clock, Present(t, cfg, j, now)
        PROVE  RowBounded(t)'
    <3>1. row'[t].now = now /\ row'[t].resp = "None" /\ row'[t].pc = "Ready"
      BY <2>1 DEF Present, IdleRow, TypeOK
    <3> QED BY <2>1, <3>1, <1>6
  <2>2. CASE FinishChunk(t)
    <3>1. row'[t].now = 0 /\ row'[t].resp = "None" /\ row'[t].pc = "Idle"
      BY <2>2 DEF FinishChunk, IdleRow, TypeOK
    <3>2. row'[t].now \in Nat /\ row'[t].now <= clock /\ row'[t].pc # "Done"
      BY <1>3, <3>1
    <3> QED BY <1>1, <1>3, <3>1, <3>2 DEF RowBounded, RowInv
  <2> QED BY <1>3, <1>7, <2>1, <2>2 DEF Caller, StartChunk, NextRow
<1>8. CASE RejectEmpty(t)
  <2>1. Return(t, "Malformed", FALSE)
    BY <1>8 DEF RejectEmpty
  <2>2. /\ row'[t].tok = k /\ row'[t].now = row[t].now
        /\ row'[t].resp = "None" /\ row'[t].result = "Malformed"
    BY <1>2, <2>1, RowAfterReturn
  <2> QED BY <1>5, <2>2
<1>9. CASE AcceptCached(t)
  <2>1. Return(t, "Ok", TRUE) /\ Covers(decisions, k, row[t].now)
    BY <1>2, <1>9 DEF AcceptCached
  <2>2. k \in decisions.held /\ decisions.entry[k].expiresAt > row[t].now
    BY <2>1 DEF Covers
  <2>3. decisions.entry[k].expiresAt \in Int
    BY <2>2 DEF TypeOK, DecisionsTypeOK
  <2>4. decisions.entry[k].expiresAt <= LastVouch(k) + DecisionTtlS
    BY <2>2 DEF RevocationInv
  <2>5. row[t].now < LastVouch(k) + DecisionTtlS
    BY <1>3, <2>2, <2>3, <2>4, DecisionAssumption
  <2> QED BY <1>2, <1>5, <2>1, <2>5, RowAfterReturn
<1>10. CASE Ask(t)
  <2>1. row'[t].tok = k /\ row'[t].now = row[t].now /\ row'[t].resp = row[t].resp /\ row'[t].pc = "Asking"
    BY <1>2, <1>10 DEF Ask, TypeOK, RowTypeOK
  <2> QED BY <1>3, <1>5, <1>10, <2>1 DEF Ask
<1>11. CASE Answer(t) \/ AttemptFails(t)
  <2>1. ASSUME NEW resp, Respond(t, resp), resp = "Active" => row[t].now <= LastVouch(k)
        PROVE  RowBounded(t)'
    <3>1. row'[t].tok = k /\ row'[t].now = row[t].now /\ row'[t].resp = resp /\ row'[t].pc = "Answered"
      BY <1>2, <2>1 DEF Respond, TypeOK, RowTypeOK
    <3> QED BY <1>5, <2>1, <3>1
  <2>2. Vouches(t) => row[t].now <= LastVouch(k)
    BY <1>2, <1>3 DEF Vouches, LastVouch
  <2>3. CASE row' = [row EXCEPT ![t].attempt = @ + 1] /\ row[t].pc = "Asking"
    <3>1. row'[t].tok = k /\ row'[t].now = row[t].now /\ row'[t].resp = row[t].resp /\ row'[t].pc = "Asking"
      BY <1>2, <2>3 DEF TypeOK, RowTypeOK
    <3> QED BY <1>3, <1>5, <2>3, <3>1
  <2> QED BY <1>11, <2>1, <2>2, <2>3 DEF Answer, AttemptFails
<1>12. CASE Decide(t)
  <2>1. Return(t, Outcome(row[t]), FALSE) /\ row[t].pc = "Answered"
    BY <1>12 DEF Decide
  <2>2. Outcome(row[t]) = "Ok" => row[t].now <= LastVouch(k)
    BY <2>1, <1>3, OutcomeTypes DEF TypeOK, RowInv
  <2>3. Outcome(row[t]) = "Ok" => row[t].now < LastVouch(k) + DecisionTtlS
    BY <1>3, <2>2, DecisionAssumption
  <2> QED BY <1>2, <1>5, <2>1, <2>3, RowAfterReturn
<1> QED BY <1>7, <1>8, <1>9, <1>10, <1>11, <1>12 DEF Validate

\* A step of thread t keeps the bound of every decision.
LEMMA DecisionsBounded ==
  ASSUME ForwardClock, TypeOK, RevocationInv, Next, NEW t \in Threads, Caller(t) \/ Validate(t),
         NEW j \in decisions'.held
  PROVE  decisions'.entry[j].expiresAt <= LastVouch(j)' + DecisionTtlS
<1>1. RowTypeOK(row[t]) /\ row[t].tok \in Tokens /\ row[t].now \in Nat /\ DecisionsTypeOK(decisions)
  BY DEF TypeOK, RowTypeOK
<1>2. CASE decisions' = decisions
  BY <1>2, DecisionsStay
<1>3. CASE decisions' = Touch(decisions, row[t].tok, row[t].now)
  BY <1>1, <1>3, TouchBound, DecisionsStay
<1>4. CASE Decide(t) /\ Outcome(row[t]) = "Ok"
  <2> DEFINE exp == PrincipalExp(row[t])
  <2>1. exp \in Nat /\ row[t].resp = "Active"
    BY <1>1, <1>4, ExpTypes, OutcomeTypes DEF Decide
  <2>2. decisions' = Store(decisions, row[t].tok, exp, row[t].now)
    BY <1>4 DEF Decide, StoreStamp
  <2> HIDE DEF exp
  <2>3. CASE j \in decisions.held /\ decisions'.entry[j] = decisions.entry[j]
    BY <2>3, DecisionsStay
  <2>4. CASE j = row[t].tok /\ decisions'.entry[j] = Decision(exp, row[t].now)
    <3>1. decisions'.entry[j].expiresAt <= row[t].now + DecisionTtlS
      BY <1>1, <2>1, <2>4, TtlBound
    <3>2. row[t].now <= LastVouch(j)
      BY <2>1, <2>4 DEF RevocationInv
    <3>3. LastVouch(j) \in Nat /\ LastVouch(j)' \in Nat /\ LastVouch(j) <= LastVouch(j)'
      BY <1>1, <2>4, LastVouchGrows
    <3>4. decisions'.entry[j].expiresAt \in Int
      BY <1>1, <2>1, <2>4, DecisionAssumption DEF Decision, Ttl
    <3> QED BY <1>1, <3>1, <3>2, <3>3, <3>4, DecisionAssumption
  <2> QED BY <1>1, <2>1, <2>2, <2>3, <2>4, StoreBound
<1> QED BY <1>2, <1>3, <1>4 DEF Caller, Validate, StartChunk, NextRow, FinishChunk, Present,
        RejectEmpty, AcceptCached, Ask, Answer, AttemptFails, Respond, Decide

\* Every step keeps RevocationInv while the clock runs forward.
LEMMA NextRevocationInv ==
  ASSUME ForwardClock
  PROVE  TypeOK /\ RevocationInv /\ [Next]_vars => RevocationInv'
<1> SUFFICES ASSUME TypeOK, RevocationInv, [Next]_vars PROVE RevocationInv'
  OBVIOUS
<1>1. CASE UNCHANGED vars
  BY <1>1 DEF vars, RevocationInv, LastVouch
<1>2. CASE Next
  <2>1. \A k \in Tokens : revokedAt'[k] <= clock'
    BY <1>2, LastVouchGrows
  <2>2. CASE Environment
    <3>1. row' = row /\ decisions' = decisions
      BY <2>2 DEF Environment, Tick, Revoke
    <3>2. \A u \in Threads : RowBounded(u)'
      BY <1>2, <3>1, RowsStay
    <3>3. \A k \in decisions'.held : decisions'.entry[k].expiresAt <= LastVouch(k)' + DecisionTtlS
      BY <1>2, <3>1, DecisionsStay
    <3> QED BY <2>1, <3>2, <3>3 DEF RevocationInv, RowBounded, RowInv
  <2>3. ASSUME NEW t \in Threads, Caller(t) \/ Validate(t)
        PROVE  RevocationInv'
    <3>1. \A u \in Threads : RowBounded(u)'
      BY <1>2, <2>3, OtherRowsStay, RowsStay, OwnRow
    <3>2. \A k \in decisions'.held : decisions'.entry[k].expiresAt <= LastVouch(k)' + DecisionTtlS
      BY <1>2, <2>3, DecisionsBounded
    <3> QED BY <2>1, <3>1, <3>2 DEF RevocationInv, RowBounded, RowInv
  <2> QED BY <1>2, <2>2, <2>3 DEF Next
<1> QED BY <1>1, <1>2

\* Initially nothing is revoked, stored or answered.
LEMMA InitRevocationInv == Init => RevocationInv
  BY DEF Init, RevocationInv, EmptyDecisions, IdleRow, NotRevoked

\* While the clock runs forward, stored decisions, answers and verdicts stay
\* within a cache lifetime of the provider's last word on the token.
THEOREM RevocationInvariant ==
  ASSUME ForwardClock
  PROVE  Spec => []RevocationInv
<1>1. TypeOK /\ RevocationInv /\ [Next]_vars => RevocationInv'
  BY NextRevocationInv
<1> QED BY <1>1, InitRevocationInv, OpaqueTypeCorrect, PTL DEF Spec

\* The invariant bounds what is accepted after a revocation.
LEMMA RevocationBound ==
  TypeOK /\ RevocationInv => RevocationTakesEffect
  BY DEF RevocationInv, RevocationTakesEffect, LastVouch

\* No chunk that read the clock a cache lifetime after the revocation of a
\* token accepts it, for any number of threads and any sizes
\* (decision_cache.cpp, Lookup and Store; validator.cpp 508-636).
THEOREM RevocationEffective ==
  ASSUME ForwardClock
  PROVE  Spec => []RevocationTakesEffect
<1>1. Spec => []RevocationInv
  BY RevocationInvariant
<1> QED BY <1>1, OpaqueTypeCorrect, RevocationBound, PTL
==============================================================================
