----------------------------- MODULE SessionAuthz -----------------------------
(***************************************************************************)
(* The two callbacks quack makes for a connection, as several threads run   *)
(* them: quack_oauth_check_token(session_id, auth_string, token), which     *)
(* files the validated Principal under the session, and                     *)
(* quack_oauth_check_authorization(session_id, query), which looks it up    *)
(* and applies the policy.  Both record their decision in the audit ring.   *)
(* Sessions, ring and the caches of JwksValidator and OpaqueValidator share *)
(* the one mutex of QuackOauthState.                                        *)
(*                                                                          *)
(* check_token holds the mutex for its whole chunk, except during HTTP and  *)
(* while a row is audited; check_authorization takes it for each access.    *)
(* EmitAuditEvent takes it by itself.  What validation decides is the       *)
(* subject of the other modules: here a token is accepted with the          *)
(* principal it carries, or rejected.  A query is what InspectSql makes of  *)
(* it: the request that the policy decides on.                              *)
(***************************************************************************)
EXTENDS Integers, FiniteSets, AuditRing, Policy

CONSTANTS
  Threads,
  Sids,             \* session ids
  Principals,       \* records: sub, scopes, exp (<= 0: none)
  Queries,          \* records: unsafe, action, objects, columns
  Sources,          \* what settings and tables may say of the policy
  MaxSessions,      \* kMaxSessionPrincipals
  ClockSkewS,       \* quack_oauth_clock_skew_s
  ClockDeltas,      \* how the system clock may move
  MaxClockSteps,    \* bound: clock movements
  MaxRows           \* bound: rows over all threads

ASSUME AuthzAssumption ==
  /\ \A p \in Principals : p.exp \in Nat
  /\ \A q \in Queries : /\ q.unsafe \in BOOLEAN /\ q.action \in Actions
                        /\ q.objects \subseteq Seq(STRING) /\ q.columns \subseteq Seq(STRING)
  /\ \A source \in Sources : WellFormedSource(source)
  /\ Sources # {} /\ Principals # {} /\ Sids # {} /\ Queries # {}
  /\ "free" \notin Threads
  /\ MaxSessions \in Nat \ {0} /\ ClockSkewS \in Nat
  /\ ClockDeltas \subseteq Int /\ MaxClockSteps \in Nat /\ MaxRows \in Nat

VARIABLES
  sessions,    \* QuackOauthState::session_principals
  ring,        \* QuackOauthState::audit_ring
  mu,          \* the thread that holds the mutex across steps, or Free
  row,         \* per thread: the locals of the callback
  clock,       \* the system clock, in seconds
  steps,       \* clock movements so far
  rows,        \* rows so far
  latest       \* history: per session, {the principal check_token accepted last}

vars == <<sessions, ring, mu, row, clock, steps, rows, latest>>

Free == "free"
NoSid == ""                     \* no session id: the one-argument form, NULL or empty
NoPrincipal == [sub |-> "", scopes |-> {}, exp |-> 0]
NoSource == [named |-> FALSE, columns |-> {}, rows |-> {}, defaultAllow |-> FALSE]
NoSession == [principal |-> NoPrincipal, updatedAt |-> 0]

Event(type, sub) == [type |-> type, sub |-> sub]
Events == [ type : {"TokenAccepted", "TokenRejected", "JwksRefresh", "AuthzAllow", "AuthzDeny"},
            sub  : {p.sub : p \in Principals} \cup {""} ]

IdleRow ==
  [ pc        |-> "Idle",
    now       |-> 0,             \* now_s, fixed for the chunk
    policy    |-> LoadFailed,    \* loaded once per chunk
    source    |-> NoSource,      \* history: what it was loaded from
    sid       |-> NoSid,
    principal |-> NoPrincipal,   \* the copy check_authorization works on
    asked     |-> FALSE,         \* the row has been to the identity provider
    event     |-> NoEvent,       \* the event about to be emitted
    refresh   |-> FALSE ]        \* a JwksRefresh event follows it

Init ==
  /\ sessions = [s \in Sids |-> NoSession]
  /\ ring = EmptyRing
  /\ mu = Free
  /\ row = [t \in Threads |-> IdleRow]
  /\ clock = 1
  /\ steps = 0
  /\ rows = 0
  /\ latest = [s \in Sids |-> {}]

(***************************************************************************)
(* session_principals.                                                      *)
(***************************************************************************)
Live(m) == {s \in Sids : m[s] # NoSession}

\* it goes before victim.
GoesFirst(it, victim) ==
  \/ it.principal.exp > 0 /\ victim.principal.exp <= 0
  \/ it.principal.exp > 0 /\ victim.principal.exp > 0 /\ it.principal.exp < victim.principal.exp
  \/ it.principal.exp = victim.principal.exp /\ it.updatedAt < victim.updatedAt

\* Mutant: a session without expiry counts as expiring at time 0.
ComesUpByExpiryOnly(m) == {v \in Live(m) : \A s \in Live(m) : m[v].principal.exp <= m[s].principal.exp}

\* What the scan over the unordered map may end on.
Victims(m) == {v \in Live(m) : \A s \in Live(m) : ~GoesFirst(m[s], m[v])}

\* Mutant: emplace, which leaves an element that is there alone.
StoreByEmplace(sid, p, now) ==
  LET m == [sessions EXCEPT ![sid] = IF @ = NoSession THEN [principal |-> p, updatedAt |-> now] ELSE @] IN
  IF Cardinality(Live(m)) > MaxSessions
  THEN {[m EXCEPT ![v] = NoSession] : v \in Victims(m)}
  ELSE {m}

\* The maps StoreSessionPrincipal may leave: one element was written, so its
\* eviction loop runs at most once.
StoreSessionPrincipal(sid, p, now) ==
  LET m == [sessions EXCEPT ![sid] = [principal |-> p, updatedAt |-> now]] IN
  IF Cardinality(Live(m)) > MaxSessions
  THEN {[m EXCEPT ![v] = NoSession] : v \in Victims(m)}
  ELSE {m}

IsPrincipalExpired(p, now) == p.exp > 0 /\ now > p.exp + ClockSkewS

(***************************************************************************)
(* quack_oauth_check_token.                                                 *)
(***************************************************************************)
Tick(d) ==
  /\ steps < MaxClockSteps
  /\ clock + d >= 1
  /\ clock' = clock + d
  /\ steps' = steps + 1
  /\ UNCHANGED <<sessions, ring, mu, row, rows, latest>>

StartTokenChunk(t) ==
  /\ row[t].pc = "Idle" /\ rows < MaxRows
  /\ row' = [row EXCEPT ![t] = [@ EXCEPT !.pc = "Lock", !.now = clock]]
  /\ UNCHANGED <<sessions, ring, mu, clock, steps, rows, latest>>

\* The chunk's lock, taken at its start, after an HTTP call and after a row
\* was audited.
Lock(t) ==
  /\ row[t].pc = "Lock" /\ mu = Free
  /\ mu' = t
  /\ row' = [row EXCEPT ![t].pc = "Rows"]
  /\ UNCHANGED <<sessions, ring, clock, steps, rows, latest>>

\* UnlockingHttpClient.
AskProvider(t) ==
  /\ row[t].pc = "Rows" /\ rows < MaxRows /\ ~row[t].asked
  /\ mu' = Free
  /\ row' = [row EXCEPT ![t] = [@ EXCEPT !.pc = "Http", !.asked = TRUE]]
  /\ UNCHANGED <<sessions, ring, clock, steps, rows, latest>>

ProviderAnswers(t) ==
  /\ row[t].pc = "Http"
  /\ row' = [row EXCEPT ![t].pc = "Lock"]
  /\ UNCHANGED <<sessions, ring, mu, clock, steps, rows, latest>>

\* Mutant: the mutex is still held when the row is audited.
DecideHoldingMutex(t, event, refresh) ==
  /\ row[t].pc = "Rows" /\ rows < MaxRows
  /\ rows' = rows + 1
  /\ UNCHANGED mu
  /\ row' = [row EXCEPT ![t] = [@ EXCEPT !.pc = "Audit", !.asked = FALSE, !.event = event,
                                         !.refresh = refresh]]

\* A row is decided; EmitAuditsAndScrub drops the mutex before it emits.
Decide(t, event, refresh) ==
  /\ row[t].pc = "Rows" /\ rows < MaxRows
  /\ rows' = rows + 1
  /\ mu' = Free
  /\ row' = [row EXCEPT ![t] = [@ EXCEPT !.pc = "Audit", !.asked = FALSE, !.event = event,
                                         !.refresh = refresh]]

AcceptToken(t, sid, p, refresh) ==
  /\ Decide(t, Event("TokenAccepted", p.sub), refresh)
  /\ IF sid = NoSid THEN UNCHANGED <<sessions, latest>>
     ELSE /\ sessions' \in StoreSessionPrincipal(sid, p, row[t].now)
          /\ latest' = [latest EXCEPT ![sid] = {p}]
  /\ UNCHANGED <<ring, clock, steps>>

RejectToken(t, refresh) ==
  /\ Decide(t, Event("TokenRejected", ""), refresh)
  /\ UNCHANGED <<sessions, ring, clock, steps, latest>>

\* A NULL token: the row is false and nothing is emitted.
RejectNull(t) ==
  /\ row[t].pc = "Rows" /\ rows < MaxRows
  /\ rows' = rows + 1
  /\ UNCHANGED <<sessions, ring, mu, row, clock, steps, latest>>

\* The chunk is done, or the HTTP client has thrown: the lock is released.
FinishTokenChunk(t) ==
  /\ row[t].pc = "Rows"
  /\ mu' = Free
  /\ row' = [row EXCEPT ![t] = IdleRow]
  /\ UNCHANGED <<sessions, ring, clock, steps, rows, latest>>

(***************************************************************************)
(* quack_oauth_check_authorization.                                         *)
(***************************************************************************)
StartAuthzChunk(t, source, policy) ==
  /\ row[t].pc = "Idle" /\ rows < MaxRows
  /\ row' = [row EXCEPT ![t] = [@ EXCEPT !.pc = "AuthzRows", !.now = clock, !.policy = policy,
                                         !.source = source]]
  /\ UNCHANGED <<sessions, ring, mu, clock, steps, rows, latest>>

\* The principal is copied under the mutex, and the row is decided on the copy.
ReadPrincipal(t, sid) ==
  /\ row[t].pc = "AuthzRows" /\ mu = Free /\ rows < MaxRows
  /\ rows' = rows + 1
  /\ UNCHANGED <<sessions, ring, mu, clock, steps, latest>>

GoOn(t, sid, pc, type) ==
  row' = [row EXCEPT ![t] = [@ EXCEPT !.pc = pc, !.sid = sid, !.principal = sessions[sid].principal,
                                      !.event = Event(type, sessions[sid].principal.sub)]]

DenyUnknown(t, sid) ==
  /\ ReadPrincipal(t, sid)
  /\ sessions[sid] = NoSession
  /\ GoOn(t, sid, "Audit", "AuthzDeny")

FindExpired(t, sid) ==
  /\ ReadPrincipal(t, sid)
  /\ sessions[sid] # NoSession /\ IsPrincipalExpired(sessions[sid].principal, row[t].now)
  /\ GoOn(t, sid, "Drop", "AuthzDeny")

Allowed(policy, p, query) ==
  /\ policy # LoadFailed
  /\ ~query.unsafe
  /\ IF policy = DefaultPolicy THEN EvaluateDefaultPolicy(p, query.action) ELSE EvaluatePolicy(policy, p, query)

Authorize(t, sid, query) ==
  /\ ReadPrincipal(t, sid)
  /\ sessions[sid] # NoSession /\ ~IsPrincipalExpired(sessions[sid].principal, row[t].now)
  /\ GoOn(t, sid, "Audit", IF Allowed(row[t].policy, sessions[sid].principal, query)
                           THEN "AuthzAllow" ELSE "AuthzDeny")

\* The mutex again: the session is erased by its id.
DropExpired(t) ==
  /\ row[t].pc = "Drop" /\ mu = Free
  /\ sessions' = [sessions EXCEPT ![row[t].sid] = NoSession]
  /\ row' = [row EXCEPT ![t].pc = "Audit"]
  /\ UNCHANGED <<ring, mu, clock, steps, rows, latest>>

FinishAuthzChunk(t) ==
  /\ row[t].pc = "AuthzRows"
  /\ row' = [row EXCEPT ![t] = IdleRow]
  /\ UNCHANGED <<sessions, ring, mu, clock, steps, rows, latest>>

(***************************************************************************)
(* EmitAuditEvent takes the mutex for the push.                             *)
(***************************************************************************)
IsAuthz(t) == row[t].event.type \in {"AuthzAllow", "AuthzDeny"}

EmitAuditEvent(t) ==
  /\ row[t].pc = "Audit" /\ mu = Free
  /\ ring' = Push(ring, row[t].event)
  /\ row' = [row EXCEPT ![t] =
       IF row[t].refresh THEN [@ EXCEPT !.event = Event("JwksRefresh", ""), !.refresh = FALSE]
       ELSE [IdleRow EXCEPT !.pc = IF IsAuthz(t) THEN "AuthzRows" ELSE "Lock",
                            !.now = row[t].now, !.policy = row[t].policy, !.source = row[t].source]]
  /\ UNCHANGED <<sessions, mu, clock, steps, rows, latest>>

(***************************************************************************)
(* The specification.                                                       *)
(***************************************************************************)
Start(t) ==
  \/ StartTokenChunk(t)
  \/ \E source \in Sources : \E policy \in LoadPolicy(source) : StartAuthzChunk(t, source, policy)

\* With the mutex held, a chunk of check_token does not wait for anyone.
TokenRows(t) ==
  \/ AskProvider(t) \/ FinishTokenChunk(t) \/ RejectNull(t)
  \/ \E refresh \in BOOLEAN :
       \/ RejectToken(t, refresh)
       \/ \E sid \in Sids \cup {NoSid}, p \in Principals : AcceptToken(t, sid, p, refresh)

AuthzRows(t) ==
  \/ \E sid \in Sids : \/ DenyUnknown(t, sid) \/ FindExpired(t, sid)
                       \/ \E query \in Queries : Authorize(t, sid, query)
  \/ FinishAuthzChunk(t)

Next ==
  \/ \E d \in ClockDeltas : Tick(d)
  \/ \E t \in Threads : \/ Start(t) \/ Lock(t) \/ TokenRows(t) \/ ProviderAnswers(t)
                        \/ AuthzRows(t) \/ DropExpired(t) \/ EmitAuditEvent(t)

Spec == Init /\ [][Next]_vars

\* A chunk that has started runs on, the provider answers or times out, and a
\* thread that asks for the mutex is eventually given it.
Fairness ==
  \A t \in Threads : /\ WF_vars(TokenRows(t)) /\ WF_vars(ProviderAnswers(t))
                     /\ SF_vars(Lock(t)) /\ SF_vars(DropExpired(t)) /\ SF_vars(EmitAuditEvent(t))

FairSpec == Spec /\ Fairness

(***************************************************************************)
(* Properties.                                                              *)
(***************************************************************************)
LoadedPolicies == UNION {LoadPolicy(source) : source \in Sources}

RowTypeOK(r) ==
  /\ DOMAIN r = {"pc", "now", "policy", "source", "sid", "principal", "asked", "event", "refresh"}
  /\ r.pc \in {"Idle", "Lock", "Rows", "Http", "AuthzRows", "Drop", "Audit"}
  /\ r.now \in Nat /\ r.policy \in LoadedPolicies \cup {LoadFailed} /\ r.source \in Sources \cup {NoSource} /\ r.sid \in Sids \cup {NoSid}
  /\ r.principal \in Principals \cup {NoPrincipal} /\ r.event \in Events
  /\ r.asked \in BOOLEAN /\ r.refresh \in BOOLEAN

\* Every variable keeps its type, and exactly the thread that is between two
\* rows of a check_token chunk holds the mutex.
TypeOK ==
  /\ sessions \in [Sids -> [principal : Principals \cup {NoPrincipal}, updatedAt : Nat]]
  /\ RingTypeOK(ring, Events)
  /\ DOMAIN row = Threads /\ \A t \in Threads : RowTypeOK(row[t])
  /\ \A t \in Threads : row[t].pc = "Rows" <=> mu = t
  /\ clock \in Nat

\* A request is allowed only under the principal accepted last for its
\* session, which is unexpired at the chunk's reading of the clock, however
\* acceptances, renewals, evictions and other requests interleave.
AllowIsCurrent ==
  [][\A t \in Threads :
       row[t].pc = "AuthzRows" /\ row'[t].event.type = "AuthzAllow" =>
         LET p == row'[t].principal IN
         /\ latest[row'[t].sid] = {p}
         /\ p.exp = 0 \/ row[t].now <= p.exp + ClockSkewS]_vars

\* A request of a live session is decided as the policy table of its chunk
\* says, read as the operator reads it: the row of least priority that applies
\* decides on each object and column, all of them have to be allowed, and a
\* table that cannot be read or a query that cannot be parsed denies.
DecisionFollowsPolicy ==
  [][\A t \in Threads, sid \in Sids, query \in Queries :
       Authorize(t, sid, query) =>
         Follows(row'[t].event.type = "AuthzAllow", row[t].source, sessions[sid].principal, query)]_vars

\* b's session does not end before a's as far as the principals tell.
Outlasts(b, a) ==
  IF a.principal.exp > 0 THEN b.principal.exp = 0 \/ a.principal.exp <= b.principal.exp
  ELSE b.principal.exp = 0 /\ a.updatedAt <= b.updatedAt

\* Making room for a session costs exactly one session, and never one that
\* outlasts a session that stays.
EvictsFirstToExpire ==
  [][(\E t \in Threads : row[t].pc = "Rows" /\ row'[t].pc = "Audit") =>
       /\ Cardinality(Live(sessions')) <= MaxSessions
       /\ Cardinality(Live(sessions')) >= Cardinality(Live(sessions))
       /\ \A s \in Live(sessions) \ Live(sessions'), u \in Live(sessions') :
            Outlasts(sessions'[u], sessions[s])]_vars

\* The ring is the abstract window: whatever the order in which threads emit,
\* quack_oauth_audit_log() shows the most recent events, oldest first.
Audit == INSTANCE AuditWindow WITH window <- Snapshot(ring)
RingIsWindow == Audit!Spec

\* Every decision reaches the ring: no thread that emits waits for ever for
\* the mutex, its own least of all.
EveryDecisionEmitted ==
  \A t \in Threads : row[t].pc \in {"Drop", "Audit"} ~> row[t].pc \in {"Lock", "AuthzRows"}

(***************************************************************************)
(* What the documentation says and the code does not do.                    *)
(***************************************************************************)
\* README.md, level 5: SELECT * "is denied because `*` (the sentinel) only
\* matches a rule with `column_pattern='*'`".
StarNeedsStarRule ==
  [][\A t \in Threads, sid \in Sids, query \in Queries :
       Authorize(t, sid, query) /\ row[t].policy.kind = "table" /\ <<"*">> \in query.columns
         /\ row'[t].event.type = "AuthzAllow"
       => \E i \in DOMAIN row[t].policy.rules : row[t].policy.rules[i].columnPattern = <<"*">>]_vars

\* check_authorization_function.cpp: "if the wall clock is past it (plus
\* skew), drop the entry and deny".  Stated as: only an expired entry is dropped.
DropsOnlyExpired ==
  [][\A t \in Threads :
       row[t].pc = "Drop" /\ row'[t].pc = "Audit" /\ sessions[row[t].sid] # NoSession
         => IsPrincipalExpired(sessions[row[t].sid].principal, row[t].now)]_vars
==============================================================================
