-------------------------- MODULE SessionAuthzProofs --------------------------
(***************************************************************************)
(* For any number of threads, sessions, principals, policies and audit      *)
(* slots: the ring buffer implements the window of recent events, a request *)
(* is allowed only under the principal accepted last for its session,       *)
(* eviction keeps the sessions that last longest, and every decision is the *)
(* one that the policy table calls for.  What a table decides on a request  *)
(* is the subject of PolicyProofs; here it is carried through the steps     *)
(* between the reading of the table and the last decision of the chunk.     *)
(***************************************************************************)
EXTENDS SessionAuthz, PolicyProofs

(***************************************************************************)
(* The ring.                                                                *)
(***************************************************************************)
\* x modulo the capacity, for an x that has run past the end at most once.
Wrap(x) == IF x < Capacity THEN x ELSE x - Capacity

\* The arithmetic of the indices: one subtraction at most.
LEMMA WrapsOnce ==
  ASSUME NEW x \in 0..(2 * Capacity - 1)
  PROVE  x % Capacity = Wrap(x) /\ Wrap(x) \in 0..(Capacity - 1)
<1>1. CASE x < Capacity
  BY <1>1, RingAssumption DEF Wrap
<1>2. CASE ~(x < Capacity)
  <2>1. Capacity \in Nat \ {0} /\ x \in Capacity..(2 * Capacity - 1)
    BY <1>2, RingAssumption
  <2>2. x % Capacity = x - Capacity
    BY <2>1
  <2> QED BY <1>2, <2>1, <2>2 DEF Wrap
<1> QED BY <1>1, <1>2

\* The oldest valid slot.
First(r) == Wrap(r.head + Capacity - r.count)

\* AuditRing::Snapshot without the modulus.
LEMMA SnapshotIs ==
  ASSUME NEW E, NEW r, RingTypeOK(r, E)
  PROVE  /\ First(r) \in 0..(Capacity - 1)
         /\ \A i \in 1..r.count : Wrap(First(r) + (i - 1)) \in 0..(Capacity - 1)
         /\ Snapshot(r) = [i \in 1..r.count |-> r.slots[Wrap(First(r) + (i - 1))]]
<1>1. Capacity \in Nat \ {0} /\ r.head \in 0..(Capacity - 1) /\ r.count \in 0..Capacity
  BY RingAssumption DEF RingTypeOK
<1>2. r.head + Capacity - r.count \in 0..(2 * Capacity - 1)
  BY <1>1
<1>3. (r.head + Capacity - r.count) % Capacity = First(r) /\ First(r) \in 0..(Capacity - 1)
  BY <1>2, WrapsOnce DEF First
<1>4. \A i \in 1..r.count : /\ (First(r) + (i - 1)) % Capacity = Wrap(First(r) + (i - 1))
                            /\ Wrap(First(r) + (i - 1)) \in 0..(Capacity - 1)
  <2> TAKE i \in 1..r.count
  <2>1. First(r) + (i - 1) \in 0..(2 * Capacity - 1)
    BY <1>1, <1>3
  <2> QED BY <2>1, WrapsOnce
<1> QED BY <1>3, <1>4 DEF Snapshot

\* A snapshot is a sequence of events as long as the count says.
LEMMA SnapshotLength ==
  ASSUME NEW E, NEW r, RingTypeOK(r, E)
  PROVE  Snapshot(r) \in Seq(E \cup {NoEvent}) /\ Len(Snapshot(r)) = r.count
<1>1. r.count \in Nat
  BY RingAssumption DEF RingTypeOK
<1>2. \A i \in 1..r.count : r.slots[Wrap(First(r) + (i - 1))] \in E \cup {NoEvent}
  BY SnapshotIs DEF RingTypeOK
<1>3. Snapshot(r) \in [1..r.count -> E \cup {NoEvent}]
  BY <1>2, SnapshotIs
<1> QED BY <1>1, <1>3

\* What Push leaves of the ring.
LEMMA PushIs ==
  ASSUME NEW E, NEW r, RingTypeOK(r, E), NEW e \in E
  PROVE  /\ RingTypeOK(Push(r, e), E)
         /\ Push(r, e).slots = [r.slots EXCEPT ![r.head] = e]
         /\ Push(r, e).head = Wrap(r.head + 1)
         /\ Push(r, e).count = IF r.count < Capacity THEN r.count + 1 ELSE r.count
<1>1. Capacity \in Nat \ {0} /\ r.head \in 0..(Capacity - 1) /\ r.count \in 0..Capacity
  BY RingAssumption DEF RingTypeOK
<1>2. r.head + 1 \in 0..(2 * Capacity - 1)
  BY <1>1
<1>3. (r.head + 1) % Capacity = Wrap(r.head + 1) /\ Wrap(r.head + 1) \in 0..(Capacity - 1)
  BY <1>2, WrapsOnce
<1>4. DOMAIN r = {"slots", "head", "count"} /\ r.slots \in [0..(Capacity - 1) -> E \cup {NoEvent}]
  BY DEF RingTypeOK
<1>5. /\ DOMAIN Push(r, e) = DOMAIN r
      /\ Push(r, e).slots = [r.slots EXCEPT ![r.head] = e]
      /\ Push(r, e).head = (r.head + 1) % Capacity
      /\ Push(r, e).count = IF r.count < Capacity THEN r.count + 1 ELSE r.count
  BY <1>4 DEF Push
<1>6. Push(r, e).count \in 0..Capacity
  BY <1>1, <1>5
<1>7. Push(r, e).slots \in [0..(Capacity - 1) -> E \cup {NoEvent}]
  BY <1>1, <1>4, <1>5
<1> QED BY <1>3, <1>4, <1>5, <1>6, <1>7 DEF RingTypeOK

\* The indices of the window: a push into a ring with room leaves its start
\* alone and writes behind its end; a push into a full ring writes its start.
LEMMA Indices ==
  ASSUME NEW h \in 0..(Capacity - 1), NEW c \in 0..Capacity
  PROVE  /\ c < Capacity => Wrap(Wrap(h + 1) + Capacity - (c + 1)) = Wrap(h + Capacity - c)
         /\ c < Capacity => Wrap(Wrap(h + Capacity - c) + c) = h
         /\ c < Capacity => \A i \in 1..c : /\ Wrap(Wrap(h + Capacity - c) + (i - 1)) \in 0..(Capacity - 1)
                                            /\ Wrap(Wrap(h + Capacity - c) + (i - 1)) # h
         /\ c = Capacity => Wrap(h + Capacity - c) = h /\ Wrap(Wrap(h + 1) + Capacity - c) = Wrap(h + 1)
<1>1. Capacity \in Nat \ {0}
  BY RingAssumption
<1> DEFINE a == Wrap(h + Capacity - c)
<1>2. a = IF h < c THEN h + Capacity - c ELSE h - c
  BY <1>1 DEF Wrap
<1>3. Wrap(h + 1) = IF h + 1 < Capacity THEN h + 1 ELSE 0
  BY <1>1 DEF Wrap
<1> DEFINE b == Wrap(h + 1)
<1> HIDE DEF a, b
<1>4. a \in Nat /\ b \in Nat /\ b = IF h + 1 < Capacity THEN h + 1 ELSE 0
  BY <1>1, <1>2, <1>3 DEF b
<1>5. ASSUME c < Capacity PROVE Wrap(b + Capacity - (c + 1)) = a
  BY <1>1, <1>2, <1>4, <1>5 DEF Wrap
<1>6. ASSUME c < Capacity PROVE Wrap(a + c) = h
  BY <1>1, <1>2, <1>4, <1>6 DEF Wrap
<1>7. ASSUME c < Capacity, NEW i \in 1..c
      PROVE  Wrap(a + (i - 1)) \in 0..(Capacity - 1) /\ Wrap(a + (i - 1)) # h
  BY <1>1, <1>2, <1>4, <1>7 DEF Wrap
<1>8. ASSUME c = Capacity PROVE a = h /\ Wrap(b + Capacity - c) = b
  BY <1>1, <1>2, <1>4, <1>8 DEF Wrap
<1> QED BY <1>5, <1>6, <1>7, <1>8 DEF a, b

\* Append as a function of the index.
LEMMA AppendIs ==
  ASSUME NEW S, NEW s \in Seq(S), NEW e \in S, NEW n, Len(s) = n
  PROVE  Append(s, e) = [i \in 1..(n + 1) |-> IF i <= n THEN s[i] ELSE e]
<1> DEFINE u == Append(s, e)
           g == [i \in 1..(n + 1) |-> IF i <= n THEN s[i] ELSE e]
<1>1. n \in Nat /\ \A i \in 1..n : s[i] \in S
  BY LenProperties
<1>2. u \in Seq(S) /\ Len(u) = n + 1 /\ (\A i \in 1..n : u[i] = s[i]) /\ u[n + 1] = e
  BY AppendProperties
<1> HIDE DEF u
<1>3. u \in [1..(n + 1) -> S]
  BY <1>2, LenProperties
<1>4. \A i \in 1..(n + 1) : i <= n => i \in 1..n
  BY <1>1
<1>5. \A i \in 1..(n + 1) : ~(i <= n) => i = n + 1
  BY <1>1
<1>6. \A i \in 1..(n + 1) : u[i] = g[i]
  <2> TAKE i \in 1..(n + 1)
  <2>1. CASE i <= n
    BY <1>2, <1>4, <2>1
  <2>2. CASE ~(i <= n)
    BY <1>2, <1>5, <2>2
  <2> QED BY <2>1, <2>2
<1>7. u = g
  BY <1>3, <1>6
<1> QED BY <1>7 DEF u

\* Push appends to the window and drops the oldest event of a full one.
LEMMA PushMovesWindow ==
  ASSUME NEW E, NEW r, RingTypeOK(r, E), NEW e \in E
  PROVE  Snapshot(Push(r, e)) = IF Len(Snapshot(r)) < Capacity THEN Append(Snapshot(r), e)
                                ELSE Append(Tail(Snapshot(r)), e)
<1> DEFINE p == Push(r, e)
           w == Snapshot(r)
           a == First(r)
<1>1. /\ Capacity \in Nat \ {0} /\ r.head \in 0..(Capacity - 1) /\ r.count \in 0..Capacity
      /\ r.slots \in [0..(Capacity - 1) -> E \cup {NoEvent}]
  BY RingAssumption DEF RingTypeOK
<1>2. /\ RingTypeOK(p, E) /\ p.slots = [r.slots EXCEPT ![r.head] = e] /\ p.head = Wrap(r.head + 1)
      /\ p.count = IF r.count < Capacity THEN r.count + 1 ELSE r.count
  BY PushIs
<1>3. w \in Seq(E \cup {NoEvent}) /\ Len(w) = r.count
  BY SnapshotLength
<1>4. a \in 0..(Capacity - 1) /\ \A i \in 1..r.count : w[i] = r.slots[Wrap(a + (i - 1))]
  BY SnapshotIs
<1>5. Snapshot(p) = [i \in 1..p.count |-> p.slots[Wrap(First(p) + (i - 1))]]
  BY <1>2, SnapshotIs
<1>6. a = Wrap(r.head + Capacity - r.count) /\ First(p) = Wrap(p.head + Capacity - p.count)
  BY DEF First
<1> HIDE DEF p, w, a
<1>7. CASE r.count < Capacity
  <2>0. /\ Wrap(Wrap(r.head + 1) + Capacity - (r.count + 1)) = Wrap(r.head + Capacity - r.count)
        /\ Wrap(Wrap(r.head + Capacity - r.count) + r.count) = r.head
    BY <1>1, <1>7, Indices, Zenon
  <2>1. First(p) = a /\ p.count = r.count + 1
    <3>1. p.count = r.count + 1
      BY <1>2, <1>7
    <3>2. First(p) = Wrap(Wrap(r.head + 1) + Capacity - (r.count + 1))
      BY <1>2, <1>6, <3>1, Zenon
    <3> QED BY <1>6, <2>0, <3>1, <3>2, Zenon
  <2>2. \A i \in 1..r.count : Wrap(a + (i - 1)) \in 0..(Capacity - 1) /\ Wrap(a + (i - 1)) # r.head
    BY <1>1, <1>6, <1>7, Indices
  <2>3. Wrap(a + r.count) = r.head
    BY <1>6, <2>0, Zenon
  <2>4. \A i \in 1..r.count : p.slots[Wrap(a + (i - 1))] = w[i]
    BY <1>1, <1>2, <1>4, <2>2
  <2>5. p.slots[r.head] = e
    BY <1>1, <1>2
  <2>6. \A i \in 1..(r.count + 1) :
          p.slots[Wrap(a + (i - 1))] = IF i <= r.count THEN w[i] ELSE e
    <3> TAKE i \in 1..(r.count + 1)
    <3>1. CASE i <= r.count
      <4>1. i \in 1..r.count
        BY <1>1, <3>1
      <4> QED BY <3>1, <4>1, <2>4
    <3>2. CASE ~(i <= r.count)
      <4>1. i - 1 = r.count
        BY <1>1, <3>2
      <4>2. Wrap(a + (i - 1)) = r.head
        BY <2>3, <4>1
      <4> QED BY <3>2, <4>2, <2>5
    <3> QED BY <3>1, <3>2
  <2>7. Append(w, e) = [i \in 1..(r.count + 1) |-> IF i <= r.count THEN w[i] ELSE e]
    BY <1>3, AppendIs
  <2>8. Snapshot(p) = [i \in 1..(r.count + 1) |-> p.slots[Wrap(a + (i - 1))]]
    BY <1>5, <2>1
  <2>9. Snapshot(p) = Append(w, e)
    BY <2>6, <2>7, <2>8
  <2> QED BY <1>3, <1>7, <2>9 DEF p, w
<1>8. CASE ~(r.count < Capacity)
  <2>1. r.count = Capacity /\ p.count = Capacity /\ a = r.head /\ First(p) = Wrap(r.head + 1)
    BY <1>1, <1>2, <1>4, <1>6, <1>8 DEF Wrap
  <2>2. \A i \in 1..(Capacity - 1) : /\ Wrap(Wrap(r.head + 1) + (i - 1)) = Wrap(a + ((i + 1) - 1))
                                     /\ Wrap(a + ((i + 1) - 1)) \in 0..(Capacity - 1)
                                     /\ Wrap(a + ((i + 1) - 1)) # r.head
    BY <1>1, <2>1 DEF Wrap
  <2>3. Wrap(Wrap(r.head + 1) + (Capacity - 1)) = r.head
    BY <1>1 DEF Wrap
  <2>4. \A i \in 1..(Capacity - 1) : p.slots[Wrap(Wrap(r.head + 1) + (i - 1))] = w[i + 1]
    <3> TAKE i \in 1..(Capacity - 1)
    <3>1. i + 1 \in 1..r.count
      BY <1>1, <2>1
    <3>2. w[i + 1] = r.slots[Wrap(a + ((i + 1) - 1))]
      BY <1>4, <3>1
    <3>3. p.slots[Wrap(a + ((i + 1) - 1))] = r.slots[Wrap(a + ((i + 1) - 1))]
      BY <1>1, <1>2, <2>2
    <3> QED BY <2>2, <3>2, <3>3
  <2>5. p.slots[r.head] = e
    BY <1>1, <1>2
  <2> DEFINE tl == Tail(w)
  <2>6. tl \in Seq(E \cup {NoEvent}) /\ Len(tl) = Capacity - 1 /\ \A i \in 1..(Capacity - 1) : tl[i] = w[i + 1]
    <3>1. w # <<>>
      BY <1>1, <1>3, <2>1
    <3>2. Len(w) = Capacity /\ Capacity \in Nat \ {0}
      BY <1>1, <1>3, <2>1
    <3> QED BY <1>3, <3>1, <3>2, HeadTailProperties
  <2> HIDE DEF tl
  <2>7. Append(tl, e) = [i \in 1..Capacity |-> IF i <= Capacity - 1 THEN tl[i] ELSE e]
    <3>1. Append(tl, e) = [i \in 1..((Capacity - 1) + 1) |-> IF i <= Capacity - 1 THEN tl[i] ELSE e]
      BY <2>6, AppendIs
    <3>2. (Capacity - 1) + 1 = Capacity
      BY <1>1
    <3> QED BY <3>1, <3>2
  <2>8. \A i \in 1..Capacity :
          p.slots[Wrap(Wrap(r.head + 1) + (i - 1))] = IF i <= Capacity - 1 THEN tl[i] ELSE e
    <3> TAKE i \in 1..Capacity
    <3>1. CASE i <= Capacity - 1
      <4>1. i \in 1..(Capacity - 1)
        BY <1>1, <3>1
      <4> QED BY <3>1, <4>1, <2>4, <2>6
    <3>2. CASE ~(i <= Capacity - 1)
      <4>1. i - 1 = Capacity - 1
        BY <1>1, <3>2
      <4>2. Wrap(Wrap(r.head + 1) + (i - 1)) = r.head
        BY <2>3, <4>1
      <4> QED BY <3>2, <4>2, <2>5
    <3> QED BY <3>1, <3>2
  <2>9. Snapshot(p) = [i \in 1..Capacity |-> p.slots[Wrap(Wrap(r.head + 1) + (i - 1))]]
    BY <1>5, <2>1
  <2>10. Snapshot(p) = Append(tl, e)
    BY <2>7, <2>8, <2>9
  <2> QED BY <1>3, <1>8, <2>10 DEF p, w, tl
<1> QED BY <1>7, <1>8

(***************************************************************************)
(* The inductive invariant.                                                 *)
(***************************************************************************)
\* A chunk has read a clock that shows at least 1, and a thread between two
\* rows of check_authorization has no event in hand.
RowInv(r) ==
  /\ RowTypeOK(r)
  /\ r.pc # "Idle" => r.now >= 1
  /\ r.pc \in {"Idle", "AuthzRows"} => r.event = NoEvent

RowsInv == DOMAIN row = Threads /\ \A t \in Threads : RowInv(row[t])

MutexInv == \A t \in Threads : row[t].pc = "Rows" <=> mu = t

ClockInv == clock \in Nat /\ clock >= 1

SessionType == [principal : Principals \cup {NoPrincipal}, updatedAt : Nat]

\* What is filed under a session id was accepted last for it.
SessionsCurrent ==
  /\ sessions \in [Sids -> SessionType]
  /\ DOMAIN latest = Sids
  /\ \A s \in Sids : sessions[s] # NoSession => latest[s] = {sessions[s].principal}

SessionsBounded == IsFiniteSet(Live(sessions)) /\ Cardinality(Live(sessions)) <= MaxSessions

AuthzInv ==
  RowsInv /\ MutexInv /\ ClockInv /\ RingTypeOK(ring, Events) /\ SessionsCurrent /\ SessionsBounded

\* The events that the callbacks emit.
LEMMA EventTypes ==
  /\ \A p \in Principals \cup {NoPrincipal} :
       Event("TokenAccepted", p.sub) \in Events /\ Event("AuthzAllow", p.sub) \in Events
         /\ Event("AuthzDeny", p.sub) \in Events
  /\ Event("TokenRejected", "") \in Events /\ Event("JwksRefresh", "") \in Events
  /\ NoEvent \in Events
<1> DEFINE subs == {q.sub : q \in Principals} \cup {""}
<1>1. ASSUME NEW p \in Principals \cup {NoPrincipal} PROVE p.sub \in subs
  <2>1. NoPrincipal.sub = ""
    BY DEF NoPrincipal
  <2>2. \A q \in Principals : q.sub \in subs
    OBVIOUS
  <2> QED BY <2>1, <2>2
<1>2. NoEvent = Event("TokenRejected", "")
  BY DEF NoEvent, Event
<1> DEFINE types == {"TokenAccepted", "TokenRejected", "JwksRefresh", "AuthzAllow", "AuthzDeny"}
<1>3. ASSUME NEW type \in types, NEW sub \in subs PROVE Event(type, sub) \in Events
  BY DEF Events, Event
<1>4. "" \in subs
  OBVIOUS
<1> HIDE DEF subs
<1>5. Event("TokenRejected", "") \in Events /\ Event("JwksRefresh", "") \in Events
  BY <1>3, <1>4
<1>6. ASSUME NEW p \in Principals \cup {NoPrincipal}
      PROVE  /\ Event("TokenAccepted", p.sub) \in Events /\ Event("AuthzAllow", p.sub) \in Events
             /\ Event("AuthzDeny", p.sub) \in Events
  BY <1>1, <1>3
<1> QED BY <1>2, <1>5, <1>6

\* The expiry of whatever a session may hold.
LEMMA ExpiryType == \A p \in Principals \cup {NoPrincipal} : p.exp \in Nat
<1>1. NoPrincipal.exp = 0
  BY DEF NoPrincipal
<1>2. \A p \in Principals : p.exp \in Nat
  BY AuthzAssumption
<1> QED BY <1>1, <1>2

\* A thread that is not in a callback.
LEMMA IdleRowInv == RowInv(IdleRow) /\ IdleRow.pc = "Idle"
<1>1. NoEvent \in Events
  BY EventTypes
<1> DEFINE r == IdleRow
<1>2. /\ DOMAIN r = {"pc", "now", "policy", "source", "sid", "principal", "asked", "event", "refresh"}
      /\ r.pc = "Idle" /\ r.now = 0 /\ r.policy = LoadFailed /\ r.source = NoSource /\ r.sid = NoSid
      /\ r.principal = NoPrincipal /\ r.asked = FALSE /\ r.event = NoEvent /\ r.refresh = FALSE
  BY DEF IdleRow
<1> HIDE DEF r
<1>3. r.asked \in BOOLEAN /\ r.refresh \in BOOLEAN
  BY <1>2
<1>4. /\ r.policy \in LoadedPolicies \cup {LoadFailed} /\ r.source \in Sources \cup {NoSource}
      /\ r.sid \in Sids \cup {NoSid} /\ r.principal \in Principals \cup {NoPrincipal} /\ r.event \in Events
  BY <1>1, <1>2
<1>5. r.pc = "Idle" /\ r.now \in Nat /\ r.event = NoEvent
  BY <1>2
<1>6. RowInv(r)
  BY <1>2, <1>3, <1>4, <1>5 DEF RowInv, RowTypeOK
<1> QED BY <1>2, <1>6 DEF r

\* One thread moves, and takes, keeps off or gives back the mutex as it does.
LEMMA Moved ==
  ASSUME RowsInv, MutexInv, NEW t \in Threads, NEW r, RowInv(r), row' = [row EXCEPT ![t] = r],
         \/ row[t].pc # "Rows" /\ r.pc # "Rows" /\ mu' = mu
         \/ row[t].pc = "Rows" /\ r.pc # "Rows" /\ mu' = Free
         \/ mu = Free /\ r.pc = "Rows" /\ mu' = t
  PROVE  RowsInv' /\ MutexInv'
<1>1. Free \notin Threads
  BY AuthzAssumption DEF Free
<1>2. row'[t] = r /\ DOMAIN row' = Threads /\ \A u \in Threads \ {t} : row'[u] = row[u]
  BY DEF RowsInv
<1>3. RowsInv'
  BY <1>2 DEF RowsInv
<1>4. MutexInv'
  BY <1>1, <1>2 DEF MutexInv
<1> QED BY <1>3, <1>4

\* Starting a chunk, waiting for the lock and for the provider.
LEMMA ChunkSteps ==
  ASSUME AuthzInv, NEW t \in Threads, Start(t) \/ Lock(t) \/ ProviderAnswers(t)
  PROVE  RowsInv' /\ MutexInv'
<1>1. RowInv(row[t]) /\ RowsInv /\ MutexInv /\ ClockInv
  BY DEF AuthzInv, RowsInv
<1>2. ASSUME StartTokenChunk(t) PROVE RowsInv' /\ MutexInv'
  <2> DEFINE r == [row[t] EXCEPT !.pc = "Lock", !.now = clock]
  <2>1. row[t].pc = "Idle" /\ mu' = mu /\ row' = [row EXCEPT ![t] = r]
    BY <1>1, <1>2 DEF StartTokenChunk, RowsInv
  <2>2. RowInv(r) /\ r.pc = "Lock"
    BY <1>1, <2>1 DEF RowInv, RowTypeOK, ClockInv
  <2> HIDE DEF r
  <2> QED BY <1>1, <2>1, <2>2, Moved
<1>3. ASSUME NEW source \in Sources, NEW policy \in LoadPolicy(source), StartAuthzChunk(t, source, policy)
      PROVE  RowsInv' /\ MutexInv'
  <2> DEFINE r == [row[t] EXCEPT !.pc = "AuthzRows", !.now = clock, !.policy = policy, !.source = source]
  <2>1. row[t].pc = "Idle" /\ mu' = mu /\ row' = [row EXCEPT ![t] = r]
    BY <1>1, <1>3 DEF StartAuthzChunk, RowsInv
  <2>2. policy \in LoadedPolicies
    BY <1>3 DEF LoadedPolicies
  <2>3. RowInv(r) /\ r.pc = "AuthzRows"
    BY <1>1, <2>1, <2>2 DEF RowInv, RowTypeOK, ClockInv
  <2> HIDE DEF r
  <2> QED BY <1>1, <2>1, <2>3, Moved
<1>4. ASSUME Lock(t) PROVE RowsInv' /\ MutexInv'
  <2> DEFINE r == [row[t] EXCEPT !.pc = "Rows"]
  <2>1. row[t].pc = "Lock" /\ mu = Free /\ mu' = t /\ row' = [row EXCEPT ![t] = r]
    BY <1>1, <1>4 DEF Lock, RowsInv
  <2>2. RowInv(r) /\ r.pc = "Rows"
    BY <1>1, <2>1 DEF RowInv, RowTypeOK
  <2> HIDE DEF r
  <2> QED BY <1>1, <2>1, <2>2, Moved
<1>5. ASSUME ProviderAnswers(t) PROVE RowsInv' /\ MutexInv'
  <2> DEFINE r == [row[t] EXCEPT !.pc = "Lock"]
  <2>1. row[t].pc = "Http" /\ mu' = mu /\ row' = [row EXCEPT ![t] = r]
    BY <1>1, <1>5 DEF ProviderAnswers, RowsInv
  <2>2. RowInv(r) /\ r.pc = "Lock"
    BY <1>1, <2>1 DEF RowInv, RowTypeOK
  <2> HIDE DEF r
  <2> QED BY <1>1, <2>1, <2>2, Moved
<1> QED BY <1>2, <1>3, <1>4, <1>5 DEF Start

\* A decided row of check_token leaves with its event and without the mutex.
LEMMA DecideStep ==
  ASSUME AuthzInv, NEW t \in Threads, NEW event \in Events, NEW refresh \in BOOLEAN, Decide(t, event, refresh)
  PROVE  RowsInv' /\ MutexInv'
<1>1. RowInv(row[t]) /\ RowsInv /\ MutexInv
  BY DEF AuthzInv, RowsInv
<1> DEFINE r == [row[t] EXCEPT !.pc = "Audit", !.asked = FALSE, !.event = event, !.refresh = refresh]
<1>2. row[t].pc = "Rows" /\ mu' = Free /\ row' = [row EXCEPT ![t] = r]
  BY <1>1 DEF Decide, RowsInv
<1>3. RowInv(r) /\ r.pc = "Audit"
  BY <1>1, <1>2 DEF RowInv, RowTypeOK
<1> HIDE DEF r
<1> QED BY <1>1, <1>2, <1>3, Moved

\* The rows of a check_token chunk.
LEMMA TokenRowsSteps ==
  ASSUME AuthzInv, NEW t \in Threads, TokenRows(t)
  PROVE  RowsInv' /\ MutexInv'
<1>1. RowInv(row[t]) /\ RowsInv /\ MutexInv
  BY DEF AuthzInv, RowsInv
<1>2. ASSUME AskProvider(t) PROVE RowsInv' /\ MutexInv'
  <2> DEFINE r == [row[t] EXCEPT !.pc = "Http", !.asked = TRUE]
  <2>1. row[t].pc = "Rows" /\ mu' = Free /\ row' = [row EXCEPT ![t] = r]
    BY <1>1, <1>2 DEF AskProvider, RowsInv
  <2>2. RowInv(r) /\ r.pc = "Http"
    BY <1>1, <2>1 DEF RowInv, RowTypeOK
  <2> HIDE DEF r
  <2> QED BY <1>1, <2>1, <2>2, Moved
<1>3. ASSUME FinishTokenChunk(t) PROVE RowsInv' /\ MutexInv'
  <2>1. row[t].pc = "Rows" /\ mu' = Free /\ row' = [row EXCEPT ![t] = IdleRow]
    BY <1>3 DEF FinishTokenChunk
  <2>2. "Idle" # "Rows"
    OBVIOUS
  <2> QED BY <1>1, <2>1, <2>2, Moved, IdleRowInv
<1>4. ASSUME RejectNull(t) PROVE RowsInv' /\ MutexInv'
  BY <1>1, <1>4 DEF RejectNull, RowsInv, MutexInv
<1>5. ASSUME NEW refresh \in BOOLEAN, RejectToken(t, refresh) PROVE RowsInv' /\ MutexInv'
  BY <1>5, DecideStep, EventTypes DEF RejectToken
<1>6. ASSUME NEW refresh \in BOOLEAN, NEW sid \in Sids \cup {NoSid}, NEW p \in Principals,
             AcceptToken(t, sid, p, refresh)
      PROVE  RowsInv' /\ MutexInv'
  <2>1. Event("TokenAccepted", p.sub) \in Events
    BY EventTypes
  <2> QED BY <1>6, <2>1, DecideStep DEF AcceptToken
<1> QED BY <1>2, <1>3, <1>4, <1>5, <1>6 DEF TokenRows

\* The rows of a check_authorization chunk, with the copy of the principal.
LEMMA GoOnStep ==
  ASSUME AuthzInv, NEW t \in Threads, NEW sid \in Sids, NEW pc \in {"Audit", "Drop"},
         NEW type \in {"AuthzAllow", "AuthzDeny"}, ReadPrincipal(t, sid), GoOn(t, sid, pc, type)
  PROVE  RowsInv' /\ MutexInv'
<1>1. RowInv(row[t]) /\ RowsInv /\ MutexInv
  BY DEF AuthzInv, RowsInv
<1> DEFINE p == sessions[sid].principal
           e == Event(type, p.sub)
           r == [row[t] EXCEPT !.pc = pc, !.sid = sid, !.principal = p, !.event = e]
<1>2. row[t].pc = "AuthzRows" /\ mu' = mu /\ row' = [row EXCEPT ![t] = r]
  BY <1>1 DEF ReadPrincipal, GoOn, RowsInv
<1>3. p \in Principals \cup {NoPrincipal}
  BY DEF AuthzInv, SessionsCurrent, SessionType
<1> HIDE DEF p
<1>4. e \in Events
  BY <1>3, EventTypes
<1> HIDE DEF e
<1>5. RowInv(r) /\ r.pc = pc
  BY <1>1, <1>2, <1>3, <1>4 DEF RowInv, RowTypeOK
<1> HIDE DEF r
<1> QED BY <1>1, <1>2, <1>5, Moved

\* check_authorization, from the lookup to the erasure of an expired session.
LEMMA AuthzRowsSteps ==
  ASSUME AuthzInv, NEW t \in Threads, AuthzRows(t) \/ DropExpired(t)
  PROVE  RowsInv' /\ MutexInv'
<1>1. RowInv(row[t]) /\ RowsInv /\ MutexInv
  BY DEF AuthzInv, RowsInv
<1>2. ASSUME NEW sid \in Sids, DenyUnknown(t, sid) PROVE RowsInv' /\ MutexInv'
  BY <1>2, GoOnStep DEF DenyUnknown
<1>3. ASSUME NEW sid \in Sids, FindExpired(t, sid) PROVE RowsInv' /\ MutexInv'
  BY <1>3, GoOnStep DEF FindExpired
<1>4. ASSUME NEW sid \in Sids, NEW query \in Queries, Authorize(t, sid, query) PROVE RowsInv' /\ MutexInv'
  <2>1. \E type \in {"AuthzAllow", "AuthzDeny"} : ReadPrincipal(t, sid) /\ GoOn(t, sid, "Audit", type)
    BY <1>4 DEF Authorize
  <2> QED BY <2>1, GoOnStep
<1>5. ASSUME FinishAuthzChunk(t) PROVE RowsInv' /\ MutexInv'
  <2>1. row[t].pc = "AuthzRows" /\ mu' = mu /\ row' = [row EXCEPT ![t] = IdleRow]
    BY <1>5 DEF FinishAuthzChunk
  <2>2. "Idle" # "Rows" /\ "AuthzRows" # "Rows"
    OBVIOUS
  <2> QED BY <1>1, <2>1, <2>2, Moved, IdleRowInv
<1>6. ASSUME DropExpired(t) PROVE RowsInv' /\ MutexInv'
  <2> DEFINE r == [row[t] EXCEPT !.pc = "Audit"]
  <2>1. row[t].pc = "Drop" /\ mu' = mu /\ row' = [row EXCEPT ![t] = r]
    BY <1>1, <1>6 DEF DropExpired, RowsInv
  <2>2. RowInv(r) /\ r.pc = "Audit"
    BY <1>1, <2>1 DEF RowInv, RowTypeOK
  <2> HIDE DEF r
  <2> QED BY <1>1, <2>1, <2>2, Moved
<1> QED BY <1>2, <1>3, <1>4, <1>5, <1>6 DEF AuthzRows

\* EmitAuditEvent, with or without a JwksRefresh event to follow.
LEMMA EmitStep ==
  ASSUME AuthzInv, NEW t \in Threads, EmitAuditEvent(t)
  PROVE  RowsInv' /\ MutexInv' /\ RingTypeOK(ring, Events)'
<1>1. RowInv(row[t]) /\ RowsInv /\ MutexInv /\ RingTypeOK(ring, Events)
  BY DEF AuthzInv, RowsInv
<1>2. row[t].pc = "Audit" /\ mu' = mu /\ ring' = Push(ring, row[t].event) /\ row[t].event \in Events
  BY <1>1 DEF EmitAuditEvent, RowInv, RowTypeOK
<1>3. RingTypeOK(ring, Events)'
  <2>1. RingTypeOK(Push(ring, row[t].event), Events)
    BY <1>1, <1>2, PushIs
  <2>2. RingTypeOK(ring', Events)
    BY <1>2, <2>1
  <2> QED BY <2>2 DEF RingTypeOK, Events
<1>4. CASE row[t].refresh
  <2> DEFINE e == Event("JwksRefresh", "")
             r == [row[t] EXCEPT !.event = e, !.refresh = FALSE]
  <2>1. row' = [row EXCEPT ![t] = r]
    BY <1>1, <1>4 DEF EmitAuditEvent, RowsInv
  <2>2. e \in Events
    BY EventTypes
  <2> HIDE DEF e
  <2>3. RowInv(r) /\ r.pc = "Audit"
    BY <1>1, <1>2, <2>2 DEF RowInv, RowTypeOK
  <2> HIDE DEF r
  <2> QED BY <1>1, <1>2, <1>3, <2>1, <2>3, Moved
<1>5. CASE ~row[t].refresh
  <2> DEFINE pc == IF IsAuthz(t) THEN "AuthzRows" ELSE "Lock"
             r == [IdleRow EXCEPT !.pc = pc, !.now = row[t].now, !.policy = row[t].policy,
                                  !.source = row[t].source]
  <2>1. row' = [row EXCEPT ![t] = r]
    BY <1>1, <1>5 DEF EmitAuditEvent, RowsInv
  <2>2. pc \in {"AuthzRows", "Lock"}
    OBVIOUS
  <2> HIDE DEF pc
  <2>3. RowInv(IdleRow) /\ IdleRow.event = NoEvent
    BY IdleRowInv DEF RowInv
  <2>4. RowInv(r) /\ r.pc = pc
    BY <1>1, <1>2, <2>2, <2>3 DEF RowInv, RowTypeOK
  <2> HIDE DEF r
  <2> QED BY <1>1, <1>2, <1>3, <2>1, <2>2, <2>4, Moved
<1> QED BY <1>4, <1>5

(***************************************************************************)
(* session_principals.                                                      *)
(***************************************************************************)
\* The scan's order is the order in which sessions end.
LEMMA FirstEndsFirst ==
  ASSUME NEW a \in SessionType, NEW b \in SessionType, ~GoesFirst(b, a)
  PROVE  Outlasts(b, a)
<1>1. a.principal.exp \in Nat /\ b.principal.exp \in Nat /\ a.updatedAt \in Nat /\ b.updatedAt \in Nat
  BY ExpiryType DEF SessionType
<1> QED BY <1>1 DEF GoesFirst, Outlasts

\* StoreSessionPrincipal, with the one eviction it may cost.
LEMMA StoreKeeps ==
  ASSUME SessionsCurrent, SessionsBounded, NEW sid \in Sids, NEW p \in Principals, NEW now \in Nat, now >= 1,
         NEW n \in StoreSessionPrincipal(sid, p, now)
  PROVE  /\ n \in [Sids -> SessionType]
         /\ n[sid] # NoSession => n[sid].principal = p
         /\ \A s \in Sids \ {sid} : n[s] = NoSession \/ n[s] = sessions[s]
         /\ IsFiniteSet(Live(n))
         /\ Cardinality(Live(n)) <= MaxSessions /\ Cardinality(Live(sessions)) <= Cardinality(Live(n))
         /\ \A s \in Live(sessions) \ Live(n), u \in Live(n) : Outlasts(n[u], sessions[s])
<1> DEFINE new == [principal |-> p, updatedAt |-> now]
           m == [sessions EXCEPT ![sid] = new]
<1>1. new \in SessionType /\ new.principal = p /\ new # NoSession
  BY DEF SessionType, NoSession
<1>2. sessions \in [Sids -> SessionType] /\ NoSession \in SessionType
  BY DEF SessionsCurrent, SessionType, NoSession
<1>3. n \in IF Cardinality(Live(m)) > MaxSessions THEN {[m EXCEPT ![v] = NoSession] : v \in Victims(m)} ELSE {m}
  BY DEF StoreSessionPrincipal
<1> HIDE DEF new
<1>4. m \in [Sids -> SessionType] /\ m[sid] = new /\ \A s \in Sids \ {sid} : m[s] = sessions[s]
  BY <1>1, <1>2
<1> HIDE DEF m
<1>5. Live(m) = Live(sessions) \cup {sid}
  BY <1>1, <1>4 DEF Live
<1> DEFINE L == Live(sessions)
           c == Cardinality(L)
<1>6. IsFiniteSet(L) /\ c <= MaxSessions /\ c \in Nat /\ MaxSessions \in Nat
  BY AuthzAssumption, FS_CardinalityType DEF SessionsBounded
<1>7. /\ IsFiniteSet(Live(m)) /\ Cardinality(Live(m)) \in Nat /\ c <= Cardinality(Live(m))
      /\ Cardinality(Live(m)) > MaxSessions => sid \notin L /\ Cardinality(Live(m)) = c + 1
  <2>1. IsFiniteSet(L \cup {sid}) /\ Cardinality(L \cup {sid}) = IF sid \in L THEN c ELSE c + 1
    BY <1>6, FS_AddElement
  <2> HIDE DEF c, L
  <2> QED BY <1>5, <1>6, <2>1 DEF L
<1>8. CASE ~(Cardinality(Live(m)) > MaxSessions)
  <2>1. n = m
    BY <1>3, <1>8
  <2>2. Live(sessions) \ Live(n) = {}
    BY <1>5, <2>1
  <2>3. Cardinality(Live(m)) <= MaxSessions
    BY <1>6, <1>7, <1>8
  <2> QED BY <1>1, <1>4, <1>7, <2>1, <2>2, <2>3
<1>9. CASE Cardinality(Live(m)) > MaxSessions
  <2>1. PICK v \in Victims(m) : n = [m EXCEPT ![v] = NoSession]
    BY <1>3, <1>9
  <2>2. v \in Live(m) /\ v \in Sids /\ \A s \in Live(m) : ~GoesFirst(m[s], m[v])
    BY <2>1 DEF Victims, Live
  <2>3. n \in [Sids -> SessionType] /\ n[v] = NoSession /\ \A s \in Sids \ {v} : n[s] = m[s]
    BY <1>2, <1>4, <2>1, <2>2
  <2>4. Live(n) = Live(m) \ {v}
    BY <2>3 DEF Live
  <2>5. IsFiniteSet(Live(m) \ {v}) /\ Cardinality(Live(m) \ {v}) = Cardinality(Live(m)) - 1
    BY <1>7, <2>2, FS_RemoveElement
  <2>6. Cardinality(Live(n)) = c /\ IsFiniteSet(Live(n))
    BY <1>6, <1>7, <1>9, <2>4, <2>5
  <2>7. ASSUME NEW s \in Live(sessions) \ Live(n), NEW u \in Live(n)
        PROVE  Outlasts(n[u], sessions[s])
    <3>1. s = v /\ s # sid /\ s \in Sids
      BY <1>5, <1>7, <1>9, <2>4 DEF Live
    <3>2. u \in Live(m) /\ u # v /\ u \in Sids
      BY <2>4 DEF Live
    <3>3. m[v] = sessions[s] /\ n[u] = m[u]
      BY <1>4, <2>3, <3>1, <3>2
    <3>4. ~GoesFirst(n[u], sessions[s])
      BY <2>2, <3>2, <3>3
    <3>5. n[u] \in SessionType /\ sessions[s] \in SessionType
      BY <1>2, <2>3, <3>1, <3>2
    <3> QED BY <3>4, <3>5, FirstEndsFirst
  <2>8. n[sid] # NoSession => n[sid].principal = p
    BY <1>1, <1>4, <2>3
  <2>9. \A s \in Sids \ {sid} : n[s] = NoSession \/ n[s] = sessions[s]
    BY <1>4, <2>3
  <2> QED BY <1>6, <2>3, <2>6, <2>7, <2>8, <2>9
<1> QED BY <1>8, <1>9

\* Erasing a session.
LEMMA EraseKeeps ==
  ASSUME SessionsCurrent, SessionsBounded, NEW sid, sessions' = [sessions EXCEPT ![sid] = NoSession],
         latest' = latest
  PROVE  SessionsCurrent' /\ SessionsBounded'
<1>1. sessions \in [Sids -> SessionType] /\ NoSession \in SessionType
  BY DEF SessionsCurrent, SessionType, NoSession
<1>2. sessions' \in [Sids -> SessionType] /\ \A s \in Sids : sessions'[s] = NoSession \/ sessions'[s] = sessions[s]
  BY <1>1
<1>3. SessionsCurrent'
  BY <1>2 DEF SessionsCurrent, SessionType
<1>4. Live(sessions') \subseteq Live(sessions)
  BY <1>2 DEF Live
<1>5. /\ IsFiniteSet(Live(sessions')) /\ Cardinality(Live(sessions')) <= Cardinality(Live(sessions))
      /\ Cardinality(Live(sessions')) \in Nat /\ Cardinality(Live(sessions)) \in Nat
  BY <1>4, FS_Subset, FS_CardinalityType DEF SessionsBounded
<1>6. SessionsBounded'
  BY <1>5, AuthzAssumption DEF SessionsBounded
<1> QED BY <1>3, <1>6

\* Filing an accepted principal.
LEMMA AcceptKeeps ==
  ASSUME AuthzInv, NEW t \in Threads, NEW sid \in Sids \cup {NoSid}, NEW p \in Principals,
         NEW refresh \in BOOLEAN, AcceptToken(t, sid, p, refresh)
  PROVE  /\ SessionsCurrent' /\ SessionsBounded'
         /\ Cardinality(Live(sessions)) <= Cardinality(Live(sessions'))
         /\ \A s \in Live(sessions) \ Live(sessions'), u \in Live(sessions') : Outlasts(sessions'[u], sessions[s])
<1>1. SessionsCurrent /\ SessionsBounded /\ RowInv(row[t])
  BY DEF AuthzInv, RowsInv
<1>2. CASE sid = NoSid
  <2>1. sessions' = sessions /\ latest' = latest
    BY <1>2 DEF AcceptToken
  <2>2. Cardinality(Live(sessions)) \in Nat /\ Live(sessions) \ Live(sessions') = {}
    BY <1>1, <2>1, FS_CardinalityType DEF SessionsBounded
  <2>3. Live(sessions') = Live(sessions)
    BY <2>1
  <2> QED BY <1>1, <2>1, <2>2, <2>3 DEF SessionsCurrent, SessionsBounded, SessionType
<1>3. CASE sid # NoSid
  <2>1. row[t].now \in Nat /\ row[t].now >= 1
    BY <1>1 DEF AcceptToken, Decide, RowInv, RowTypeOK
  <2>2. sid \in Sids /\ sessions' \in StoreSessionPrincipal(sid, p, row[t].now)
        /\ latest' = [latest EXCEPT ![sid] = {p}]
    BY <1>3 DEF AcceptToken
  <2>3. /\ sessions' \in [Sids -> SessionType]
        /\ sessions'[sid] # NoSession => sessions'[sid].principal = p
        /\ \A s \in Sids \ {sid} : sessions'[s] = NoSession \/ sessions'[s] = sessions[s]
        /\ IsFiniteSet(Live(sessions'))
        /\ Cardinality(Live(sessions')) <= MaxSessions
        /\ Cardinality(Live(sessions)) <= Cardinality(Live(sessions'))
        /\ \A s \in Live(sessions) \ Live(sessions'), u \in Live(sessions') : Outlasts(sessions'[u], sessions[s])
    BY <1>1, <2>1, <2>2, StoreKeeps
  <2>4. DOMAIN latest' = Sids /\ latest'[sid] = {p} /\ \A s \in Sids \ {sid} : latest'[s] = latest[s]
    BY <1>1, <2>2 DEF SessionsCurrent
  <2>5. SessionsCurrent'
    BY <1>1, <2>2, <2>3, <2>4 DEF SessionsCurrent, SessionType
  <2>6. SessionsBounded'
    BY <2>3 DEF SessionsBounded
  <2> QED BY <2>3, <2>5, <2>6
<1> QED BY <1>2, <1>3

(***************************************************************************)
(* The theorems.                                                            *)
(***************************************************************************)
\* Which variables a step other than those of the lemmas above leaves alone.
LEMMA Untouched ==
  ASSUME Next
  PROVE  /\ (\E t \in Threads : EmitAuditEvent(t)) \/ ring' = ring
         /\ (\E d \in ClockDeltas : Tick(d)) \/ clock' = clock
         /\ \/ \E t \in Threads, sid \in Sids \cup {NoSid}, p \in Principals, refresh \in BOOLEAN :
                 AcceptToken(t, sid, p, refresh)
            \/ \E t \in Threads : DropExpired(t)
            \/ sessions' = sessions /\ latest' = latest
<1>1. ASSUME NEW d \in ClockDeltas, Tick(d) PROVE ring' = ring /\ sessions' = sessions /\ latest' = latest
  BY <1>1 DEF Tick
<1>2. ASSUME NEW t \in Threads, Start(t) \/ Lock(t) \/ ProviderAnswers(t) \/ AuthzRows(t)
      PROVE  ring' = ring /\ clock' = clock /\ sessions' = sessions /\ latest' = latest
  BY <1>2 DEF Start, StartTokenChunk, StartAuthzChunk, Lock, ProviderAnswers, AuthzRows, DenyUnknown,
              FindExpired, Authorize, FinishAuthzChunk, ReadPrincipal
<1>3. ASSUME NEW t \in Threads, DropExpired(t) PROVE ring' = ring /\ clock' = clock
  BY <1>3 DEF DropExpired
<1>4. ASSUME NEW t \in Threads, EmitAuditEvent(t) PROVE clock' = clock /\ sessions' = sessions /\ latest' = latest
  BY <1>4 DEF EmitAuditEvent
<1>5. ASSUME NEW t \in Threads, TokenRows(t)
      PROVE  /\ ring' = ring /\ clock' = clock
             /\ \/ \E sid \in Sids \cup {NoSid}, p \in Principals, refresh \in BOOLEAN :
                     AcceptToken(t, sid, p, refresh)
                \/ sessions' = sessions /\ latest' = latest
  <2>1. ASSUME AskProvider(t) \/ FinishTokenChunk(t) \/ RejectNull(t)
        PROVE  ring' = ring /\ clock' = clock /\ sessions' = sessions /\ latest' = latest
    BY <2>1 DEF AskProvider, FinishTokenChunk, RejectNull
  <2>2. ASSUME NEW refresh \in BOOLEAN, RejectToken(t, refresh)
        PROVE  ring' = ring /\ clock' = clock /\ sessions' = sessions /\ latest' = latest
    BY <2>2 DEF RejectToken
  <2>3. ASSUME NEW refresh \in BOOLEAN, NEW sid \in Sids \cup {NoSid}, NEW p \in Principals,
               AcceptToken(t, sid, p, refresh)
        PROVE  ring' = ring /\ clock' = clock
    BY <2>3 DEF AcceptToken
  <2> QED BY <1>5, <2>1, <2>2, <2>3 DEF TokenRows
<1> QED BY <1>1, <1>2, <1>3, <1>4, <1>5 DEF Next

\* Every step keeps the invariant.
LEMMA NextAuthzInv ==
  ASSUME AuthzInv, Next
  PROVE  AuthzInv'
<1>1. RowsInv' /\ MutexInv'
  <2>1. ASSUME NEW d \in ClockDeltas, Tick(d) PROVE RowsInv' /\ MutexInv'
    BY <2>1 DEF Tick, AuthzInv, RowsInv, MutexInv
  <2>2. ASSUME NEW t \in Threads, \/ Start(t) \/ Lock(t) \/ TokenRows(t) \/ ProviderAnswers(t)
                                 \/ AuthzRows(t) \/ DropExpired(t) \/ EmitAuditEvent(t)
        PROVE  RowsInv' /\ MutexInv'
    BY <2>2, ChunkSteps, TokenRowsSteps, AuthzRowsSteps, EmitStep
  <2> QED BY <2>1, <2>2 DEF Next
<1>2. ClockInv'
  <2>1. ASSUME NEW d \in ClockDeltas, Tick(d) PROVE ClockInv'
    <3>1. d \in Int /\ clock' = clock + d /\ clock + d >= 1 /\ clock \in Nat
      BY <2>1, AuthzAssumption DEF Tick, AuthzInv, ClockInv
    <3> QED BY <3>1 DEF ClockInv
  <2>2. CASE clock' = clock
    BY <2>2 DEF AuthzInv, ClockInv
  <2> QED BY <2>1, <2>2, Untouched
<1>3. RingTypeOK(ring, Events)'
  <2>1. CASE ring' = ring
    BY <2>1 DEF AuthzInv, RingTypeOK, Events
  <2> QED BY <2>1, EmitStep, Untouched
<1>4. SessionsCurrent' /\ SessionsBounded'
  <2>1. SessionsCurrent /\ SessionsBounded
    BY DEF AuthzInv
  <2>2. ASSUME NEW t \in Threads, DropExpired(t) PROVE SessionsCurrent' /\ SessionsBounded'
    <3>1. sessions' = [sessions EXCEPT ![row[t].sid] = NoSession] /\ latest' = latest
      BY <2>2 DEF DropExpired
    <3> QED BY <2>1, <3>1, EraseKeeps
  <2>3. CASE sessions' = sessions /\ latest' = latest
    BY <2>1, <2>3 DEF SessionsCurrent, SessionsBounded, SessionType, Live
  <2> QED BY <2>2, <2>3, AcceptKeeps, Untouched
<1> QED BY <1>1, <1>2, <1>3, <1>4 DEF AuthzInv

\* The initial state satisfies the invariant.
LEMMA InitAuthzInv == Init => AuthzInv
<1> SUFFICES ASSUME Init PROVE AuthzInv
  OBVIOUS
<1>1. RowsInv /\ MutexInv
  <2>1. Free \notin Threads
    BY AuthzAssumption DEF Free
  <2>2. mu = Free /\ DOMAIN row = Threads /\ \A t \in Threads : row[t] = IdleRow
    BY DEF Init
  <2> QED BY <2>1, <2>2, IdleRowInv DEF RowsInv, MutexInv
<1>2. ClockInv
  BY DEF Init, ClockInv
<1>3. RingTypeOK(ring, Events)
  <2>1. /\ DOMAIN ring = {"slots", "head", "count"} /\ ring.head = 0 /\ ring.count = 0
        /\ ring.slots = [i \in 0..(Capacity - 1) |-> NoEvent]
    BY DEF Init, EmptyRing
  <2> QED BY <2>1, RingAssumption DEF RingTypeOK
<1>4. SessionsCurrent
  <2>1. NoSession \in SessionType
    BY DEF SessionType, NoSession
  <2> QED BY <2>1 DEF Init, SessionsCurrent
<1>5. SessionsBounded
  <2>1. Live(sessions) = {}
    BY DEF Init, Live
  <2> QED BY <2>1, FS_EmptySet, AuthzAssumption DEF SessionsBounded
<1> QED BY <1>1, <1>2, <1>3, <1>4, <1>5 DEF AuthzInv

\* A step that changes nothing.
LEMMA StutterAuthzInv ==
  ASSUME AuthzInv, UNCHANGED vars
  PROVE  AuthzInv'
<1>1. sessions' = sessions /\ ring' = ring /\ mu' = mu /\ row' = row /\ clock' = clock /\ latest' = latest
  BY DEF vars
<1>2. RowsInv' /\ MutexInv' /\ ClockInv'
  BY <1>1 DEF AuthzInv, RowsInv, MutexInv, ClockInv
<1>3. RingTypeOK(ring, Events)'
  BY <1>1 DEF AuthzInv, RingTypeOK, Events
<1>4. SessionsCurrent' /\ SessionsBounded'
  BY <1>1 DEF AuthzInv, SessionsCurrent, SessionsBounded, SessionType, Live
<1> QED BY <1>2, <1>3, <1>4 DEF AuthzInv

\* The invariant holds in every reachable state.
LEMMA AlwaysAuthzInv == Spec => []AuthzInv
  BY InitAuthzInv, NextAuthzInv, StutterAuthzInv, PTL DEF Spec

\* The types of sessions, ring and rows, and that exactly the thread between
\* two rows of a check_token chunk holds the mutex of QuackOauthState, for any
\* number of threads.
THEOREM AuthzTypes == Spec => []TypeOK
<1>1. AuthzInv => TypeOK
  BY DEF AuthzInv, RowsInv, RowInv, MutexInv, ClockInv, SessionsCurrent, SessionType, TypeOK
<1> QED BY <1>1, AlwaysAuthzInv, PTL

\* A step of one thread leaves the locals of the others alone.
LEMMA OthersStay ==
  ASSUME RowsInv, NEW t \in Threads, NEW u \in Threads, t # u,
         \/ Start(u) \/ Lock(u) \/ TokenRows(u) \/ ProviderAnswers(u)
         \/ AuthzRows(u) \/ DropExpired(u) \/ EmitAuditEvent(u)
  PROVE  row'[t] = row[t]
<1>1. \A r : [row EXCEPT ![u] = r][t] = row[t]
  BY DEF RowsInv
<1>2. ASSUME Start(u) \/ Lock(u) \/ ProviderAnswers(u) \/ DropExpired(u) \/ EmitAuditEvent(u) PROVE row'[t] = row[t]
  BY <1>1, <1>2 DEF Start, StartTokenChunk, StartAuthzChunk, Lock, ProviderAnswers, DropExpired, EmitAuditEvent
<1>3. ASSUME TokenRows(u) PROVE row'[t] = row[t]
  BY <1>1, <1>3 DEF TokenRows, AskProvider, FinishTokenChunk, RejectNull, RejectToken, AcceptToken, Decide
<1>4. ASSUME AuthzRows(u) PROVE row'[t] = row[t]
  BY <1>1, <1>4 DEF AuthzRows, DenyUnknown, FindExpired, Authorize, FinishAuthzChunk, GoOn
<1> QED BY <1>2, <1>3, <1>4

\* Only Authorize allows a request.
LEMMA AllowedByAuthorize ==
  ASSUME AuthzInv, Next, NEW t \in Threads, row[t].pc = "AuthzRows", row'[t].event.type = "AuthzAllow"
  PROVE  \E sid \in Sids, query \in Queries : Authorize(t, sid, query)
<1>1. RowsInv /\ RowInv(row[t]) /\ row[t].event.type # "AuthzAllow" /\ NoEvent.type # "AuthzAllow"
  <2>1. NoEvent.type = "TokenRejected"
    BY DEF NoEvent
  <2>2. RowsInv /\ RowInv(row[t]) /\ row[t].event = NoEvent
    BY DEF AuthzInv, RowsInv, RowInv
  <2> QED BY <2>1, <2>2
<1>2. ~ \E d \in ClockDeltas : Tick(d)
  BY <1>1 DEF Tick
<1>3. \A u \in Threads \ {t} : ~(\/ Start(u) \/ Lock(u) \/ TokenRows(u) \/ ProviderAnswers(u)
                                 \/ AuthzRows(u) \/ DropExpired(u) \/ EmitAuditEvent(u))
  BY <1>1, OthersStay
<1>4. ~Start(t) /\ ~Lock(t) /\ ~TokenRows(t) /\ ~ProviderAnswers(t) /\ ~DropExpired(t) /\ ~EmitAuditEvent(t)
  BY DEF Start, StartTokenChunk, StartAuthzChunk, Lock, TokenRows, AskProvider, FinishTokenChunk, RejectNull,
         RejectToken, AcceptToken, Decide, ProviderAnswers, DropExpired, EmitAuditEvent
<1>5. AuthzRows(t)
  BY <1>2, <1>3, <1>4 DEF Next
<1>6. ~FinishAuthzChunk(t)
  <2>1. IdleRow.event = NoEvent
    BY DEF IdleRow
  <2> QED BY <1>1, <2>1 DEF FinishAuthzChunk, RowsInv
<1>7. ASSUME NEW sid \in Sids, GoOn(t, sid, "Audit", "AuthzDeny") \/ GoOn(t, sid, "Drop", "AuthzDeny") PROVE FALSE
  <2> DEFINE e == Event("AuthzDeny", sessions[sid].principal.sub)
  <2>1. e.type = "AuthzDeny"
    BY DEF Event
  <2> HIDE DEF e
  <2>2. row'[t].event = e
    BY <1>1, <1>7 DEF GoOn, RowsInv, RowInv, RowTypeOK, e
  <2> QED BY <2>1, <2>2
<1> QED BY <1>5, <1>6, <1>7 DEF AuthzRows, DenyUnknown, FindExpired

\* A request is allowed only under the principal accepted last for its
\* session, unexpired at the chunk's reading of the clock: an eviction, an
\* erasure or another thread's renewal between the lock of check_token and the
\* lookup of check_authorization never lets an older principal through.
THEOREM AllowedIsCurrent == Spec => AllowIsCurrent
<1> DEFINE Current(t) ==
      row[t].pc = "AuthzRows" /\ row'[t].event.type = "AuthzAllow" =>
        LET p == row'[t].principal IN
        /\ latest[row'[t].sid] = {p}
        /\ p.exp = 0 \/ row[t].now <= p.exp + ClockSkewS
<1>1. ASSUME AuthzInv, Next, NEW t \in Threads PROVE Current(t)
  <2> SUFFICES ASSUME row[t].pc = "AuthzRows", row'[t].event.type = "AuthzAllow" PROVE Current(t)
    OBVIOUS
  <2>1. PICK sid \in Sids, query \in Queries : Authorize(t, sid, query)
    BY <1>1, AllowedByAuthorize
  <2> DEFINE p == sessions[sid].principal
  <2>2. row'[t].sid = sid /\ row'[t].principal = p
    BY <1>1, <2>1 DEF Authorize, GoOn, AuthzInv, RowsInv, RowInv, RowTypeOK
  <2>3. sessions[sid] # NoSession /\ ~IsPrincipalExpired(p, row[t].now)
    BY <2>1 DEF Authorize
  <2>4. latest[sid] = {p} /\ p \in Principals \cup {NoPrincipal}
    BY <1>1, <2>3 DEF AuthzInv, SessionsCurrent, SessionType
  <2>5. p.exp \in Nat /\ row[t].now \in Nat /\ ClockSkewS \in Nat
    BY <1>1, <2>4, ExpiryType, AuthzAssumption DEF AuthzInv, RowsInv, RowInv, RowTypeOK
  <2> HIDE DEF p
  <2>6. p.exp = 0 \/ row[t].now <= p.exp + ClockSkewS
    BY <2>3, <2>5 DEF IsPrincipalExpired
  <2> QED BY <2>2, <2>4, <2>6
<1>2. AuthzInv /\ [Next]_vars => [\A t \in Threads : Current(t)]_vars
  BY <1>1
<1> QED BY <1>2, AlwaysAuthzInv, PTL DEF Spec, AllowIsCurrent

\* However many sessions there are, filing one more evicts at most one, which
\* no session that stays ends before, and the bound kMaxSessionPrincipals holds.
THEOREM EvictionInOrder == Spec => EvictsFirstToExpire
<1> DEFINE InOrder ==
      (\E t \in Threads : row[t].pc = "Rows" /\ row'[t].pc = "Audit") =>
        /\ Cardinality(Live(sessions')) <= MaxSessions
        /\ Cardinality(Live(sessions')) >= Cardinality(Live(sessions))
        /\ \A s \in Live(sessions) \ Live(sessions'), u \in Live(sessions') :
             Outlasts(sessions'[u], sessions[s])
<1>1. ASSUME AuthzInv, Next PROVE InOrder
  <2> SUFFICES ASSUME NEW t \in Threads, row[t].pc = "Rows", row'[t].pc = "Audit" PROVE InOrder
    OBVIOUS
  <2>1. /\ IsFiniteSet(Live(sessions)) /\ Cardinality(Live(sessions)) <= MaxSessions
        /\ Cardinality(Live(sessions)) \in Nat
    BY <1>1, FS_CardinalityType DEF AuthzInv, SessionsBounded
  <2>2. CASE sessions' = sessions
    <3>1. Live(sessions') = Live(sessions) /\ Live(sessions) \ Live(sessions') = {}
      BY <2>2
    <3> QED BY <2>1, <3>1
  <2>3. ASSUME NEW u \in Threads, DropExpired(u) PROVE FALSE
    <3>1. row[u].pc = "Drop" /\ u # t
      BY <2>3 DEF DropExpired
    <3>2. row'[t] = row[t]
      BY <1>1, <2>3, <3>1, OthersStay DEF AuthzInv
    <3> QED BY <3>2
  <2>4. ASSUME NEW u \in Threads, NEW sid \in Sids \cup {NoSid}, NEW p \in Principals,
               NEW refresh \in BOOLEAN, AcceptToken(u, sid, p, refresh)
        PROVE  InOrder
    <3>1. /\ SessionsBounded'
          /\ Cardinality(Live(sessions)) <= Cardinality(Live(sessions'))
          /\ \A s \in Live(sessions) \ Live(sessions'), v \in Live(sessions') : Outlasts(sessions'[v], sessions[s])
      BY <1>1, <2>4, AcceptKeeps
    <3>2. Cardinality(Live(sessions')) <= MaxSessions /\ Cardinality(Live(sessions')) \in Nat
      BY <3>1, FS_CardinalityType DEF SessionsBounded
    <3> QED BY <2>1, <3>1, <3>2
  <2> QED BY <1>1, <2>2, <2>3, <2>4, Untouched
<1>2. AuthzInv /\ [Next]_vars => [InOrder]_vars
  BY <1>1
<1> QED BY <1>2, AlwaysAuthzInv, PTL DEF Spec, EvictsFirstToExpire

\* AuditRing implements AuditWindow for every capacity: the slots, the head
\* and the count that Push maintains always hold the most recent events, and
\* Snapshot puts them in the order in which the threads emitted them.
THEOREM RingImplementsWindow == Spec => RingIsWindow
<1>1. Init => Audit!Init
  <2> SUFFICES ASSUME Init PROVE Snapshot(ring) = <<>>
    BY DEF Audit!Init
  <2>1. ring.count = 0 /\ RingTypeOK(ring, Events)
    BY InitAuthzInv DEF Init, EmptyRing, AuthzInv
  <2>2. Snapshot(ring) \in Seq(Events \cup {NoEvent}) /\ Len(Snapshot(ring)) = 0
    BY <2>1, SnapshotLength
  <2> QED BY <2>2, EmptySeq
<1>2. AuthzInv /\ [Next]_vars => [Audit!Next]_(Snapshot(ring))
  <2> SUFFICES ASSUME AuthzInv, [Next]_vars PROVE Audit!Next \/ Snapshot(ring)' = Snapshot(ring)
    OBVIOUS
  <2>1. CASE ring' = ring
    BY <2>1 DEF Snapshot
  <2>2. ASSUME NEW t \in Threads, EmitAuditEvent(t) PROVE Audit!Next
    <3>1. ring' = Push(ring, row[t].event) /\ row[t].event \in Events /\ RingTypeOK(ring, Events)
      BY <2>2 DEF EmitAuditEvent, AuthzInv, RowsInv, RowInv, RowTypeOK
    <3>2. Snapshot(Push(ring, row[t].event)) =
            IF Len(Snapshot(ring)) < Capacity THEN Append(Snapshot(ring), row[t].event)
            ELSE Append(Tail(Snapshot(ring)), row[t].event)
      BY <3>1, PushMovesWindow
    <3>3. Snapshot(ring)' = Snapshot(Push(ring, row[t].event))
      BY <3>1 DEF Snapshot
    <3>4. Audit!Record(row[t].event)
      BY <3>2, <3>3 DEF Audit!Record
    <3> QED BY <3>1, <3>4 DEF Audit!Next
  <2>3. CASE UNCHANGED vars
    BY <2>1, <2>3 DEF vars
  <2> QED BY <2>1, <2>2, <2>3, Untouched
<1> QED BY <1>1, <1>2, AlwaysAuthzInv, PTL DEF Spec, RingIsWindow, Audit!Spec

\* What check_authorization decides on a policy follows the source of it.
LEMMA DecisionFollows ==
  ASSUME NEW source \in Sources, NEW policy \in LoadPolicy(source), NEW p, NEW query \in Queries,
         NEW allow \in BOOLEAN, allow <=> Allowed(policy, p, query)
  PROVE  Follows(allow, source, p, query)
<1>1. /\ query.unsafe \in BOOLEAN /\ query.action \in Actions
      /\ query.objects \subseteq Seq(STRING) /\ query.columns \subseteq Seq(STRING)
  BY AuthzAssumption
<1>2. WellFormedSource(source)
  BY AuthzAssumption
<1> DEFINE ev == EvaluatePolicy(policy, p, query)
           sc == EvaluateDefaultPolicy(p, query.action)
<1>3. allow <=> policy # LoadFailed /\ ~query.unsafe /\ IF policy = DefaultPolicy THEN sc ELSE ev
  BY Zenon DEF Allowed
<1> HIDE DEF ev, sc
<1>4. CASE query.unsafe
  BY <1>3, <1>4, Zenon DEF Follows
<1>5. CASE source.named /\ ~Readable(source)
  <2>1. policy = LoadFailed
    BY <1>5, TableRefused
  <2> QED BY <1>3, <1>5, <2>1, Zenon DEF Follows
<1>6. CASE ~query.unsafe /\ source.named /\ Readable(source)
  <2> DEFINE V(c) == Verdicts(source, p, query.action, c[1], c[2])
  <2>1. policy # LoadFailed /\ policy # DefaultPolicy
    BY <1>6, TableLoaded
  <2>2. allow <=> ev
    BY <1>3, <1>6, <2>1, Zenon
  <2>3. (ev => \A c \in Cells(query) : TRUE \in V(c)) /\ (~ev => \E c \in Cells(query) : FALSE \in V(c))
    BY <1>1, <1>2, <1>6, PolicyVerdicts DEF ev
  <2> HIDE DEF V
  <2>4. (allow => \A c \in Cells(query) : TRUE \in V(c)) /\ (~allow => \E c \in Cells(query) : FALSE \in V(c))
    BY <2>2, <2>3, Zenon
  <2> QED BY <1>6, <2>4, Zenon DEF Follows, V
<1>7. CASE ~query.unsafe /\ ~source.named
  <2>1. policy = DefaultPolicy
    BY <1>7, Zenon DEF LoadPolicy
  <2>2. DefaultPolicy # LoadFailed
    BY DEF DefaultPolicy, LoadFailed
  <2>3. allow <=> sc
    BY <1>3, <1>7, <2>1, <2>2, Zenon
  <2>4. sc <=> \/ "quack:write" \in p.scopes /\ query.action \notin {"Ddl", "Pragma", "ServeAdmin"}
               \/ "quack:read" \in p.scopes /\ query.action \in {"Attach", "Scan"}
    BY <1>1 DEF sc, EvaluateDefaultPolicy, Actions
  <2> QED BY <1>7, <2>3, <2>4, Zenon DEF Follows
<1> QED BY <1>1, <1>2, <1>4, <1>5, <1>6, <1>7 DEF WellFormedSource

(***************************************************************************)
(* The policy of a chunk.                                                   *)
(***************************************************************************)
\* A chunk of check_authorization has a policy of its source.
HasPolicy(r) ==
  (\/ r.pc \in {"AuthzRows", "Drop"}
   \/ r.pc = "Audit" /\ r.event.type \in {"AuthzAllow", "AuthzDeny"})
    => r.source \in Sources /\ r.policy \in LoadPolicy(r.source)

PolicyInv == \A t \in Threads : HasPolicy(row[t])

\* One thread moves.
LEMMA MovedPolicy ==
  ASSUME AuthzInv, PolicyInv, NEW t \in Threads, NEW r, HasPolicy(r), row' = [row EXCEPT ![t] = r]
  PROVE  PolicyInv'
<1>1. row'[t] = r /\ \A u \in Threads \ {t} : row'[u] = row[u]
  BY DEF AuthzInv, RowsInv
<1> QED BY <1>1 DEF PolicyInv

\* A chunk keeps the policy it has loaded until it ends.
LEMMA NextPolicyInv ==
  ASSUME AuthzInv, PolicyInv, Next
  PROVE  PolicyInv'
<1> DEFINE Fields == {"pc", "now", "policy", "source", "sid", "principal", "asked", "event", "refresh"}
<1>1. ASSUME NEW t \in Threads PROVE DOMAIN row[t] = Fields /\ HasPolicy(row[t]) /\ DOMAIN row = Threads
  BY <1>1 DEF AuthzInv, RowsInv, RowInv, RowTypeOK, PolicyInv
<1>2. CASE row' = row
  BY <1>2 DEF PolicyInv
<1>3. ASSUME NEW t \in Threads, StartTokenChunk(t) PROVE PolicyInv'
  <2> DEFINE r == [row[t] EXCEPT !.pc = "Lock", !.now = clock]
  <2>1. row' = [row EXCEPT ![t] = r]
    BY <1>1, <1>3 DEF StartTokenChunk
  <2>2. HasPolicy(r)
    BY <1>1, <1>3 DEF HasPolicy
  <2> HIDE DEF r
  <2> QED BY <1>3, <2>1, <2>2, MovedPolicy
<1>4. ASSUME NEW t \in Threads, NEW source \in Sources, NEW policy \in LoadPolicy(source),
             StartAuthzChunk(t, source, policy)
      PROVE  PolicyInv'
  <2> DEFINE r == [row[t] EXCEPT !.pc = "AuthzRows", !.now = clock, !.policy = policy, !.source = source]
  <2>1. row' = [row EXCEPT ![t] = r]
    BY <1>1, <1>4 DEF StartAuthzChunk
  <2>2. r.source = source /\ r.policy = policy
    BY <1>1, <1>4
  <2> HIDE DEF r
  <2>3. HasPolicy(r)
    BY <1>4, <2>2 DEF HasPolicy
  <2> QED BY <1>4, <2>1, <2>3, MovedPolicy
<1>5. ASSUME NEW t \in Threads, NEW pc \in {"Rows", "Lock"}, row' = [row EXCEPT ![t].pc = pc] PROVE PolicyInv'
  <2> DEFINE r == [row[t] EXCEPT !.pc = pc]
  <2>1. row' = [row EXCEPT ![t] = r]
    BY <1>1, <1>5
  <2>2. r.pc = pc
    BY <1>1, <1>5
  <2> HIDE DEF r
  <2>3. HasPolicy(r)
    BY <1>5, <2>2 DEF HasPolicy
  <2> QED BY <1>5, <2>1, <2>3, MovedPolicy
<1>6. ASSUME NEW t \in Threads, AskProvider(t) PROVE PolicyInv'
  <2> DEFINE r == [row[t] EXCEPT !.pc = "Http", !.asked = TRUE]
  <2>1. row' = [row EXCEPT ![t] = r]
    BY <1>1, <1>6 DEF AskProvider
  <2>2. r.pc = "Http"
    BY <1>1, <1>6
  <2> HIDE DEF r
  <2>3. HasPolicy(r)
    BY <2>2 DEF HasPolicy
  <2> QED BY <1>6, <2>1, <2>3, MovedPolicy
<1>7. ASSUME NEW t \in Threads, NEW event, NEW refresh, Decide(t, event, refresh),
             event.type \notin {"AuthzAllow", "AuthzDeny"}
      PROVE  PolicyInv'
  <2> DEFINE r == [row[t] EXCEPT !.pc = "Audit", !.asked = FALSE, !.event = event, !.refresh = refresh]
  <2>1. row' = [row EXCEPT ![t] = r]
    BY <1>1, <1>7 DEF Decide
  <2>2. r.pc = "Audit" /\ r.event = event
    BY <1>1, <1>7
  <2> HIDE DEF r
  <2>3. HasPolicy(r)
    BY <1>7, <2>2 DEF HasPolicy
  <2> QED BY <1>7, <2>1, <2>3, MovedPolicy
<1>8. ASSUME NEW t \in Threads, row' = [row EXCEPT ![t] = IdleRow] PROVE PolicyInv'
  <2>1. HasPolicy(IdleRow)
    BY DEF IdleRow, HasPolicy
  <2> QED BY <1>8, <2>1, MovedPolicy
<1>9. ASSUME NEW t \in Threads, TokenRows(t) PROVE PolicyInv'
  <2>1. ASSUME NEW refresh, RejectToken(t, refresh) PROVE PolicyInv'
    <3>1. Event("TokenRejected", "").type \notin {"AuthzAllow", "AuthzDeny"}
      BY DEF Event
    <3> QED BY <1>7, <1>9, <2>1, <3>1 DEF RejectToken
  <2>2. ASSUME NEW refresh, NEW sid, NEW p, AcceptToken(t, sid, p, refresh) PROVE PolicyInv'
    <3>1. Event("TokenAccepted", p.sub).type \notin {"AuthzAllow", "AuthzDeny"}
      BY DEF Event
    <3> QED BY <1>7, <1>9, <2>2, <3>1 DEF AcceptToken
  <2>3. ASSUME FinishTokenChunk(t) PROVE PolicyInv'
    BY <1>8, <1>9, <2>3 DEF FinishTokenChunk
  <2>4. ASSUME RejectNull(t) PROVE PolicyInv'
    BY <1>2, <2>4 DEF RejectNull
  <2> QED BY <1>6, <1>9, <2>1, <2>2, <2>3, <2>4 DEF TokenRows
<1>10. ASSUME NEW t \in Threads, NEW sid, NEW pc, NEW type, row[t].pc = "AuthzRows", GoOn(t, sid, pc, type)
       PROVE  PolicyInv'
  <2> DEFINE p == sessions[sid].principal
             e == Event(type, p.sub)
             r == [row[t] EXCEPT !.pc = pc, !.sid = sid, !.principal = p, !.event = e]
  <2>1. row' = [row EXCEPT ![t] = r]
    BY <1>1, <1>10 DEF GoOn
  <2> HIDE DEF p, e
  <2>2. r.source = row[t].source /\ r.policy = row[t].policy
    BY <1>1, <1>10
  <2> HIDE DEF r
  <2>3. HasPolicy(r)
    BY <1>1, <1>10, <2>2 DEF HasPolicy
  <2> QED BY <1>10, <2>1, <2>3, MovedPolicy
<1>11. ASSUME NEW t \in Threads, AuthzRows(t) PROVE PolicyInv'
  <2>1. ASSUME FinishAuthzChunk(t) PROVE PolicyInv'
    BY <1>8, <1>11, <2>1 DEF FinishAuthzChunk
  <2>2. ASSUME NEW sid \in Sids, DenyUnknown(t, sid) PROVE PolicyInv'
    BY <1>10, <1>11, <2>2 DEF DenyUnknown, ReadPrincipal
  <2>3. ASSUME NEW sid \in Sids, FindExpired(t, sid) PROVE PolicyInv'
    BY <1>10, <1>11, <2>3 DEF FindExpired, ReadPrincipal
  <2>4. ASSUME NEW sid \in Sids, NEW query \in Queries, Authorize(t, sid, query) PROVE PolicyInv'
    <3>1. PICK type \in {"AuthzAllow", "AuthzDeny"} : row[t].pc = "AuthzRows" /\ GoOn(t, sid, "Audit", type)
      BY <2>4 DEF Authorize, ReadPrincipal
    <3> QED BY <1>10, <1>11, <3>1
  <2> QED BY <1>11, <2>1, <2>2, <2>3, <2>4 DEF AuthzRows
<1>12. ASSUME NEW t \in Threads, DropExpired(t) PROVE PolicyInv'
  <2> DEFINE r == [row[t] EXCEPT !.pc = "Audit"]
  <2>1. row' = [row EXCEPT ![t] = r]
    BY <1>1, <1>12 DEF DropExpired
  <2>2. r.source = row[t].source /\ r.policy = row[t].policy /\ row[t].pc = "Drop"
    BY <1>1, <1>12 DEF DropExpired
  <2> HIDE DEF r
  <2>3. HasPolicy(r)
    BY <1>1, <1>12, <2>2 DEF HasPolicy
  <2> QED BY <1>12, <2>1, <2>3, MovedPolicy
<1>13. ASSUME NEW t \in Threads, EmitAuditEvent(t) PROVE PolicyInv'
  <2>1. row[t].pc = "Audit"
    BY <1>13 DEF EmitAuditEvent
  <2>2. CASE row[t].refresh
    <3> DEFINE e == Event("JwksRefresh", "")
               r == [row[t] EXCEPT !.event = e, !.refresh = FALSE]
    <3>1. row' = [row EXCEPT ![t] = r]
      BY <1>1, <1>13, <2>2 DEF EmitAuditEvent
    <3>2. e.type = "JwksRefresh"
      BY DEF Event
    <3> HIDE DEF e
    <3>3. r.pc = "Audit" /\ r.event = e
      BY <1>1, <1>13, <2>1
    <3> HIDE DEF r
    <3>4. HasPolicy(r)
      BY <3>2, <3>3 DEF HasPolicy
    <3> QED BY <1>13, <3>1, <3>4, MovedPolicy
  <2>3. CASE ~row[t].refresh
    <3> DEFINE pc == IF IsAuthz(t) THEN "AuthzRows" ELSE "Lock"
               r == [IdleRow EXCEPT !.pc = pc, !.now = row[t].now, !.policy = row[t].policy,
                                    !.source = row[t].source]
    <3>1. row' = [row EXCEPT ![t] = r]
      BY <1>1, <1>13, <2>3 DEF EmitAuditEvent
    <3>2. (pc = "AuthzRows" /\ IsAuthz(t)) \/ pc = "Lock"
      OBVIOUS
    <3> HIDE DEF pc
    <3>3. r.pc = pc /\ r.source = row[t].source /\ r.policy = row[t].policy
      BY DEF IdleRow
    <3> HIDE DEF r
    <3>4. HasPolicy(r)
      BY <1>1, <1>13, <2>1, <3>2, <3>3 DEF HasPolicy, IsAuthz
    <3> QED BY <1>13, <3>1, <3>4, MovedPolicy
  <2> QED BY <2>2, <2>3
<1>14. ASSUME NEW t \in Threads, Start(t) PROVE PolicyInv'
  BY <1>3, <1>4, <1>14 DEF Start
<1>15. ASSUME NEW t \in Threads, Lock(t) \/ ProviderAnswers(t) PROVE PolicyInv'
  BY <1>5, <1>15 DEF Lock, ProviderAnswers
<1>16. ASSUME NEW d \in ClockDeltas, Tick(d) PROVE PolicyInv'
  BY <1>2, <1>16 DEF Tick
<1> QED BY <1>9, <1>11, <1>12, <1>13, <1>14, <1>15, <1>16 DEF Next

\* The invariant holds in every reachable state.
LEMMA AlwaysPolicyInv == Spec => [](AuthzInv /\ PolicyInv)
<1>1. Init => PolicyInv
  <2> SUFFICES ASSUME Init PROVE PolicyInv
    OBVIOUS
  <2>1. \A t \in Threads : row[t] = IdleRow
    BY DEF Init
  <2>2. HasPolicy(IdleRow)
    BY DEF IdleRow, HasPolicy
  <2> QED BY <2>1, <2>2 DEF PolicyInv
<1>2. AuthzInv /\ PolicyInv /\ [Next]_vars => PolicyInv'
  <2>1. ASSUME PolicyInv, UNCHANGED vars PROVE PolicyInv'
    BY <2>1 DEF PolicyInv, vars
  <2> QED BY <2>1, NextPolicyInv
<1> QED BY <1>1, <1>2, AlwaysAuthzInv, PTL DEF Spec

\* Every request of a live session is decided as the policy table that its
\* chunk has loaded says, whatever the table, its patterns, the request and the
\* other threads: GlobMatch's walk, ORDER BY priority and the first rule that
\* matches come to what the rows say by themselves.
THEOREM DecisionsFollowPolicy == Spec => DecisionFollowsPolicy
<1> DEFINE Right(t, sid, query) ==
      Authorize(t, sid, query) =>
        Follows(row'[t].event.type = "AuthzAllow", row[t].source, sessions[sid].principal, query)
<1>1. ASSUME AuthzInv, PolicyInv, NEW t \in Threads, NEW sid \in Sids, NEW query \in Queries
      PROVE  Right(t, sid, query)
  <2> SUFFICES ASSUME Authorize(t, sid, query)
               PROVE  Follows(row'[t].event.type = "AuthzAllow", row[t].source, sessions[sid].principal, query)
    OBVIOUS
  <2> DEFINE p == sessions[sid].principal
             yes == Allowed(row[t].policy, p, query)
             type == IF yes THEN "AuthzAllow" ELSE "AuthzDeny"
             e == Event(type, p.sub)
             allow == row'[t].event.type = "AuthzAllow"
  <2>1. row[t].source \in Sources /\ row[t].policy \in LoadPolicy(row[t].source)
    BY <1>1 DEF Authorize, ReadPrincipal, PolicyInv, HasPolicy
  <2>2. GoOn(t, sid, "Audit", type)
    BY DEF Authorize
  <2>3. e.type = type /\ (type = "AuthzAllow" <=> yes)
    BY DEF Event
  <2> HIDE DEF yes, type
  <2>4. row'[t].event = e
    BY <1>1, <2>2 DEF GoOn, AuthzInv, RowsInv, RowInv, RowTypeOK
  <2> HIDE DEF e
  <2>5. allow \in BOOLEAN /\ (allow <=> yes)
    BY <2>3, <2>4
  <2>6. \A a \in BOOLEAN : (a <=> yes) => Follows(a, row[t].source, p, query)
    BY <2>1, DecisionFollows DEF yes
  <2> QED BY <2>5, <2>6, Zenon
<1>2. AuthzInv /\ PolicyInv /\ [Next]_vars =>
        [\A t \in Threads, sid \in Sids, query \in Queries : Right(t, sid, query)]_vars
  BY <1>1
<1> QED BY <1>2, AlwaysPolicyInv, PTL DEF Spec, DecisionFollowsPolicy
==============================================================================
