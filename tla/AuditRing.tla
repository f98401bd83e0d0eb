------------------------------ MODULE AuditRing ------------------------------
(***************************************************************************)
(* The ring buffer of audit.cpp: a vector of fixed size, the index of the   *)
(* next write and the number of valid slots.  Slots are numbered from 0.    *)
(***************************************************************************)
EXTENDS Naturals, Sequences

CONSTANT Capacity      \* ring_.size()

ASSUME RingAssumption == Capacity \in Nat \ {0}

NoEvent == [type |-> "TokenRejected", sub |-> ""]     \* a default AuditEvent

EmptyRing == [slots |-> [i \in 0..(Capacity - 1) |-> NoEvent], head |-> 0, count |-> 0]

\* Mutant: the count runs past the capacity.
PushCountingOn(r, e) ==
  [r EXCEPT !.slots[r.head] = e, !.head = (@ + 1) % Capacity, !.count = @ + 1]

Push(r, e) ==
  [r EXCEPT !.slots[r.head] = e,
            !.head  = (@ + 1) % Capacity,
            !.count = IF @ < Capacity THEN @ + 1 ELSE @]

Snapshot(r) ==
  LET start == (r.head + Capacity - r.count) % Capacity IN
  [i \in 1..r.count |-> r.slots[(start + (i - 1)) % Capacity]]

RingTypeOK(r, events) ==
  /\ DOMAIN r = {"slots", "head", "count"}
  /\ r.slots \in [0..(Capacity - 1) -> events \cup {NoEvent}]
  /\ r.head \in 0..(Capacity - 1) /\ r.count \in 0..Capacity
==============================================================================
