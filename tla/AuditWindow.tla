----------------------------- MODULE AuditWindow -----------------------------
(***************************************************************************)
(* What quack_oauth_audit_log() promises: the most recent decisions, oldest *)
(* first, as many as the ring has room for.                                 *)
(***************************************************************************)
EXTENDS Naturals, Sequences

CONSTANTS Events, Capacity

VARIABLE window

Init == window = <<>>

Record(e) ==
  window' = IF Len(window) < Capacity THEN Append(window, e) ELSE Append(Tail(window), e)

Next == \E e \in Events : Record(e)

Spec == Init /\ [][Next]_window
==============================================================================
