----------------------------- MODULE ThrottleLog -----------------------------
(***************************************************************************)
(* last_throttle_logged_s of the shared state: when a warning about a        *)
(* throttled JWKS refresh was last logged, by kid, reason and endpoint, so    *)
(* that a client that keeps presenting a token does not fill the log          *)
(* (LogThrottledEvents of check_token_function.cpp).                          *)
(*                                                                          *)
(* The map is a function from LogKeys to stamps, NoStamp where a key has no    *)
(* entry.  std::sort keeps no order among equal stamps, so the last pruning    *)
(* yields a set of maps.                                                      *)
(***************************************************************************)
EXTENDS Integers, FiniteSets

CONSTANTS
  LogKeys,        \* kid, reason and endpoint of a throttled refresh, sanitised
  LogWindowS,     \* 30 s
  LogCap,         \* 1000 entries
  LogLow          \* 800 entries

\* The parts of a key are cut to 256 and 512 characters: there are finitely many.
ASSUME ThrottleLogAssumption ==
  IsFiniteSet(LogKeys) /\ LogCap \in Nat /\ LogLow \in 1..LogCap /\ LogWindowS \in Nat \ {0}

NoStamp == -1
EmptyLog == [k \in LogKeys |-> NoStamp]
Logged(log) == {k \in LogKeys : log[k] # NoStamp}

\* The events of a chunk, each once, that get a line in the log.
NewLines(log, events, now) ==
  {k \in events : ~(k \in Logged(log) /\ now >= log[k] /\ now - log[k] < LogWindowS)}

Stamped(log, lines, now) == [k \in LogKeys |-> IF k \in lines THEN now ELSE log[k]]

Drop(log, gone) == [k \in LogKeys |-> IF k \in gone THEN NoStamp ELSE log[k]]

\* Entries that are over, or stamped later than this chunk's reading.
Over(log, now) == {k \in Logged(log) : now < log[k] \/ now - log[k] > LogWindowS}

\* The oldest entries beyond the low mark.
Oldest(log) ==
  {gone \in SUBSET Logged(log) :
     /\ Cardinality(gone) = Cardinality(Logged(log)) - LogLow
     /\ \A a \in gone, b \in Logged(log) \ gone : log[a] <= log[b]}

\* Mutant: entries that are over are dropped at the end of every chunk.
PruneAlways(log, now) == {Drop(log, Over(log, now))}

Prune(log, now) ==
  IF Cardinality(Logged(log)) <= LogCap THEN {log}
  ELSE LET kept == Drop(log, Over(log, now)) IN
       IF Cardinality(Logged(kept)) <= LogCap THEN {kept} ELSE {Drop(kept, gone) : gone \in Oldest(kept)}

\* The maps that a chunk with these events may leave.
LogThrottledEvents(log, events, now) ==
  IF events = {} THEN {log} ELSE Prune(Stamped(log, NewLines(log, events, now), now), now)
==============================================================================
