---------------------------- MODULE DecisionCache ----------------------------
(***************************************************************************)
(* The decision cache of decision_cache.cpp: the tokens an identity         *)
(* provider vouched for, each until expires_at_s, in an LRU map of bounded  *)
(* size.  The three validation modes for opaque tokens share it.            *)
(*                                                                          *)
(* As in JwksCache, a method is an operator on the cache d.  The SHA-256    *)
(* key of a token is the token itself.  index_ is the set d.held with the   *)
(* entries in d.entry (NoDecision where there is none); the order of the    *)
(* list entries_ is d.lru.  Of a Principal only exp matters here.           *)
(***************************************************************************)
EXTENDS Integers, Sequences, FiniteSets, SequencesExt, Lru

CONSTANTS
  Tokens,             \* opaque tokens
  MaxDecisions,       \* max_entries_
  DecisionTtlS        \* default_ttl_s_

ASSUME DecisionAssumption ==
  MaxDecisions \in Nat \ {0} /\ DecisionTtlS \in Nat \ {0}

NoDecision == [exp |-> 0, expiresAt |-> 0]

EmptyDecisions ==
  [held |-> {}, entry |-> [k \in Tokens |-> NoDecision], lru |-> <<>>]

\* Mutant: the list keeps what the index has dropped.
ForgetInIndex(d, k) == [d EXCEPT !.held = @ \ {k}, !.entry[k] = NoDecision]

Forget(d, k) ==
  [d EXCEPT !.held = @ \ {k}, !.entry[k] = NoDecision, !.lru = RemoveFirst(@, k)]

\* Lookup finds a decision whose window covers now ...
Covers(d, k, now) == k \in d.held /\ d.entry[k].expiresAt > now

\* Mutant: a use renews the window.
TouchRenewing(d, k, now) ==
  CASE Covers(d, k, now)                   -> [d EXCEPT !.lru = MoveToFront(@, k), !.entry[k].expiresAt = now + DecisionTtlS]
    [] k \in d.held /\ ~Covers(d, k, now)  -> Forget(d, k)
    [] OTHER                               -> d

\* ... and moves it to the front, or drops it when its window is over.
Touch(d, k, now) ==
  CASE Covers(d, k, now)                   -> [d EXCEPT !.lru = MoveToFront(@, k)]
    [] k \in d.held /\ ~Covers(d, k, now)  -> Forget(d, k)
    [] OTHER                               -> d

\* Mutant: exp does not shorten the window.
TtlIgnoringExp(exp, now) == DecisionTtlS

Ttl(exp, now) == IF exp > 0 /\ exp - now < DecisionTtlS THEN exp - now ELSE DecisionTtlS

\* One element was pushed, so the eviction loop runs at most once.
EvictOldest(d) ==
  IF Cardinality(d.held) > MaxDecisions
  THEN LET victim == Last(d.lru) IN
       [d EXCEPT !.held = @ \ {victim}, !.entry[victim] = NoDecision, !.lru = Front(@)]
  ELSE d

Decision(exp, now) == [exp |-> exp, expiresAt |-> now + Ttl(exp, now)]

Store(d, k, exp, now) ==
  CASE Ttl(exp, now) <= 0 -> d
    [] Ttl(exp, now) > 0 /\ k \in d.held ->
         [d EXCEPT !.entry[k] = Decision(exp, now), !.lru = MoveToFront(@, k)]
    [] OTHER ->
         EvictOldest([d EXCEPT !.held = @ \cup {k}, !.entry[k] = Decision(exp, now),
                               !.lru = PushFront(@, k)])

DecisionsTypeOK(d) ==
  /\ DOMAIN d = {"held", "entry", "lru"}
  /\ d.held \subseteq Tokens
  /\ d.entry \in [Tokens -> [exp : Int, expiresAt : Int]]
==============================================================================
