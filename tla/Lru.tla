--------------------------------- MODULE Lru ---------------------------------
(***************************************************************************)
(* The recency lists of the two caches: a std::list of keys whose front is  *)
(* the most recently used one.                                              *)
(***************************************************************************)
EXTENDS Sequences, SequencesExt

PushFront(lru, k) == <<k>> \o lru
MoveToFront(lru, k) == PushFront(RemoveFirst(lru, k), k)
==============================================================================
