------------------------------ MODULE JwksCache ------------------------------
(***************************************************************************)
(* The JWKS key cache of jwks_cache.cpp: for every (jwks_uri, kid) pair the *)
(* signing keys last seen in the identity provider's key document, plus a   *)
(* negative cache of kids that a document did not contain.                  *)
(*                                                                          *)
(* The cache is a plain object: the process-wide mutex of QuackOauthState   *)
(* serialises its methods.  Each method is therefore an operator from the   *)
(* cache c and the arguments of the call to the new cache; the modules that *)
(* use the cache decide when a thread may apply one.                        *)
(*                                                                          *)
(* Data is abstracted as follows.  A key is a value of Keys, equal to       *)
(* another one iff SameKeyMaterial says so.  hits_ is the set c.hits with   *)
(* the entries in c.entry, misses_ the set c.misses with the stamps in      *)
(* c.missAt; both are total functions, holding NoEntry and NoStamp where    *)
(* the map has no element.  The throttling counters and the last refresh    *)
(* reason feed the diagnostics only and are left out.                       *)
(***************************************************************************)
EXTENDS Integers, Sequences, FiniteSets, SequencesExt, Lru

CONSTANTS
  Uris,               \* JWKS endpoints configured in this process
  Kids,               \* key identifiers
  Keys,               \* key material, up to SameKeyMaterial
  MaxKeysPerKid,      \* kMaxKeysPerKid
  MaxEntries,         \* max_entries_ of both LRU maps
  BudgetWindowS,      \* kGlobalFetchBudgetWindowSeconds
  ClockResetS,        \* kClockResetThresholdSeconds
  MaxMinRefreshS      \* upper end of the clamp on min_refresh_s

ASSUME CacheAssumption ==
  /\ MaxKeysPerKid \in Nat \ {0}
  /\ MaxEntries \in Nat \ {0}
  /\ BudgetWindowS \in Nat
  /\ ClockResetS \in Nat
  /\ MaxMinRefreshS \in Nat \ {0}

CacheKey == Uris \X Kids

NoStamp == 0          \* "never": stamps of the program are unix seconds, > 0
NoReservation == 0

NoEntry == [ keys |-> <<>>, fetchedAt |-> NoStamp, lastAttempt |-> NoStamp,
             reservation |-> NoReservation, absent |-> 0 ]

Clamp(x, lo, hi) == IF x < lo THEN lo ELSE IF x > hi THEN hi ELSE x

EmptyCache(minRefresh) ==
  [ hits            |-> {},
    entry           |-> [k \in CacheKey |-> NoEntry],
    hitLru          |-> <<>>,           \* front is the most recently written
    misses          |-> {},
    missAt          |-> [k \in CacheKey |-> NoStamp],
    missLru         |-> <<>>,
    minRefresh      |-> Clamp(minRefresh, 1, MaxMinRefreshS),
    lastGlobalFetch |-> NoStamp,
    lastSuccess     |-> [u \in Uris |-> NoStamp],
    nextReservation |-> 1 ]

SetMinRefreshSeconds(c, minRefresh) ==
  [c EXCEPT !.minRefresh = Clamp(minRefresh, 1, MaxMinRefreshS)]

(***************************************************************************)
(* Clock relation: a stamp in the future is either a minor rewind (another  *)
(* thread read the clock a little later, or NTP slewed) or a reset.         *)
(***************************************************************************)
RelateClock(now, stamp) ==
  CASE now >= stamp                              -> "Forward"
    [] now < stamp /\ stamp - now <= ClockResetS -> "MinorRewind"
    [] OTHER                                     -> "Reset"

(***************************************************************************)
(* Removal and eviction.                                                    *)
(***************************************************************************)
\* Mutant: the kid stays in the LRU list.
EraseHitKeepsLru(c, k) == [c EXCEPT !.hits = @ \ {k}, !.entry[k] = NoEntry]

EraseHit(c, k) ==
  [c EXCEPT !.hits = @ \ {k}, !.entry[k] = NoEntry, !.hitLru = RemoveFirst(@, k)]

EraseMiss(c, k) ==
  IF k \in c.misses
  THEN [c EXCEPT !.misses = @ \ {k}, !.missAt[k] = NoStamp, !.missLru = RemoveFirst(@, k)]
  ELSE c

\* Mutant: eviction one element early.
EvictLruHitEarly(c) ==
  IF Cardinality(c.hits) >= MaxEntries
  THEN LET victim == Last(c.hitLru) IN
       [c EXCEPT !.hits = @ \ {victim}, !.entry[victim] = NoEntry, !.hitLru = Front(@)]
  ELSE c

\* One element was inserted into a map within its bound, so the eviction loop
\* of the code runs at most once.
EvictLruHit(c) ==
  IF Cardinality(c.hits) > MaxEntries
  THEN LET victim == Last(c.hitLru) IN
       [c EXCEPT !.hits = @ \ {victim}, !.entry[victim] = NoEntry, !.hitLru = Front(@)]
  ELSE c

EvictLruMiss(c) ==
  IF Cardinality(c.misses) > MaxEntries
  THEN LET victim == Last(c.missLru) IN
       [c EXCEPT !.misses = @ \ {victim}, !.missAt[victim] = NoStamp, !.missLru = Front(@)]
  ELSE c

\* TrimToCap keeps the first keys; the passive union keeps the last ones.
TrimToCap(keys) ==
  IF Len(keys) > MaxKeysPerKid THEN SubSeq(keys, 1, MaxKeysPerKid) ELSE keys

\* Mutant: the union is not capped.
KeepAll(keys) == keys

KeepNewest(keys) ==
  IF Len(keys) > MaxKeysPerKid
  THEN SubSeq(keys, Len(keys) - MaxKeysPerKid + 1, Len(keys)) ELSE keys

\* SameKeyMaterial on vectors: equal up to reordering.
SameMaterial(ks, ls) == Len(ks) = Len(ls) /\ ToBag(ks) = ToBag(ls)

(***************************************************************************)
(* Lookup.  A recorded miss is honoured for minRefresh seconds, and for the *)
(* whole of a minor rewind.                                                 *)
(***************************************************************************)
MissIsFresh(c, k, now) ==
  /\ k \in c.misses
  /\ \/ RelateClock(now, c.missAt[k]) = "MinorRewind"
     \/ /\ RelateClock(now, c.missAt[k]) = "Forward"
        /\ now - c.missAt[k] < c.minRefresh

\* Mutant: the cache is keyed by the kid alone.
LookupAnyUri(c, k, now) ==
  IF \E j \in c.hits : j[2] = k[2]
  THEN [status |-> "Hit", keys |-> c.entry[CHOOSE j \in c.hits : j[2] = k[2]].keys]
  ELSE [status |-> IF MissIsFresh(c, k, now) THEN "RateLimited" ELSE "Miss", keys |-> <<>>]

Lookup(c, k, now) ==
  CASE k \in c.hits           -> [status |-> "Hit", keys |-> c.entry[k].keys]
    [] k \notin c.hits /\ MissIsFresh(c, k, now)
                              -> [status |-> "RateLimited", keys |-> <<>>]
    [] OTHER                  -> [status |-> "Miss", keys |-> <<>>]

(***************************************************************************)
(* The global fetch budget.                                                 *)
(***************************************************************************)
\* Mutant: every rewind counts as a reset.
CanFetchOnRewind(c, now) ==
  c.lastGlobalFetch <= 0 \/ now < c.lastGlobalFetch \/ now - c.lastGlobalFetch >= BudgetWindowS

CanFetchJwks(c, now) ==
  \/ c.lastGlobalFetch <= 0
  \/ RelateClock(now, c.lastGlobalFetch) = "Reset"
  \/ /\ RelateClock(now, c.lastGlobalFetch) = "Forward"
     /\ now - c.lastGlobalFetch >= BudgetWindowS

RecordJwksFetch(c, now) ==
  IF \/ now >= c.lastGlobalFetch
     \/ c.lastGlobalFetch > 0 /\ RelateClock(now, c.lastGlobalFetch) = "Reset"
  THEN [c EXCEPT !.lastGlobalFetch = now]
  ELSE c

HasFreshJwksDocument(c, now, uri) ==
  /\ c.lastSuccess[uri] > 0
  /\ RelateClock(now, c.lastSuccess[uri]) = "Forward"
  /\ now - c.lastSuccess[uri] < BudgetWindowS

RecordJwksFetchSuccess(c, now, uri) == [c EXCEPT !.lastSuccess[uri] = now]

(***************************************************************************)
(* Ingestion.                                                               *)
(***************************************************************************)
InsertHit(c, k, keys, now) ==
  EvictLruHit(
    [c EXCEPT !.hits     = @ \cup {k},
              !.entry[k] = [ keys |-> TrimToCap(keys), fetchedAt |-> now, lastAttempt |-> now,
                             reservation |-> NoReservation, absent |-> 0 ],
              !.hitLru   = PushFront(@, k)])

ReplacedEntry(e, keys, now) ==
  [e EXCEPT !.keys        = TrimToCap(keys),
            !.fetchedAt   = IF now > @ THEN now ELSE @,
            !.reservation = IF SameMaterial(e.keys, keys) THEN @ ELSE NoReservation,
            !.absent      = 0]

ReplaceHit(c, k, keys, now) ==
  [c EXCEPT !.entry[k] = ReplacedEntry(@, keys, now), !.hitLru = MoveToFront(@, k)]

OnFetchSuccess(c, k, keys, now) ==
  IF keys = <<>> THEN c
  ELSE LET d == EraseMiss(RecordJwksFetchSuccess(c, now, k[1]), k) IN
       IF k \in c.hits THEN ReplaceHit(d, k, keys, now) ELSE InsertHit(d, k, keys, now)

\* The elements of s at the indices I, in their order, and the indices where
\* an element occurs first.
SubSeqAt(s, I) == [n \in 1..Cardinality(I) |-> s[CHOOSE i \in I : Cardinality({j \in I : j <= i}) = n]]
Firsts(s) == {i \in DOMAIN s : \A j \in 1..(i - 1) : s[j] # s[i]}

\* The keys of the entry, then the new ones it does not have.
UnionKeys(old, new) == old \o SubSeqAt(new, {i \in Firsts(new) : new[i] \notin ToSet(old)})

UnitedEntry(e, keys) == [e EXCEPT !.keys = KeepNewest(UnionKeys(@, keys)), !.absent = 0]

OnPassiveFetchSuccess(c, k, keys, now) ==
  CASE keys = <<>>                  -> c
    [] keys # <<>> /\ k \in c.hits  -> [c EXCEPT !.entry[k] = UnitedEntry(@, keys)]
    [] OTHER                        -> OnFetchSuccess(c, k, keys, now)

OnFetchMiss(c, k, now) ==
  LET d == EraseMiss(c, k) IN
  EvictLruMiss([d EXCEPT !.misses = @ \cup {k}, !.missAt[k] = now, !.missLru = PushFront(@, k)])

(***************************************************************************)
(* Reserved refreshes of a cached kid.  TryReserveRefresh is split into its *)
(* condition and its effect; CommitRefresh likewise.                        *)
(***************************************************************************)
CanReserveRefresh(c, k, now) ==
  /\ k \in c.hits
  /\ \/ RelateClock(now, c.entry[k].lastAttempt) = "Reset"
     \/ /\ RelateClock(now, c.entry[k].lastAttempt) = "Forward"
        /\ now - c.entry[k].lastAttempt >= c.minRefresh

\* Mutant: the reservation counter does not move.
ReserveSameTicket(c, k, now) ==
  [c EXCEPT !.entry[k] = [@ EXCEPT !.lastAttempt = now, !.reservation = c.nextReservation]]

ReserveRefresh(c, k, now) ==
  [c EXCEPT !.entry[k] = [@ EXCEPT !.lastAttempt = now, !.reservation = c.nextReservation],
            !.nextReservation = @ + 1]

\* Mutant: any completion commits.
CanCommitAny(c, k, reservation, keys, now) ==
  reservation # NoReservation /\ keys # <<>> /\ k \in c.hits

CanCommitRefresh(c, k, reservation, keys, now) ==
  /\ reservation # NoReservation
  /\ keys # <<>>
  /\ k \in c.hits
  /\ c.entry[k].reservation = reservation
  /\ RelateClock(now, c.entry[k].fetchedAt) # "MinorRewind"

CommitRefresh(c, k, keys, now) ==
  [c EXCEPT !.entry[k] = [@ EXCEPT !.reservation = NoReservation, !.absent = 0,
                                   !.keys = TrimToCap(keys), !.fetchedAt = now],
            !.hitLru = MoveToFront(@, k)]

(***************************************************************************)
(* Corroborated eviction: two consecutive documents without the kid.        *)
(***************************************************************************)
OwnsRefresh(c, k, reservation) ==
  k \in c.hits /\ (reservation = NoReservation \/ c.entry[k].reservation = reservation)

\* Mutant: the first absence evicts.
EvictsOnFirstAbsence(c, k) == c.entry[k].absent + 1 >= 1

EvictsOnAbsence(c, k) == c.entry[k].absent + 1 >= 2

MissedEntry(e, now) ==
  [e EXCEPT !.reservation = NoReservation, !.lastAttempt = now, !.absent = @ + 1]

RecordKidAbsent(c, k, reservation, now) ==
  CASE ~OwnsRefresh(c, k, reservation) -> c
    [] OwnsRefresh(c, k, reservation) /\ EvictsOnAbsence(c, k) -> EraseHit(c, k)
    [] OTHER -> [c EXCEPT !.entry[k] = MissedEntry(@, now)]

\* Mutant: the kids of every endpoint are reconciled.
ReconciledEverywhere(c, uri, exclude) == {k \in c.hits : k[2] # exclude}

\* ReconcileAbsentKids: one loop counts, a second one erases (EraseHit) every
\* kid of AbsentTwice.
ReconciledKids(c, uri, exclude) == {k \in c.hits : k[1] = uri /\ k[2] # exclude}

CountedEntry(e, isPresent) == [e EXCEPT !.absent = IF isPresent THEN 0 ELSE @ + 1]

CountAbsences(c, present, uri, exclude) ==
  [c EXCEPT !.entry = [k \in CacheKey |->
     IF k \in ReconciledKids(c, uri, exclude)
     THEN CountedEntry(c.entry[k], k[2] \in present)
     ELSE c.entry[k]]]

AbsentTwice(c, present, uri, exclude) ==
  {k \in ReconciledKids(c, uri, exclude) : k[2] \notin present /\ EvictsOnAbsence(c, k)}

(***************************************************************************)
(* The types of the cache's fields.  What the key lists and the LRU lists   *)
(* hold is the subject of invariants of their own.                          *)
(***************************************************************************)
EntryTypeOK(e) ==
  /\ DOMAIN e = {"keys", "fetchedAt", "lastAttempt", "reservation", "absent"}
  /\ e.fetchedAt \in Nat /\ e.lastAttempt \in Nat
  /\ e.reservation \in Nat /\ e.absent \in Nat

CacheTypeOK(c) ==
  /\ DOMAIN c = {"hits", "entry", "hitLru", "misses", "missAt", "missLru", "minRefresh",
                 "lastGlobalFetch", "lastSuccess", "nextReservation"}
  /\ c.hits \subseteq CacheKey /\ c.misses \subseteq CacheKey
  /\ DOMAIN c.entry = CacheKey /\ \A k \in CacheKey : EntryTypeOK(c.entry[k])
  /\ c.missAt \in [CacheKey -> Nat]
  /\ c.minRefresh \in 1..MaxMinRefreshS
  /\ c.lastGlobalFetch \in Nat
  /\ c.lastSuccess \in [Uris -> Nat]
  /\ c.nextReservation \in Nat \ {0}
==============================================================================
