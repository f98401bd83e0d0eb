------------------------- MODULE JwksValidatorProofs -------------------------
(***************************************************************************)
(* Proofs about JwksValidator, for any number of threads, endpoints, kids,  *)
(* documents and tokens, any clock and any parameters of the cache:         *)
(*                                                                          *)
(*   TypeCorrect           Spec => []TypeOK                                 *)
(*   RefreshInvariant      Spec => []RefreshInv                             *)
(*   BudgetHolds           Spec => BudgetRespected                          *)
(*   CommitsOrdered        Spec => CommitsInOrder                           *)
(*   LruStaysConsistent    Spec => []LruConsistent                          *)
(*   EntriesStaySound      Spec => []EntriesSound                           *)
(*   AcceptedKeysListed    Spec => []AcceptedKeyWasListed                   *)
(*   KeysSurviveOutages    Spec => KeysOutliveOutage                        *)
(*   RefreshKeepsAccepted  Spec => RefreshAcceptsCachedKey                  *)
(*   EvictionsCorroborated Spec => EvictionCorroborated                     *)
(*   UsableKidsKept        Spec => UsableKidNotMissed                       *)
(*                                                                          *)
(* IInv == TypeOK /\ RefreshInv is inductive, and the other invariants are  *)
(* proved on top of it, each one relative to those before:                  *)
(*                                                                          *)
(*   KeyInv       lists and maps of the cache agree (Shape), and its keys,  *)
(*                like those of documents on their way, were listed under   *)
(*                their kid by their endpoint                               *)
(*   VerifiedInv  a refresh that matched its token finds the key in the     *)
(*                entry for as long as the kid is cached                    *)
(*   AbsenceInv   an absence count does not exceed the number of refreshes  *)
(*                that missed the kid                                       *)
(*   ColdInv      before the kid of a cold fetch, once ingested, only kids  *)
(*                of the same document stand in the LRU list                *)
(*                                                                          *)
(* CacheProofs is here for its lemmas on recency lists; the constants of the*)
(* decision cache that come with it occur in no statement below.            *)
(***************************************************************************)
EXTENDS JwksValidator, CacheProofs

(***************************************************************************)
(* Single operations of the cache: each one keeps the types, leaves the     *)
(* fetch budget and the reservation counter alone, never invents a          *)
(* reservation, keeps maps and LRU lists in agreement, and puts no key into *)
(* an entry that it was not given.                                          *)
(***************************************************************************)
\* d is a well-typed cache that differs from c in nothing the budget and the
\* refresh protocol read, except that entries may have lost a reservation.
Keeps(c, d) ==
  /\ CacheTypeOK(d)
  /\ d.lastGlobalFetch = c.lastGlobalFetch
  /\ d.nextReservation = c.nextReservation
  /\ d.minRefresh = c.minRefresh
  /\ \A k \in CacheKey : d.entry[k].reservation \in {NoReservation, c.entry[k].reservation}

\* Two such operations in a row are one.
LEMMA KeepsTransitive ==
  ASSUME NEW c, NEW d, NEW e, Keeps(c, d), Keeps(d, e)
  PROVE  Keeps(c, e)
  BY DEF Keeps

\* The entry of an absent kid is well typed.
LEMMA NoEntryTypeOK == EntryTypeOK(NoEntry)
  BY DEF EntryTypeOK, NoEntry, NoStamp, NoReservation

\* RecordJwksFetchSuccess stamps an endpoint and nothing else.
LEMMA RecordJwksFetchSuccessKeeps ==
  ASSUME NEW c, CacheTypeOK(c), NEW now \in Nat, NEW uri \in Uris
  PROVE  Keeps(c, RecordJwksFetchSuccess(c, now, uri))
  BY DEF Keeps, CacheTypeOK, EntryTypeOK, RecordJwksFetchSuccess

\* Erasing a kid from the hits or from the misses.
LEMMA EraseHitKeeps ==
  ASSUME NEW c, CacheTypeOK(c), NEW k \in CacheKey
  PROVE  Keeps(c, EraseHit(c, k))
  BY NoEntryTypeOK DEF Keeps, CacheTypeOK, EntryTypeOK, EraseHit, NoEntry, NoReservation

\* Erasing a kid from the misses leaves entries and counters alone.
LEMMA EraseMissKeeps ==
  ASSUME NEW c, CacheTypeOK(c), NEW k \in CacheKey
  PROVE  Keeps(c, EraseMiss(c, k))
  BY DEF Keeps, CacheTypeOK, EntryTypeOK, EraseMiss, NoStamp

\* The LRU evictions, whatever the list's last element is.
LEMMA EvictLruHitKeeps ==
  ASSUME NEW c, CacheTypeOK(c)
  PROVE  Keeps(c, EvictLruHit(c))
  BY NoEntryTypeOK DEF Keeps, CacheTypeOK, EntryTypeOK, EvictLruHit, NoEntry, NoReservation

\* Evicting a miss leaves entries and counters alone.
LEMMA EvictLruMissKeeps ==
  ASSUME NEW c, CacheTypeOK(c)
  PROVE  Keeps(c, EvictLruMiss(c))
  BY DEF Keeps, CacheTypeOK, EntryTypeOK, EvictLruMiss, NoStamp

\* OnFetchSuccess: a new entry starts without a reservation, a replaced one
\* keeps its reservation or loses it.
LEMMA InsertHitKeeps ==
  ASSUME NEW c, CacheTypeOK(c), NEW k \in CacheKey, NEW keys, NEW now \in Nat
  PROVE  Keeps(c, InsertHit(c, k, keys, now))
<1> DEFINE e == [ keys |-> TrimToCap(keys), fetchedAt |-> now, lastAttempt |-> now,
                  reservation |-> NoReservation, absent |-> 0 ]
           d == [c EXCEPT !.hits = @ \cup {k}, !.entry[k] = e, !.hitLru = PushFront(@, k)]
<1>1. EntryTypeOK(e) /\ e.reservation = NoReservation
  BY DEF EntryTypeOK, NoReservation
<1> HIDE DEF e
<1>2. Keeps(c, d)
  BY <1>1 DEF Keeps, CacheTypeOK
<1>3. Keeps(d, EvictLruHit(d))
  BY <1>2, EvictLruHitKeeps DEF Keeps
<1>4. InsertHit(c, k, keys, now) = EvictLruHit(d)
  BY DEF InsertHit, e
<1> QED BY <1>2, <1>3, <1>4, KeepsTransitive

\* OnFetchSuccess on a cached kid: its reservation stays or is cleared.
LEMMA ReplaceHitKeeps ==
  ASSUME NEW c, CacheTypeOK(c), NEW k \in CacheKey, NEW keys, NEW now \in Nat
  PROVE  Keeps(c, ReplaceHit(c, k, keys, now))
<1> DEFINE e == ReplacedEntry(c.entry[k], keys, now)
<1>1. EntryTypeOK(e) /\ e.reservation \in {NoReservation, c.entry[k].reservation}
  BY DEF EntryTypeOK, CacheTypeOK, ReplacedEntry, NoReservation
<1>2. ReplaceHit(c, k, keys, now) = [c EXCEPT !.entry[k] = e, !.hitLru = MoveToFront(@, k)]
  BY DEF ReplaceHit, CacheTypeOK
<1> HIDE DEF e
<1> QED BY <1>1, <1>2 DEF Keeps, CacheTypeOK

\* OnFetchSuccess as a whole.
LEMMA OnFetchSuccessKeeps ==
  ASSUME NEW c, CacheTypeOK(c), NEW k \in CacheKey, NEW keys, NEW now \in Nat
  PROVE  Keeps(c, OnFetchSuccess(c, k, keys, now))
<1> DEFINE b == RecordJwksFetchSuccess(c, now, k[1])
           d == EraseMiss(b, k)
<1>1. k[1] \in Uris
  BY DEF CacheKey
<1>2. Keeps(c, b)
  BY <1>1, RecordJwksFetchSuccessKeeps
<1>3. Keeps(b, d)
  BY <1>2, EraseMissKeeps DEF Keeps
<1>4. Keeps(c, d)
  BY <1>2, <1>3, KeepsTransitive
<1>5. Keeps(d, ReplaceHit(d, k, keys, now)) /\ Keeps(d, InsertHit(d, k, keys, now))
  BY <1>4, ReplaceHitKeeps, InsertHitKeeps DEF Keeps
<1>6. Keeps(c, ReplaceHit(d, k, keys, now)) /\ Keeps(c, InsertHit(d, k, keys, now))
  BY <1>4, <1>5, KeepsTransitive
<1>7. Keeps(c, c)
  BY DEF Keeps
<1> QED BY <1>6, <1>7 DEF OnFetchSuccess

\* OnPassiveFetchSuccess: the reservation of an existing entry survives.
LEMMA OnPassiveFetchSuccessKeeps ==
  ASSUME NEW c, CacheTypeOK(c), NEW k \in CacheKey, NEW keys, NEW now \in Nat
  PROVE  Keeps(c, OnPassiveFetchSuccess(c, k, keys, now))
<1> DEFINE e == UnitedEntry(c.entry[k], keys)
<1>1. EntryTypeOK(e) /\ e.reservation = c.entry[k].reservation
  BY DEF EntryTypeOK, CacheTypeOK, UnitedEntry
<1>2. [c EXCEPT !.entry[k] = UnitedEntry(@, keys)] = [c EXCEPT !.entry[k] = e]
  BY DEF CacheTypeOK
<1> HIDE DEF e
<1>3. Keeps(c, [c EXCEPT !.entry[k] = e])
  BY <1>1 DEF Keeps, CacheTypeOK
<1>4. Keeps(c, c)
  BY DEF Keeps
<1> QED BY <1>2, <1>3, <1>4, OnFetchSuccessKeeps DEF OnPassiveFetchSuccess

\* OnFetchMiss touches the misses only.
LEMMA OnFetchMissKeeps ==
  ASSUME NEW c, CacheTypeOK(c), NEW k \in CacheKey, NEW now \in Nat
  PROVE  Keeps(c, OnFetchMiss(c, k, now))
<1> DEFINE d == EraseMiss(c, k)
           e == [d EXCEPT !.misses = @ \cup {k}, !.missAt[k] = now, !.missLru = PushFront(@, k)]
<1>1. Keeps(c, d)
  BY EraseMissKeeps
<1> HIDE DEF d
<1>2. Keeps(d, e)
  BY <1>1 DEF Keeps, CacheTypeOK, EntryTypeOK
<1>3. Keeps(e, EvictLruMiss(e))
  BY <1>2, EvictLruMissKeeps DEF Keeps
<1>4. OnFetchMiss(c, k, now) = EvictLruMiss(e)
  BY DEF OnFetchMiss, d
<1> HIDE DEF e
<1> QED BY <1>1, <1>2, <1>3, <1>4, KeepsTransitive

\* The outcomes of a refresh.
LEMMA CommitRefreshKeeps ==
  ASSUME NEW c, CacheTypeOK(c), NEW k \in CacheKey, NEW keys, NEW now \in Nat
  PROVE  /\ Keeps(c, CommitRefresh(c, k, keys, now))
         /\ CommitRefresh(c, k, keys, now).entry[k].reservation = NoReservation
<1> DEFINE e == [c.entry[k] EXCEPT !.reservation = NoReservation, !.absent = 0,
                                   !.keys = TrimToCap(keys), !.fetchedAt = now]
<1>1. EntryTypeOK(e) /\ e.reservation = NoReservation
  BY DEF EntryTypeOK, CacheTypeOK, NoReservation
<1>2. CommitRefresh(c, k, keys, now) = [c EXCEPT !.entry[k] = e, !.hitLru = MoveToFront(@, k)]
  BY DEF CommitRefresh, CacheTypeOK
<1> HIDE DEF e
<1> QED BY <1>1, <1>2 DEF Keeps, CacheTypeOK

\* RecordKidAbsent clears the reservation or the whole entry.
LEMMA RecordKidAbsentKeeps ==
  ASSUME NEW c, CacheTypeOK(c), NEW k \in CacheKey, NEW reservation, NEW now \in Nat
  PROVE  Keeps(c, RecordKidAbsent(c, k, reservation, now))
<1> DEFINE e == MissedEntry(c.entry[k], now)
<1>1. EntryTypeOK(e) /\ e.reservation = NoReservation
  BY DEF EntryTypeOK, CacheTypeOK, MissedEntry, NoReservation
<1>2. [c EXCEPT !.entry[k] = MissedEntry(@, now)] = [c EXCEPT !.entry[k] = e]
  BY DEF CacheTypeOK
<1> HIDE DEF e
<1>3. Keeps(c, [c EXCEPT !.entry[k] = e])
  BY <1>1 DEF Keeps, CacheTypeOK
<1>4. Keeps(c, c)
  BY DEF Keeps
<1> QED BY <1>2, <1>3, <1>4, EraseHitKeeps DEF RecordKidAbsent

\* The first loop of ReconcileAbsentKids changes absence counts only.
LEMMA CountAbsencesKeeps ==
  ASSUME NEW c, CacheTypeOK(c), NEW present, NEW uri, NEW exclude
  PROVE  /\ Keeps(c, CountAbsences(c, present, uri, exclude))
         /\ \A k \in CacheKey : CountAbsences(c, present, uri, exclude).entry[k].reservation
                                  = c.entry[k].reservation
<1> DEFINE new == [k \in CacheKey |->
             IF k \in ReconciledKids(c, uri, exclude)
             THEN CountedEntry(c.entry[k], k[2] \in present)
             ELSE c.entry[k]]
<1>1. ASSUME NEW k \in CacheKey
      PROVE  EntryTypeOK(new[k]) /\ new[k].reservation = c.entry[k].reservation
  BY DEF EntryTypeOK, CacheTypeOK, CountedEntry
<1>2. CountAbsences(c, present, uri, exclude) = [c EXCEPT !.entry = new]
  BY DEF CountAbsences
<1>3. DOMAIN new = CacheKey
  OBVIOUS
<1> HIDE DEF new
<1> QED BY <1>1, <1>2, <1>3 DEF Keeps, CacheTypeOK

\* TryReserveRefresh hands out the next identifier and advances the counter.
LEMMA ReserveRefreshReserves ==
  ASSUME NEW c, CacheTypeOK(c), NEW k \in CacheKey, NEW now \in Nat
  PROVE  LET d == ReserveRefresh(c, k, now) IN
         /\ CacheTypeOK(d)
         /\ d.lastGlobalFetch = c.lastGlobalFetch /\ d.minRefresh = c.minRefresh
         /\ d.nextReservation = c.nextReservation + 1
         /\ d.entry[k].reservation = c.nextReservation
         /\ \A j \in CacheKey \ {k} : d.entry[j] = c.entry[j]
<1> DEFINE e == [c.entry[k] EXCEPT !.lastAttempt = now, !.reservation = c.nextReservation]
<1>1. EntryTypeOK(e) /\ e.reservation = c.nextReservation
  BY DEF EntryTypeOK, CacheTypeOK
<1>2. ReserveRefresh(c, k, now) = [c EXCEPT !.entry[k] = e, !.nextReservation = @ + 1]
  BY DEF ReserveRefresh, CacheTypeOK
<1> HIDE DEF e
<1> QED BY <1>1, <1>2 DEF CacheTypeOK

\* A fetch that the budget allows moves the budget stamp to its own time.
LEMMA RecordJwksFetchStamps ==
  ASSUME NEW c, CacheTypeOK(c), NEW now \in Nat, CanFetchJwks(c, now)
  PROVE  RecordJwksFetch(c, now) = [c EXCEPT !.lastGlobalFetch = now]
  BY CacheAssumption DEF CacheTypeOK, CanFetchJwks, RecordJwksFetch, RelateClock

(***************************************************************************)
(* Key lists: selecting, trimming and merging them.                         *)
(***************************************************************************)
\* ks lists keys of m, each once.
Distinct(ks, m) == ks \in Seq(m) /\ IsInjective(ks)

\* What a list is made of.
LEMMA SeqFacts ==
  ASSUME NEW S, NEW s \in Seq(S)
  PROVE  /\ Len(s) \in Nat /\ DOMAIN s = 1..Len(s)
         /\ \A i \in 1..Len(s) : s[i] \in S
         /\ ToSet(s) \subseteq S
         /\ \A x : x \in ToSet(s) <=> \E i \in 1..Len(s) : s[i] = x
         /\ s # <<>> => Len(s) # 0
<1>1. Len(s) \in Nat /\ DOMAIN s = 1..Len(s) /\ \A i \in 1..Len(s) : s[i] \in S
  BY LenProperties, ElementOfSeq
<1>2. s # <<>> => Len(s) # 0
  BY <1>1, EmptySeq
<1> QED BY <1>1, <1>2 DEF ToSet

\* Selecting indices keeps the elements there, in number and, if they were
\* distinct, distinct.
LEMMA SubSeqAtIs ==
  ASSUME NEW S, NEW s \in Seq(S), NEW I \in SUBSET (DOMAIN s)
  PROVE  /\ SubSeqAt(s, I) \in Seq(S)
         /\ IsFiniteSet(I) /\ Len(SubSeqAt(s, I)) = Cardinality(I)
         /\ ToSet(SubSeqAt(s, I)) = {s[i] : i \in I}
         /\ (\A i, j \in I : s[i] = s[j] => i = j) => IsInjective(SubSeqAt(s, I))
<1>1. Len(s) \in Nat /\ DOMAIN s = 1..Len(s) /\ \A i \in 1..Len(s) : s[i] \in S
  BY SeqFacts
<1>2. IsFiniteSet(1..Len(s))
  BY <1>1, FS_Interval
<1>3. IsFiniteSet(I) /\ Cardinality(I) \in Nat
  BY <1>1, <1>2, FS_Subset, FS_CardinalityType
<1> DEFINE N == Cardinality(I)
           upTo(i) == {j \in I : j <= i}
           f == [i \in I |-> Cardinality(upTo(i))]
           at(n) == CHOOSE i \in I : Cardinality(upTo(i)) = n
<1>4. ASSUME NEW i \in I
      PROVE  IsFiniteSet(upTo(i)) /\ Cardinality(upTo(i)) \in 1..N
  <2>1. upTo(i) \in SUBSET I
    OBVIOUS
  <2>2. IsFiniteSet(upTo(i)) /\ Cardinality(upTo(i)) <= N
    BY <1>3, <2>1, FS_Subset
  <2>3. i \in upTo(i)
    BY <1>1
  <2>4. Cardinality(upTo(i)) \in Nat /\ Cardinality(upTo(i)) # 0
    BY <2>2, <2>3, FS_CardinalityType, FS_EmptySet
  <2> HIDE DEF upTo
  <2> QED BY <1>3, <2>2, <2>4
<1>5. ASSUME NEW i \in I, NEW k \in I, i < k
      PROVE  Cardinality(upTo(i)) # Cardinality(upTo(k))
  <2>1. upTo(i) \in SUBSET upTo(k) /\ k \in upTo(k) /\ k \notin upTo(i)
    BY <1>1, <1>5
  <2> QED BY <1>4, <2>1, FS_Subset
<1>6. f \in Injection(I, 1..N)
  <2>1. f \in [I -> 1..N]
    BY <1>4
  <2>2. ASSUME NEW i \in I, NEW k \in I, f[i] = f[k] PROVE i = k
    <3>1. Cardinality(upTo(i)) = Cardinality(upTo(k))
      BY <2>2
    <3> HIDE DEF upTo
    <3> QED BY <1>1, <1>5, <3>1
  <2> HIDE DEF f
  <2> QED BY <2>1, <2>2 DEF Injection, IsInjective
<1>7. IsFiniteSet(1..N) /\ Cardinality(1..N) = N
  BY <1>3, FS_Interval
<1>8. f \in Surjection(I, 1..N)
  <2> HIDE DEF f
  <2> QED BY <1>6, <1>7, FS_Injection
<1>9. ASSUME NEW n \in 1..N
      PROVE  at(n) \in I /\ f[at(n)] = n
  <2>1. PICK i \in I : f[i] = n
    BY <1>8 DEF Surjection
  <2>2. Cardinality(upTo(i)) = n
    BY <2>1
  <2> HIDE DEF upTo
  <2>3. at(n) \in I /\ Cardinality(upTo(at(n))) = n
    BY <2>2
  <2> QED BY <2>3
<1> DEFINE q == SubSeqAt(s, I)
<1>10. q = [n \in 1..N |-> s[at(n)]]
  BY DEF SubSeqAt
<1> HIDE DEF f, at, N
<1>11. DOMAIN q = 1..N /\ \A n \in 1..N : q[n] = s[at(n)] /\ q[n] \in S
  BY <1>1, <1>9, <1>10
<1>12. N \in Nat /\ N = Cardinality(I)
  BY <1>3 DEF N
<1>13. q \in Seq(S) /\ Len(q) = N
  <2> HIDE DEF q
  <2>1. q = [n \in 1..N |-> q[n]]
    BY <1>10, <1>11
  <2> QED BY <1>11, <1>12, <2>1, SeqByElements
<1> HIDE DEF q
<1>14. ToSet(q) = {s[i] : i \in I}
  <2>1. ASSUME NEW x \in ToSet(q) PROVE x \in {s[i] : i \in I}
    BY <1>9, <1>11, <2>1 DEF ToSet
  <2>2. ASSUME NEW i \in I PROVE s[i] \in ToSet(q)
    <3>1. f[i] \in 1..N
      BY <1>6 DEF Injection
    <3>2. at(f[i]) = i
      BY <1>6, <1>9, <3>1 DEF Injection, IsInjective
    <3> QED BY <1>11, <3>1, <3>2 DEF ToSet
  <2> QED BY <2>1, <2>2
<1>15. ASSUME \A i, j \in I : s[i] = s[j] => i = j
       PROVE  IsInjective(q)
  <2> SUFFICES ASSUME NEW a \in 1..N, NEW b \in 1..N, q[a] = q[b] PROVE a = b
    BY <1>11 DEF IsInjective
  <2>1. at(a) = at(b)
    BY <1>9, <1>11, <1>15
  <2> QED BY <1>9, <2>1
<1> QED BY <1>3, <1>12, <1>13, <1>14, <1>15 DEF q

\* A key list by the elements it may hold.
LEMMA SeqNarrow ==
  ASSUME NEW S, NEW T, NEW s \in Seq(S), ToSet(s) \subseteq T
  PROVE  s \in Seq(T)
<1>1. Len(s) \in Nat /\ DOMAIN s = 1..Len(s) /\ s \in [1..Len(s) -> S]
  BY LenProperties
<1>2. \A i \in 1..Len(s) : s[i] \in T
  BY <1>1 DEF ToSet
<1>3. s = [i \in 1..Len(s) |-> s[i]]
  BY <1>1
<1> QED BY <1>1, <1>2, <1>3, SeqByElements

\* SubSeq of a list without duplicates.
LEMMA SubSeqDistinct ==
  ASSUME NEW m, NEW ks, Distinct(ks, m), NEW a \in Nat \ {0}, NEW b \in Nat, a <= b, b <= Len(ks)
  PROVE  LET s == SubSeq(ks, a, b) IN
         /\ Distinct(s, m) /\ Len(s) = b - a + 1 /\ s[1] = ks[a] /\ ToSet(s) \subseteq ToSet(ks)
<1> DEFINE s == SubSeq(ks, a, b)
<1>1. Len(ks) \in Nat /\ DOMAIN ks = 1..Len(ks) /\ \A i \in 1..Len(ks) : ks[i] \in m
  BY SeqFacts DEF Distinct
<1>2. \A i \in a..b : ks[i] \in m
  BY <1>1
<1>3. /\ s \in Seq(m) /\ Len(s) = b - a + 1
      /\ \A i \in 1..(b - a + 1) : s[i] = ks[a + i - 1]
  BY <1>2, SubSeqProperties
<1>4. DOMAIN s = 1..(b - a + 1)
  BY <1>3, LenProperties
<1> HIDE DEF s
<1>5. \A i \in 1..(b - a + 1) : a + i - 1 \in 1..Len(ks)
  BY <1>1
<1>6. IsInjective(s)
  <2> SUFFICES ASSUME NEW i \in 1..(b - a + 1), NEW j \in 1..(b - a + 1), s[i] = s[j] PROVE i = j
    BY <1>4 DEF IsInjective
  <2>1. \A u, v \in 1..Len(ks) : ks[u] = ks[v] => u = v
    BY <1>1 DEF Distinct, IsInjective
  <2>2. a + i - 1 = a + j - 1
    BY <1>3, <1>5, <2>1
  <2> QED BY <2>2
<1>7. s[1] = ks[a]
  <2>1. 1 \in 1..(b - a + 1) /\ a + 1 - 1 = a
    OBVIOUS
  <2> QED BY <1>3, <2>1
<1>8. ToSet(s) \subseteq ToSet(ks)
  BY <1>1, <1>3, <1>4, <1>5 DEF ToSet
<1> QED BY <1>3, <1>6, <1>7, <1>8 DEF Distinct, s

\* TrimToCap: at most the cap, at least the first key.
LEMMA TrimToCapIs ==
  ASSUME NEW m, NEW ks, Distinct(ks, m), ks # <<>>
  PROVE  LET s == TrimToCap(ks) IN
         /\ Distinct(s, m) /\ Len(s) \in 1..MaxKeysPerKid /\ s[1] = ks[1]
         /\ ToSet(s) \subseteq ToSet(ks) /\ ks[1] \in ToSet(s)
<1>1. Len(ks) \in Nat \ {0} /\ MaxKeysPerKid \in Nat \ {0}
  BY SeqFacts, CacheAssumption DEF Distinct
<1> DEFINE s == TrimToCap(ks)
<1>2. Distinct(s, m) /\ Len(s) \in 1..MaxKeysPerKid /\ s[1] = ks[1] /\ ToSet(s) \subseteq ToSet(ks)
  <2>1. CASE Len(ks) > MaxKeysPerKid
    <3>1. s = SubSeq(ks, 1, MaxKeysPerKid)
      BY <2>1 DEF TrimToCap
    <3>2. 1 \in Nat \ {0} /\ MaxKeysPerKid \in Nat /\ 1 <= MaxKeysPerKid /\ MaxKeysPerKid <= Len(ks)
      BY <1>1, <2>1
    <3> HIDE DEF s
    <3> QED BY <1>1, <3>1, <3>2, SubSeqDistinct
  <2>2. CASE ~(Len(ks) > MaxKeysPerKid)
    BY <1>1, <2>2 DEF TrimToCap
  <2> QED BY <2>1, <2>2
<1> HIDE DEF s
<1>3. 1 \in 1..Len(s) /\ s \in Seq(m)
  BY <1>1, <1>2 DEF Distinct
<1>4. ks[1] \in ToSet(s)
  BY <1>2, <1>3, SeqFacts
<1> QED BY <1>2, <1>4 DEF s

\* The passive union keeps between one key and the cap.
LEMMA KeepNewestIs ==
  ASSUME NEW m, NEW ks, Distinct(ks, m), ks # <<>>
  PROVE  Distinct(KeepNewest(ks), m) /\ Len(KeepNewest(ks)) \in 1..MaxKeysPerKid
<1>1. Len(ks) \in Nat \ {0} /\ MaxKeysPerKid \in Nat \ {0}
  BY SeqFacts, CacheAssumption DEF Distinct
<1>2. CASE Len(ks) > MaxKeysPerKid
  <2> DEFINE a == Len(ks) - MaxKeysPerKid + 1
  <2>1. KeepNewest(ks) = SubSeq(ks, a, Len(ks))
    BY <1>2 DEF KeepNewest
  <2>2. a \in Nat \ {0} /\ a <= Len(ks) /\ Len(ks) - a + 1 = MaxKeysPerKid /\ Len(ks) \in Nat
    BY <1>1, <1>2
  <2> HIDE DEF a
  <2>3. Distinct(SubSeq(ks, a, Len(ks)), m) /\ Len(SubSeq(ks, a, Len(ks))) = Len(ks) - a + 1
    BY <2>2, SubSeqDistinct
  <2> QED BY <1>1, <2>1, <2>2, <2>3
<1>3. CASE ~(Len(ks) > MaxKeysPerKid)
  BY <1>1, <1>3 DEF KeepNewest
<1> QED BY <1>2, <1>3

\* The first occurrences are distinct.
LEMMA FirstsDistinct ==
  ASSUME NEW S, NEW s \in Seq(S)
  PROVE  Firsts(s) \subseteq DOMAIN s /\ \A i, j \in Firsts(s) : s[i] = s[j] => i = j
<1>1. Len(s) \in Nat /\ DOMAIN s = 1..Len(s)
  BY SeqFacts
<1> QED BY <1>1 DEF Firsts

\* Two lists without a common key, one after the other.
LEMMA ConcatDistinct ==
  ASSUME NEW m, NEW a, NEW b, Distinct(a, m), Distinct(b, m), ToSet(a) \cap ToSet(b) = {}
  PROVE  /\ Distinct(a \o b, m) /\ Len(a \o b) = Len(a) + Len(b)
         /\ ToSet(a \o b) = ToSet(a) \cup ToSet(b)
<1> DEFINE s == a \o b
<1>1. a \in Seq(m) /\ b \in Seq(m)
  BY DEF Distinct
<1>2. /\ Len(a) \in Nat /\ DOMAIN a = 1..Len(a) /\ Len(b) \in Nat /\ DOMAIN b = 1..Len(b)
      /\ \A x : x \in ToSet(a) <=> \E i \in 1..Len(a) : a[i] = x
      /\ \A x : x \in ToSet(b) <=> \E i \in 1..Len(b) : b[i] = x
  BY <1>1, SeqFacts
<1>3. /\ s \in Seq(m) /\ Len(s) = Len(a) + Len(b)
      /\ \A i \in 1..(Len(a) + Len(b)) : s[i] = IF i <= Len(a) THEN a[i] ELSE b[i - Len(a)]
  BY <1>1, ConcatProperties
<1>4. DOMAIN s = 1..(Len(a) + Len(b))
  BY <1>3, LenProperties
<1> HIDE DEF s
<1>5. \A i \in 1..(Len(a) + Len(b)) :
        \/ i \in 1..Len(a) /\ s[i] = a[i] /\ s[i] \in ToSet(a)
        \/ i - Len(a) \in 1..Len(b) /\ s[i] = b[i - Len(a)] /\ s[i] \in ToSet(b)
  BY <1>2, <1>3
<1>6. IsInjective(s)
  <2> SUFFICES ASSUME NEW i \in 1..(Len(a) + Len(b)), NEW j \in 1..(Len(a) + Len(b)), s[i] = s[j]
               PROVE  i = j
    BY <1>4 DEF IsInjective
  <2>1. /\ \A u, v \in 1..Len(a) : a[u] = a[v] => u = v
        /\ \A u, v \in 1..Len(b) : b[u] = b[v] => u = v
    BY <1>2 DEF Distinct, IsInjective
  <2>2. CASE s[i] \in ToSet(a)
    BY <1>5, <2>1, <2>2
  <2>3. CASE s[i] \in ToSet(b)
    <3>1. i - Len(a) \in 1..Len(b) /\ j - Len(a) \in 1..Len(b) /\ b[i - Len(a)] = b[j - Len(a)]
      BY <1>5, <2>3
    <3>2. i - Len(a) = j - Len(a)
      BY <2>1, <3>1
    <3> QED BY <1>2, <3>2
  <2> QED BY <1>5, <2>2, <2>3
<1>7. ToSet(s) = ToSet(a) \cup ToSet(b)
  <2>1. ASSUME NEW x \in ToSet(s) PROVE x \in ToSet(a) \cup ToSet(b)
    BY <1>4, <1>5, <2>1 DEF ToSet
  <2>2. ASSUME NEW x \in ToSet(a) PROVE x \in ToSet(s)
    <3>1. PICK i \in 1..Len(a) : a[i] = x
      BY <1>2, <2>2
    <3>2. i \in 1..(Len(a) + Len(b)) /\ s[i] = x
      BY <1>2, <1>3, <3>1
    <3> QED BY <1>4, <3>2 DEF ToSet
  <2>3. ASSUME NEW x \in ToSet(b) PROVE x \in ToSet(s)
    <3>1. PICK i \in 1..Len(b) : b[i] = x
      BY <1>2, <2>3
    <3>2. i + Len(a) \in 1..(Len(a) + Len(b)) /\ ~(i + Len(a) <= Len(a)) /\ i + Len(a) - Len(a) = i
      BY <1>2, <3>1
    <3>3. s[i + Len(a)] = x
      BY <1>3, <3>1, <3>2
    <3> QED BY <1>4, <3>2, <3>3 DEF ToSet
  <2> QED BY <2>1, <2>2, <2>3
<1> QED BY <1>3, <1>6, <1>7 DEF Distinct, s

\* The passive union brings in no key twice and none from elsewhere.
LEMMA UnionKeysIs ==
  ASSUME NEW m, NEW old, Distinct(old, m), NEW new \in Seq(m)
  PROVE  Distinct(UnionKeys(old, new), m) /\ ToSet(old) \subseteq ToSet(UnionKeys(old, new))
         /\ Len(UnionKeys(old, new)) >= Len(old)
<1> DEFINE I == {i \in Firsts(new) : new[i] \notin ToSet(old)}
           add == SubSeqAt(new, I)
<1>1. I \in SUBSET (DOMAIN new) /\ \A i, j \in I : new[i] = new[j] => i = j
  BY FirstsDistinct
<1>2. ToSet(old) \cap {new[i] : i \in I} = {}
  OBVIOUS
<1>3. UnionKeys(old, new) = old \o add
  BY DEF UnionKeys
<1> HIDE DEF I
<1>4. add \in Seq(m) /\ IsInjective(add) /\ ToSet(add) = {new[i] : i \in I}
  BY <1>1, SubSeqAtIs
<1> HIDE DEF add
<1>5. /\ Distinct(old \o add, m) /\ Len(old \o add) = Len(old) + Len(add)
      /\ ToSet(old \o add) = ToSet(old) \cup ToSet(add)
  BY <1>2, <1>4, ConcatDistinct DEF Distinct
<1>6. Len(old) \in Nat /\ Len(add) \in Nat
  BY <1>4, SeqFacts DEF Distinct
<1> QED BY <1>3, <1>5, <1>6

(***************************************************************************)
(* The shape of the cache: every map element has its place in the LRU list  *)
(* and both maps stay within their bound.                                   *)
(***************************************************************************)
Shape(c) ==
  /\ CacheTypeOK(c)
  /\ Lists(c.hitLru, c.hits, CacheKey) /\ Lists(c.missLru, c.misses, CacheKey)
  /\ Len(c.hitLru) <= MaxEntries /\ Len(c.missLru) <= MaxEntries
  /\ \A k \in CacheKey \ c.hits : c.entry[k] = NoEntry

\* d has the same kids as c, in the same order, and the same entries.
SameHits(c, d) == d.hits = c.hits /\ d.hitLru = c.hitLru /\ d.entry = c.entry

\* From c to d only the entry of k changes or goes.
ChangesOnly(c, d, k) ==
  \A j \in CacheKey \ {k} : d.entry[j] = c.entry[j] /\ (j \in d.hits <=> j \in c.hits)

\* An operation that leaves both lists alone.
LEMMA ShapeKept ==
  ASSUME NEW c, Shape(c), NEW d, CacheTypeOK(d), d.hits = c.hits, d.hitLru = c.hitLru,
         d.misses = c.misses, d.missLru = c.missLru,
         \A k \in CacheKey \ c.hits : d.entry[k] = c.entry[k]
  PROVE  Shape(d)
  BY DEF Shape

\* The number of cached kids is the length of their list.
LEMMA HitsCounted ==
  ASSUME NEW c, Shape(c)
  PROVE  /\ IsFiniteSet(c.hits) /\ Cardinality(c.hits) = Len(c.hitLru) /\ Len(c.hitLru) \in Nat
         /\ Cardinality(c.hits) <= MaxEntries
  BY ListLength DEF Shape

\* The stamps: an endpoint's last success, the budget, a new floor.
LEMMA StampsShape ==
  ASSUME NEW c, Shape(c), NEW now \in Nat, NEW uri \in Uris
  PROVE  /\ Shape(RecordJwksFetchSuccess(c, now, uri))
         /\ SameHits(c, RecordJwksFetchSuccess(c, now, uri))
         /\ Shape([c EXCEPT !.lastGlobalFetch = now])
         /\ SameHits(c, [c EXCEPT !.lastGlobalFetch = now])
<1> DEFINE d == RecordJwksFetchSuccess(c, now, uri)
           e == [c EXCEPT !.lastGlobalFetch = now]
<1>1. CacheTypeOK(d)
  BY RecordJwksFetchSuccessKeeps DEF Shape, Keeps
<1>2. SameHits(c, d) /\ d.misses = c.misses /\ d.missLru = c.missLru
  BY DEF Shape, CacheTypeOK, SameHits, RecordJwksFetchSuccess
<1>3. CacheTypeOK(e) /\ SameHits(c, e) /\ e.misses = c.misses /\ e.missLru = c.missLru
  BY DEF Shape, CacheTypeOK, SameHits
<1> HIDE DEF d, e
<1>4. Shape(d) /\ Shape(e)
  BY <1>1, <1>2, <1>3, ShapeKept DEF SameHits
<1> QED BY <1>2, <1>3, <1>4 DEF d, e

\* Erasing a kid takes its list element along.
LEMMA EraseHitShape ==
  ASSUME NEW c, Shape(c), NEW k \in CacheKey
  PROVE  LET d == EraseHit(c, k) IN
         /\ Shape(d) /\ ChangesOnly(c, d, k) /\ d.hits = c.hits \ {k}
         /\ d.entry[k] = NoEntry
<1> DEFINE d == EraseHit(c, k)
           l == RemoveFirst(c.hitLru, k)
<1>1. CacheTypeOK(d)
  BY EraseHitKeeps DEF Shape, Keeps
<1>2. /\ d.hits = c.hits \ {k} /\ d.hitLru = l /\ d.misses = c.misses /\ d.missLru = c.missLru
      /\ d.entry = [c.entry EXCEPT ![k] = NoEntry]
  BY DEF Shape, CacheTypeOK, EraseHit
<1>3. Lists(l, c.hits \ {k}, CacheKey)
  BY RemoveFirstLists DEF Shape
<1> HIDE DEF d, l
<1>4. Len(l) <= MaxEntries
  <2>1. Cardinality(c.hits \ {k}) <= Cardinality(c.hits) /\ Cardinality(c.hits \ {k}) \in Nat
    BY HitsCounted, FS_Subset, FS_CardinalityType
  <2>2. Len(l) = Cardinality(c.hits \ {k})
    BY <1>3, ListLength
  <2> QED BY <2>1, <2>2, HitsCounted, CacheAssumption
<1>5. d.entry[k] = NoEntry /\ \A j \in CacheKey \ {k} : d.entry[j] = c.entry[j]
  BY <1>2 DEF Shape, CacheTypeOK
<1>6. Shape(d)
  BY <1>1, <1>2, <1>3, <1>4, <1>5 DEF Shape
<1> QED BY <1>2, <1>5, <1>6 DEF ChangesOnly, d

\* Erasing a miss.
LEMMA EraseMissShape ==
  ASSUME NEW c, Shape(c), NEW k \in CacheKey
  PROVE  LET d == EraseMiss(c, k) IN
         Shape(d) /\ SameHits(c, d) /\ d.misses = c.misses \ {k}
<1> DEFINE d == EraseMiss(c, k)
           l == RemoveFirst(c.missLru, k)
<1>1. CASE k \notin c.misses
  BY <1>1 DEF EraseMiss, SameHits
<1>2. CASE k \in c.misses
  <2>1. CacheTypeOK(d)
    BY EraseMissKeeps DEF Shape, Keeps
  <2>2. SameHits(c, d) /\ d.misses = c.misses \ {k} /\ d.missLru = l
    BY <1>2 DEF Shape, CacheTypeOK, EraseMiss, SameHits
  <2>3. Lists(l, c.misses \ {k}, CacheKey)
    BY RemoveFirstLists DEF Shape
  <2> HIDE DEF d, l
  <2>4. Len(l) <= MaxEntries
    <3>1. IsFiniteSet(c.misses) /\ Cardinality(c.misses) = Len(c.missLru) /\ Len(c.missLru) \in Nat
      BY ListLength DEF Shape
    <3>2. Cardinality(c.misses \ {k}) <= Cardinality(c.misses) /\ Cardinality(c.misses \ {k}) \in Nat
      BY <3>1, FS_Subset, FS_CardinalityType
    <3>3. Len(l) = Cardinality(c.misses \ {k})
      BY <2>3, ListLength
    <3> QED BY <3>1, <3>2, <3>3, CacheAssumption DEF Shape
  <2>5. Shape(d)
    BY <2>1, <2>2, <2>3, <2>4 DEF Shape, SameHits
  <2> QED BY <2>2, <2>5 DEF d
<1> QED BY <1>1, <1>2

\* A list that was pushed past its bound loses its last element and is
\* within the bound again.
LEMMA PushAndEvict ==
  ASSUME NEW lru, NEW m, Lists(lru, m, CacheKey), Len(lru) <= MaxEntries, NEW k \in CacheKey, k \notin m
  PROVE  LET p == PushFront(lru, k)
             full == Cardinality(m \cup {k}) > MaxEntries
         IN /\ Lists(p, m \cup {k}, CacheKey)
            /\ full <=> Len(lru) = MaxEntries
            /\ ~full => Len(p) <= MaxEntries
            /\ full => /\ Len(Front(p)) <= MaxEntries
                       /\ Last(p) \in m /\ Last(p) = Last(lru)
                       /\ Lists(Front(p), (m \cup {k}) \ {Last(p)}, CacheKey)
<1> DEFINE p == PushFront(lru, k)
           n == m \cup {k}
<1>1. Lists(p, n, CacheKey)
  BY PushFrontLists
<1>2. IsFiniteSet(m) /\ Cardinality(m) = Len(lru) /\ Len(lru) \in Nat
  BY ListLength
<1>3. Cardinality(n) = Len(lru) + 1 /\ IsFiniteSet(n)
  BY <1>2, FS_AddElement
<1>4. Len(p) = Len(lru) + 1
  BY <1>1, <1>3, ListLength
<1>5. Cardinality(n) > MaxEntries <=> Len(lru) = MaxEntries
  BY <1>2, <1>3, CacheAssumption
<1>6. ASSUME Cardinality(n) > MaxEntries
      PROVE  /\ Len(Front(p)) <= MaxEntries
             /\ Last(p) \in m /\ Last(p) = Last(lru)
             /\ Lists(Front(p), n \ {Last(p)}, CacheKey)
  <2>1. Last(p) \in n /\ Lists(Front(p), n \ {Last(p)}, CacheKey)
    BY <1>1, FrontLists
  <2>2. Len(Front(p)) = Cardinality(n \ {Last(p)})
    BY <2>1, ListLength
  <2>3. Cardinality(n \ {Last(p)}) = Cardinality(n) - 1
    BY <1>3, <2>1, FS_RemoveElement
  <2>4. Last(p) = Last(lru)
    <3>1. lru \in Seq(CacheKey) /\ <<k>> \in Seq(CacheKey) /\ Len(<<k>>) = 1
      BY DEF Lists
    <3>2. Len(lru) \in Nat \ {0}
      BY <1>2, <1>5, <1>6, CacheAssumption
    <3>3. \A i \in 1..(1 + Len(lru)) : (<<k>> \o lru)[i] = IF i <= 1 THEN <<k>>[i] ELSE lru[i - 1]
      BY <3>1, ConcatProperties
    <3>4. Len(p) \in 1..(1 + Len(lru)) /\ ~(Len(p) <= 1) /\ Len(p) - 1 = Len(lru)
      BY <1>4, <3>2
    <3>5. (<<k>> \o lru)[Len(p)] = lru[Len(lru)]
      BY <3>3, <3>4
    <3> QED BY <3>5 DEF Last, PushFront
  <2>5. Last(lru) \in m
    <3>1. m # {}
      BY <1>2, <1>5, <1>6, CacheAssumption, FS_EmptySet
    <3> QED BY <3>1, FrontLists
  <2> QED BY <1>2, <1>3, <1>5, <1>6, <2>1, <2>2, <2>3, <2>4, <2>5, CacheAssumption
<1> HIDE DEF p, n
<1>7. ~(Cardinality(n) > MaxEntries) => Len(p) <= MaxEntries
  BY <1>2, <1>3, <1>4, CacheAssumption
<1> QED BY <1>1, <1>5, <1>6, <1>7 DEF p, n

\* OnFetchMiss: the negative list has the kid and stays within its bound.
LEMMA OnFetchMissShape ==
  ASSUME NEW c, Shape(c), NEW k \in CacheKey, NEW now \in Nat
  PROVE  LET d == OnFetchMiss(c, k, now) IN Shape(d) /\ SameHits(c, d)
<1> DEFINE b == EraseMiss(c, k)
           e == [b EXCEPT !.misses = @ \cup {k}, !.missAt[k] = now, !.missLru = PushFront(@, k)]
           d == EvictLruMiss(e)
           p == PushFront(b.missLru, k)
<1>1. Shape(b) /\ SameHits(c, b) /\ b.misses = c.misses \ {k}
  BY EraseMissShape
<1>2. OnFetchMiss(c, k, now) = d
  BY DEF OnFetchMiss
<1>3. CacheTypeOK(d)
  BY <1>2, OnFetchMissKeeps DEF Shape, Keeps
<1> HIDE DEF b
<1>4. /\ SameHits(b, e) /\ e.misses = b.misses \cup {k} /\ e.missLru = p
      /\ DOMAIN e = DOMAIN b
  BY <1>1 DEF Shape, CacheTypeOK, SameHits
<1>5. LET full == Cardinality(b.misses \cup {k}) > MaxEntries
      IN /\ Lists(p, b.misses \cup {k}, CacheKey)
         /\ ~full => Len(p) <= MaxEntries
         /\ full => /\ Len(Front(p)) <= MaxEntries
                    /\ Lists(Front(p), (b.misses \cup {k}) \ {Last(p)}, CacheKey)
  BY <1>1, PushAndEvict DEF Shape
<1> HIDE DEF e, p
<1>6. CASE Cardinality(e.misses) > MaxEntries
  <2>1. SameHits(e, d) /\ d.misses = e.misses \ {Last(p)} /\ d.missLru = Front(p)
    BY <1>1, <1>4, <1>6 DEF EvictLruMiss, SameHits, Shape, CacheTypeOK
  <2> QED BY <1>1, <1>2, <1>3, <1>4, <1>5, <1>6, <2>1 DEF Shape, SameHits
<1>7. CASE ~(Cardinality(e.misses) > MaxEntries)
  <2>1. d = e
    BY <1>7 DEF EvictLruMiss
  <2> QED BY <1>1, <1>2, <1>3, <1>4, <1>5, <1>7, <2>1 DEF Shape, SameHits
<1> QED BY <1>6, <1>7

\* d is c with a new entry for k at the front of the list; the last kid makes
\* room when the cache was full.
Inserted(c, d, k) ==
  \/ /\ Cardinality(c.hits) < MaxEntries
     /\ d.hits = c.hits \cup {k} /\ d.hitLru = PushFront(c.hitLru, k)
     /\ ChangesOnly(c, d, k)
  \/ /\ Cardinality(c.hits) = MaxEntries
     /\ d.hits = (c.hits \cup {k}) \ {Last(c.hitLru)} /\ d.hitLru = Front(PushFront(c.hitLru, k))
     /\ Last(c.hitLru) \in c.hits
     /\ d.entry[Last(c.hitLru)] = NoEntry
     /\ \A j \in CacheKey \ {k, Last(c.hitLru)} : d.entry[j] = c.entry[j]

\* InsertHit of a kid that is not cached.
LEMMA InsertHitShape ==
  ASSUME NEW c, Shape(c), NEW k \in CacheKey \ c.hits, NEW keys, NEW now \in Nat
  PROVE  LET d == InsertHit(c, k, keys, now) IN
         /\ Shape(d) /\ Inserted(c, d, k) /\ k \in d.hits
         /\ d.entry[k].keys = TrimToCap(keys) /\ d.entry[k].absent = 0
<1> DEFINE f == [ keys |-> TrimToCap(keys), fetchedAt |-> now, lastAttempt |-> now,
                  reservation |-> NoReservation, absent |-> 0 ]
           e == [c EXCEPT !.hits = @ \cup {k}, !.entry[k] = f, !.hitLru = PushFront(@, k)]
           d == EvictLruHit(e)
           p == PushFront(c.hitLru, k)
           victim == Last(c.hitLru)
<1>1. InsertHit(c, k, keys, now) = d
  BY DEF InsertHit
<1>2. CacheTypeOK(d)
  BY <1>1, InsertHitKeeps DEF Shape, Keeps
<1>3. f.keys = TrimToCap(keys) /\ f.absent = 0
  OBVIOUS
<1> HIDE DEF f
<1>4. /\ e.hits = c.hits \cup {k} /\ e.hitLru = p /\ e.misses = c.misses /\ e.missLru = c.missLru
      /\ e.entry = [c.entry EXCEPT ![k] = f] /\ DOMAIN e = DOMAIN c
  BY DEF Shape, CacheTypeOK
<1>5. LET full == Cardinality(c.hits \cup {k}) > MaxEntries
      IN /\ Lists(p, c.hits \cup {k}, CacheKey)
         /\ full <=> Len(c.hitLru) = MaxEntries
         /\ ~full => Len(p) <= MaxEntries
         /\ full => /\ Len(Front(p)) <= MaxEntries
                    /\ Last(p) \in c.hits /\ Last(p) = victim
                    /\ Lists(Front(p), (c.hits \cup {k}) \ {Last(p)}, CacheKey)
  BY PushAndEvict DEF Shape
<1>6. Cardinality(c.hits) = Len(c.hitLru) /\ Len(c.hitLru) \in Nat /\ Len(c.hitLru) <= MaxEntries
  BY HitsCounted
<1>7. e.entry[k] = f /\ \A j \in CacheKey \ {k} : e.entry[j] = c.entry[j]
  BY <1>4 DEF Shape, CacheTypeOK
<1>8. DOMAIN e.entry = CacheKey /\ c.hits \subseteq CacheKey
  BY <1>4 DEF Shape, CacheTypeOK
<1> HIDE DEF e, p, victim
<1>9. CASE Cardinality(e.hits) > MaxEntries
  <2>1. /\ d.hits = e.hits \ {Last(p)} /\ d.hitLru = Front(p)
        /\ d.misses = e.misses /\ d.missLru = e.missLru
        /\ d.entry = [e.entry EXCEPT ![Last(p)] = NoEntry]
    BY <1>4, <1>9 DEF EvictLruHit, Shape, CacheTypeOK
  <2>2. Last(p) = victim /\ victim \in c.hits /\ victim # k /\ victim \in CacheKey
    BY <1>4, <1>5, <1>8, <1>9
  <2>3. d.entry[victim] = NoEntry /\ \A j \in CacheKey \ {victim} : d.entry[j] = e.entry[j]
    BY <1>8, <2>1, <2>2
  <2>4. Shape(d)
    <3>1. ASSUME NEW j \in CacheKey \ d.hits PROVE d.entry[j] = NoEntry
      BY <1>4, <1>7, <2>1, <2>2, <2>3, <3>1 DEF Shape
    <3> QED BY <1>2, <1>4, <1>5, <1>9, <2>1, <2>2, <3>1 DEF Shape
  <2>5. Cardinality(c.hits) = MaxEntries
    BY <1>4, <1>5, <1>6, <1>9
  <2>6. Inserted(c, d, k)
    BY <1>4, <1>7, <2>1, <2>2, <2>3, <2>5 DEF Inserted, p, victim
  <2>7. k \in d.hits /\ d.entry[k] = f
    BY <1>4, <1>7, <2>1, <2>2, <2>3
  <2> QED BY <1>1, <1>3, <2>4, <2>6, <2>7
<1>10. CASE ~(Cardinality(e.hits) > MaxEntries)
  <2>1. d = e
    BY <1>10 DEF EvictLruHit
  <2>2. Cardinality(c.hits) < MaxEntries
    BY <1>4, <1>5, <1>6, <1>10, CacheAssumption
  <2>3. Shape(d)
    BY <1>2, <1>4, <1>5, <1>7, <1>10, <2>1 DEF Shape
  <2>4. Inserted(c, d, k)
    BY <1>4, <1>7, <2>1, <2>2 DEF Inserted, ChangesOnly, p
  <2> QED BY <1>1, <1>3, <1>4, <1>7, <2>1, <2>3, <2>4
<1> QED BY <1>9, <1>10

\* OnPassiveFetchSuccess: a cached kid keeps its place and gains keys, another
\* one is inserted.
LEMMA PassiveShape ==
  ASSUME NEW c, Shape(c), NEW k \in CacheKey, NEW keys, keys # <<>>, NEW now \in Nat
  PROVE  LET d == OnPassiveFetchSuccess(c, k, keys, now) IN
         /\ Shape(d) /\ k \in d.hits /\ d.entry[k].absent = 0
         /\ k \in c.hits => /\ d.hits = c.hits /\ d.hitLru = c.hitLru /\ ChangesOnly(c, d, k)
                            /\ d.entry[k].keys = KeepNewest(UnionKeys(c.entry[k].keys, keys))
         /\ k \notin c.hits => Inserted(c, d, k) /\ d.entry[k].keys = TrimToCap(keys)
<1> DEFINE d == OnPassiveFetchSuccess(c, k, keys, now)
<1>1. CASE k \in c.hits
  <2> DEFINE e == UnitedEntry(c.entry[k], keys)
  <2>1. d = [c EXCEPT !.entry[k] = e]
    BY <1>1 DEF OnPassiveFetchSuccess, Shape, CacheTypeOK
  <2>2. e.absent = 0 /\ e.keys = KeepNewest(UnionKeys(c.entry[k].keys, keys))
    BY DEF UnitedEntry, Shape, CacheTypeOK, EntryTypeOK
  <2>3. CacheTypeOK(d)
    BY OnPassiveFetchSuccessKeeps DEF Shape, Keeps
  <2> HIDE DEF e
  <2>4. /\ d.hits = c.hits /\ d.hitLru = c.hitLru /\ d.misses = c.misses /\ d.missLru = c.missLru
        /\ d.entry = [c.entry EXCEPT ![k] = e]
    BY <2>1 DEF Shape, CacheTypeOK
  <2>5. d.entry[k] = e /\ \A j \in CacheKey \ {k} : d.entry[j] = c.entry[j]
    BY <2>4 DEF Shape, CacheTypeOK
  <2> HIDE DEF d
  <2>6. Shape(d)
    BY <1>1, <2>3, <2>4, <2>5, ShapeKept
  <2> QED BY <1>1, <2>2, <2>4, <2>5, <2>6 DEF ChangesOnly, d
<1>2. CASE k \notin c.hits
  <2> DEFINE a == RecordJwksFetchSuccess(c, now, k[1])
             b == EraseMiss(a, k)
  <2>1. Shape(a) /\ SameHits(c, a)
    BY StampsShape DEF CacheKey
  <2>2. Shape(b) /\ SameHits(a, b)
    BY <2>1, EraseMissShape
  <2>3. d = InsertHit(b, k, keys, now)
    BY <1>2 DEF OnPassiveFetchSuccess, OnFetchSuccess
  <2>4. b.hits = c.hits /\ b.hitLru = c.hitLru /\ b.entry = c.entry
    BY <2>1, <2>2 DEF SameHits
  <2> HIDE DEF b, d
  <2>5. /\ Shape(d) /\ Inserted(b, d, k) /\ k \in d.hits
        /\ d.entry[k].keys = TrimToCap(keys) /\ d.entry[k].absent = 0
    BY <1>2, <2>2, <2>3, <2>4, InsertHitShape
  <2>6. Inserted(c, d, k)
    BY <2>4, <2>5 DEF Inserted, ChangesOnly
  <2> QED BY <1>2, <2>5, <2>6 DEF d
<1> QED BY <1>1, <1>2

\* CommitRefresh moves the kid to the front and replaces its keys.
LEMMA CommitRefreshShape ==
  ASSUME NEW c, Shape(c), NEW k \in c.hits, NEW keys, NEW now \in Nat
  PROVE  LET d == CommitRefresh(c, k, keys, now) IN
         /\ Shape(d) /\ d.hits = c.hits /\ ChangesOnly(c, d, k)
         /\ d.entry[k].keys = TrimToCap(keys) /\ d.entry[k].absent = 0
<1> DEFINE d == CommitRefresh(c, k, keys, now)
           l == MoveToFront(c.hitLru, k)
           e == [c.entry[k] EXCEPT !.reservation = NoReservation, !.absent = 0,
                                   !.keys = TrimToCap(keys), !.fetchedAt = now]
<1>1. k \in CacheKey
  BY DEF Shape, CacheTypeOK
<1>2. CacheTypeOK(d)
  BY <1>1, CommitRefreshKeeps DEF Shape, Keeps
<1>3. e.keys = TrimToCap(keys) /\ e.absent = 0
  BY <1>1 DEF Shape, CacheTypeOK, EntryTypeOK
<1>4. d = [c EXCEPT !.entry[k] = e, !.hitLru = l]
  BY <1>1 DEF CommitRefresh, Shape, CacheTypeOK
<1> HIDE DEF e
<1>5. /\ d.hits = c.hits /\ d.hitLru = l /\ d.misses = c.misses /\ d.missLru = c.missLru
      /\ d.entry = [c.entry EXCEPT ![k] = e]
  BY <1>4 DEF Shape, CacheTypeOK
<1>6. d.entry[k] = e /\ \A j \in CacheKey \ {k} : d.entry[j] = c.entry[j]
  BY <1>1, <1>5 DEF Shape, CacheTypeOK
<1>7. Lists(l, c.hits, CacheKey)
  BY MoveToFrontLists DEF Shape
<1>8. Len(l) = Cardinality(c.hits)
  BY <1>7, ListLength
<1> HIDE DEF d, l
<1>9. Shape(d)
  BY <1>2, <1>5, <1>6, <1>7, <1>8, HitsCounted DEF Shape
<1> QED BY <1>3, <1>5, <1>6, <1>9 DEF ChangesOnly, d

\* RecordKidAbsent erases the kid, or counts one more absence of it.
LEMMA RecordKidAbsentShape ==
  ASSUME NEW c, Shape(c), NEW k \in CacheKey, NEW reservation, NEW now \in Nat
  PROVE  LET d == RecordKidAbsent(c, k, reservation, now) IN
         /\ Shape(d) /\ ChangesOnly(c, d, k)
         /\ \/ d = c /\ ~OwnsRefresh(c, k, reservation)
            \/ /\ OwnsRefresh(c, k, reservation) /\ EvictsOnAbsence(c, k)
               /\ d.hits = c.hits \ {k} /\ d.entry[k] = NoEntry
            \/ /\ OwnsRefresh(c, k, reservation) /\ d.hits = c.hits
               /\ d.entry[k].keys = c.entry[k].keys /\ d.entry[k].absent = c.entry[k].absent + 1
<1> DEFINE d == RecordKidAbsent(c, k, reservation, now)
<1>1. CASE ~OwnsRefresh(c, k, reservation)
  <2>1. d = c
    BY <1>1 DEF RecordKidAbsent
  <2> QED BY <1>1, <2>1 DEF ChangesOnly
<1>2. CASE OwnsRefresh(c, k, reservation) /\ EvictsOnAbsence(c, k)
  <2>1. d = EraseHit(c, k)
    BY <1>2 DEF RecordKidAbsent
  <2> HIDE DEF d
  <2> QED BY <1>2, <2>1, EraseHitShape DEF d
<1>3. CASE OwnsRefresh(c, k, reservation) /\ ~EvictsOnAbsence(c, k)
  <2> DEFINE e == MissedEntry(c.entry[k], now)
  <2>1. d = [c EXCEPT !.entry[k] = e]
    BY <1>3 DEF RecordKidAbsent, Shape, CacheTypeOK
  <2>2. e.keys = c.entry[k].keys /\ e.absent = c.entry[k].absent + 1
    BY DEF MissedEntry, Shape, CacheTypeOK, EntryTypeOK
  <2>3. CacheTypeOK(d)
    BY RecordKidAbsentKeeps DEF Shape, Keeps
  <2> HIDE DEF e
  <2>4. /\ d.hits = c.hits /\ d.hitLru = c.hitLru /\ d.misses = c.misses /\ d.missLru = c.missLru
        /\ d.entry = [c.entry EXCEPT ![k] = e]
    BY <2>1 DEF Shape, CacheTypeOK
  <2>5. d.entry[k] = e /\ \A j \in CacheKey \ {k} : d.entry[j] = c.entry[j]
    BY <2>4 DEF Shape, CacheTypeOK
  <2>6. k \in c.hits
    BY <1>3 DEF OwnsRefresh
  <2> HIDE DEF d
  <2>7. Shape(d)
    BY <2>3, <2>4, <2>5, <2>6, ShapeKept
  <2> QED BY <1>3, <2>2, <2>4, <2>5, <2>7 DEF ChangesOnly, d
<1> QED BY <1>1, <1>2, <1>3

\* The first loop of ReconcileAbsentKids changes no key and no list.
LEMMA CountAbsencesShape ==
  ASSUME NEW c, Shape(c), NEW present, NEW uri, NEW exclude
  PROVE  LET d == CountAbsences(c, present, uri, exclude) IN
         /\ Shape(d) /\ d.hits = c.hits /\ d.hitLru = c.hitLru
         /\ \A k \in CacheKey :
              /\ d.entry[k].keys = c.entry[k].keys
              /\ k \notin ReconciledKids(c, uri, exclude) => d.entry[k] = c.entry[k]
              /\ k \in ReconciledKids(c, uri, exclude) =>
                   d.entry[k].absent = IF k[2] \in present THEN 0 ELSE c.entry[k].absent + 1
<1> DEFINE d == CountAbsences(c, present, uri, exclude)
           new == [k \in CacheKey |->
             IF k \in ReconciledKids(c, uri, exclude)
             THEN CountedEntry(c.entry[k], k[2] \in present)
             ELSE c.entry[k]]
<1>1. ASSUME NEW k \in CacheKey
      PROVE  /\ new[k].keys = c.entry[k].keys
             /\ k \notin ReconciledKids(c, uri, exclude) => new[k] = c.entry[k]
             /\ k \in ReconciledKids(c, uri, exclude) =>
                  new[k].absent = IF k[2] \in present THEN 0 ELSE c.entry[k].absent + 1
  BY DEF Shape, CacheTypeOK, EntryTypeOK, CountedEntry
<1>2. d = [c EXCEPT !.entry = new]
  BY DEF CountAbsences
<1>3. CacheTypeOK(d)
  BY CountAbsencesKeeps DEF Shape, Keeps
<1> HIDE DEF new
<1>4. /\ d.hits = c.hits /\ d.hitLru = c.hitLru /\ d.misses = c.misses /\ d.missLru = c.missLru
      /\ d.entry = new
  BY <1>2 DEF Shape, CacheTypeOK
<1>5. ReconciledKids(c, uri, exclude) \subseteq c.hits
  BY DEF ReconciledKids
<1> HIDE DEF d
<1>6. \A k \in CacheKey \ c.hits : d.entry[k] = c.entry[k]
  BY <1>1, <1>4, <1>5
<1>7. Shape(d)
  BY <1>3, <1>4, <1>6, ShapeKept
<1> QED BY <1>1, <1>4, <1>7 DEF d

\* A reservation changes no key and no list.
LEMMA ReserveRefreshShape ==
  ASSUME NEW c, Shape(c), NEW k \in c.hits, NEW now \in Nat
  PROVE  LET d == ReserveRefresh(c, k, now) IN
         /\ Shape(d) /\ d.hits = c.hits /\ d.hitLru = c.hitLru /\ ChangesOnly(c, d, k)
         /\ d.entry[k].keys = c.entry[k].keys /\ d.entry[k].absent = c.entry[k].absent
<1> DEFINE d == ReserveRefresh(c, k, now)
           e == [c.entry[k] EXCEPT !.lastAttempt = now, !.reservation = c.nextReservation]
<1>1. k \in CacheKey
  BY DEF Shape, CacheTypeOK
<1>2. CacheTypeOK(d)
  BY <1>1, ReserveRefreshReserves DEF Shape
<1>3. e.keys = c.entry[k].keys /\ e.absent = c.entry[k].absent
  BY <1>1 DEF Shape, CacheTypeOK, EntryTypeOK
<1>4. d = [c EXCEPT !.entry[k] = e, !.nextReservation = @ + 1]
  BY <1>1 DEF ReserveRefresh, Shape, CacheTypeOK
<1> HIDE DEF e
<1>5. /\ d.hits = c.hits /\ d.hitLru = c.hitLru /\ d.misses = c.misses /\ d.missLru = c.missLru
      /\ d.entry = [c.entry EXCEPT ![k] = e]
  BY <1>4 DEF Shape, CacheTypeOK
<1>6. d.entry[k] = e /\ \A j \in CacheKey \ {k} : d.entry[j] = c.entry[j]
  BY <1>1, <1>5 DEF Shape, CacheTypeOK
<1> HIDE DEF d
<1>7. Shape(d)
  BY <1>2, <1>5, <1>6, ShapeKept
<1> QED BY <1>3, <1>5, <1>6, <1>7 DEF ChangesOnly, d

(***************************************************************************)
(* Types.                                                                   *)
(***************************************************************************)
IInv == TypeOK /\ RefreshInv

RowsTypeOK(f) == DOMAIN f = Threads /\ \A t \in Threads : RowTypeOK(f[t])

\* A row of a thread that waits for work is well typed.
LEMMA IdleRowTypeOK == RowTypeOK(IdleRow) /\ IdleRow.pc = "Idle" /\ CacheKey # {}
<1>1. CacheKey # {}
  <2>1. PICK tok \in Jwts : TRUE
    BY ValidatorAssumption
  <2>2. PICK uri \in Uris : TRUE
    BY ValidatorAssumption
  <2>3. <<uri, tok.kid>> \in CacheKey
    BY <2>1, <2>2, ValidatorAssumption DEF CacheKey
  <2> QED BY <2>3
<1>2. (CHOOSE k \in CacheKey : TRUE) \in CacheKey
  BY <1>1
<1>3. (CHOOSE tok \in Jwts : TRUE) \in Jwts
  BY ValidatorAssumption
<1> QED BY <1>1, <1>2, <1>3, ValidatorAssumption
        DEF RowTypeOK, IdleRow, Results, Reasons, SignatureMatches, NoStamp, NoReservation, NoResponse

\* Changing the row of one thread.
LEMMA RowsUpdate ==
  ASSUME NEW f, RowsTypeOK(f), NEW t \in Threads, NEW r, RowTypeOK(r)
  PROVE  LET g == [f EXCEPT ![t] = r] IN
         RowsTypeOK(g) /\ g[t] = r /\ \A u \in Threads \ {t} : g[u] = f[u]
  BY DEF RowsTypeOK

\* A row that keeps to threads outside a critical section leaves the mutex
\* invariant alone.
LEMMA MutexOutside ==
  ASSUME TypeOK, NEW t \in Threads, NEW r, RowTypeOK(r),
         row' = [row EXCEPT ![t] = r], r.pc # "Ingesting", row[t].pc # "Ingesting", mu' = mu
  PROVE  RowsTypeOK(row') /\ \A u \in Threads : row'[u].pc = "Ingesting" <=> mu' = u
  BY RowsUpdate DEF TypeOK, RowsTypeOK

\* The verdicts that verification can give.
LEMMA VerdictTypes ==
  ASSUME NEW keys, NEW tok \in Jwts
  PROVE  /\ VerifyAgainstCachedKid(keys, tok) \in Results
         /\ VerifiedCandidate(keys, tok) \in Results
         /\ tok.early \in Results
  BY ValidatorAssumption
     DEF VerifyAgainstCachedKid, VerifyWithCachedKeys, VerifiedCandidate, Results, SignatureMatches

\* ValidateToken returning from outside a critical section.
LEMMA ReturnOutside ==
  ASSUME TypeOK, NEW t \in Threads, NEW result \in Results, NEW reason \in Reasons,
         Return(t, result, reason), row[t].pc # "Ingesting", mu' = mu
  PROVE  RowsTypeOK(row') /\ \A u \in Threads : row'[u].pc = "Ingesting" <=> mu' = u
<1> DEFINE r == [IdleRow EXCEPT !.pc = "Done", !.now = row[t].now, !.tok = row[t].tok,
                                !.key = row[t].key, !.result = result, !.reason = reason]
<1>1. RowTypeOK(r) /\ r.pc = "Done"
  BY IdleRowTypeOK DEF TypeOK, RowTypeOK
<1>2. row' = [row EXCEPT ![t] = r]
  BY DEF Return
<1> HIDE DEF r
<1> QED BY <1>1, <1>2, MutexOutside

\* ... and from inside one, releasing the mutex.
LEMMA ReturnInside ==
  ASSUME TypeOK, NEW t \in Threads, NEW result \in Results, NEW reason \in Reasons,
         Return(t, result, reason), row[t].pc = "Ingesting", mu' = Free
  PROVE  RowsTypeOK(row') /\ \A u \in Threads : row'[u].pc = "Ingesting" <=> mu' = u
<1> DEFINE r == [IdleRow EXCEPT !.pc = "Done", !.now = row[t].now, !.tok = row[t].tok,
                                !.key = row[t].key, !.result = result, !.reason = reason]
<1>1. RowTypeOK(r) /\ r.pc = "Done"
  BY IdleRowTypeOK DEF TypeOK, RowTypeOK
<1>2. row' = [row EXCEPT ![t] = r]
  BY DEF Return
<1> HIDE DEF r
<1>3. RowsTypeOK(row') /\ row'[t] = r /\ \A u \in Threads \ {t} : row'[u] = row[u]
  BY <1>1, <1>2, RowsUpdate DEF TypeOK, RowsTypeOK
<1>4. mu = t /\ Free \notin Threads
  BY ValidatorAssumption DEF TypeOK, Free
<1> QED BY <1>1, <1>3, <1>4 DEF TypeOK

\* What TypeOK says after a step, put together from its parts.
LEMMA TypeParts ==
  ASSUME CacheTypeOK(cache'), RowsTypeOK(row'), clock' \in Nat, HistTypeOK',
         \A u \in Threads : row'[u].pc = "Ingesting" <=> mu' = u
  PROVE  TypeOK'
  BY DEF TypeOK, RowsTypeOK

\* An operation of the cache that keeps budget and reservations keeps the
\* invariant.
LEMMA RefreshKept ==
  ASSUME TypeOK, RefreshInv, Keeps(cache, cache'),
         hist'.fetchAt = hist.fetchAt, hist'.reserved = hist.reserved,
         hist'.committed = hist.committed
  PROVE  RefreshInv'
  BY DEF TypeOK, RefreshInv, BudgetStamped, ReservationsOrdered, Keeps, HistTypeOK, NoReservation

\* A cache keeps what it has.
LEMMA KeepsItself ==
  ASSUME TypeOK
  PROVE  Keeps(cache, cache)
  BY DEF TypeOK, Keeps

(***************************************************************************)
(* One lemma per group of actions.                                          *)
(***************************************************************************)
\* Nothing that the invariant reads changes but the row of one thread.
LEMMA QuietStep ==
  ASSUME IInv, RowsTypeOK(row'), \A u \in Threads : row'[u].pc = "Ingesting" <=> mu' = u,
         UNCHANGED <<cache, clock, hist>>
  PROVE  IInv'
<1>1. TypeOK'
  BY TypeParts DEF IInv, TypeOK, HistTypeOK
<1>2. RefreshInv'
  BY KeepsItself, RefreshKept DEF IInv
<1> QED BY <1>1, <1>2 DEF IInv

\* The clock, the identity provider and the operator.
LEMMA EnvironmentStep ==
  ASSUME IInv, Environment
  PROVE  IInv'
<1>1. CASE \E d \in ClockDeltas : Tick(d)
  <2>1. PICK d \in ClockDeltas : Tick(d)
    BY <1>1
  <2>2. clock' \in Nat
    BY <2>1, ValidatorAssumption DEF Tick, IInv, TypeOK
  <2>3. UNCHANGED <<cache, mu, row, hist>>
    BY <2>1 DEF Tick
  <2>4. TypeOK' /\ RefreshInv'
    BY <2>2, <2>3 DEF IInv, TypeOK, HistTypeOK, RefreshInv, BudgetStamped, ReservationsOrdered
  <2> QED BY <2>4 DEF IInv
<1>2. CASE \E uri \in Uris, d \in Documents : Publish(uri, d)
  <2>1. PICK uri \in Uris, d \in Documents : Publish(uri, d)
    BY <1>2
  <2>2. /\ UNCHANGED <<cache, mu, row, clock>> /\ DOMAIN hist' = DOMAIN hist
        /\ hist'.fetchAt = hist.fetchAt /\ hist'.reserved = hist.reserved
        /\ hist'.committed = hist.committed
    BY <2>1 DEF Publish, IInv, TypeOK, HistTypeOK
  <2>3. TypeOK'
    BY <2>2 DEF IInv, TypeOK, HistTypeOK
  <2>4. RefreshInv'
    BY <2>2, KeepsItself, RefreshKept DEF IInv
  <2> QED BY <2>3, <2>4 DEF IInv
<1>3. CASE \E m \in MinRefreshChoices : Reconfigure(m)
  <2>1. PICK m \in MinRefreshChoices : Reconfigure(m)
    BY <1>3
  <2>2. Clamp(m, 1, MaxMinRefreshS) \in 1..MaxMinRefreshS
    BY <2>1, CacheAssumption, ValidatorAssumption DEF Reconfigure, Clamp
  <2>3. CacheTypeOK(cache') /\ cache'.lastGlobalFetch = cache.lastGlobalFetch
        /\ cache'.nextReservation = cache.nextReservation /\ cache'.entry = cache.entry
    BY <2>1, <2>2 DEF Reconfigure, SetMinRefreshSeconds, IInv, TypeOK, CacheTypeOK
  <2>4. UNCHANGED <<mu, row, clock, hist>>
    BY <2>1 DEF Reconfigure, env
  <2>5. TypeOK'
    BY <2>3, <2>4 DEF IInv, TypeOK, HistTypeOK
  <2>6. RefreshInv'
    BY <2>3, <2>4 DEF IInv, RefreshInv, BudgetStamped, ReservationsOrdered
  <2> QED BY <2>5, <2>6 DEF IInv
<1> QED BY <1>1, <1>2, <1>3 DEF Environment

\* A caller presents a token or is done with its chunk.
LEMMA CallerStep ==
  ASSUME IInv, NEW t \in Threads, Caller(t)
  PROVE  IInv'
<1>1. ASSUME NEW uri \in Uris, NEW tok \in Jwts, NEW now \in Nat,
             Present(t, uri, tok, now), row[t].pc # "Ingesting"
      PROVE  IInv'
  <2> DEFINE r == [IdleRow EXCEPT !.pc = "Ready", !.now = now, !.tok = tok, !.key = <<uri, tok.kid>>]
  <2>1. <<uri, tok.kid>> \in CacheKey
    BY ValidatorAssumption DEF CacheKey
  <2>2. RowTypeOK(r) /\ r.pc = "Ready"
    BY <2>1, IdleRowTypeOK DEF RowTypeOK
  <2>3. row' = [row EXCEPT ![t] = r] /\ UNCHANGED <<cache, mu, clock, hist>>
    BY <1>1 DEF Present
  <2> HIDE DEF r
  <2> QED BY <1>1, <2>2, <2>3, MutexOutside, QuietStep DEF IInv
<1>2. CASE \E uri \in Uris, tok \in Jwts : StartChunk(t, uri, tok)
  BY <1>1, <1>2 DEF StartChunk, IInv, TypeOK
<1>3. CASE \E tok \in Jwts : NextRow(t, tok)
  <2>1. row[t].key[1] \in Uris /\ row[t].now \in Nat
    BY DEF IInv, TypeOK, RowTypeOK, CacheKey
  <2> QED BY <1>1, <1>3, <2>1 DEF NextRow
<1>4. CASE FinishChunk(t)
  BY <1>4, IdleRowTypeOK, MutexOutside, QuietStep DEF FinishChunk, IInv, env
<1> QED BY <1>2, <1>3, <1>4 DEF Caller

\* A thread with the mutex decides a token without a fetch.
LEMMA DecidedStep ==
  ASSUME IInv, NEW t \in Threads, row[t].pc # "Ingesting",
         NEW result \in Results, NEW reason \in Reasons, Return(t, result, reason),
         UNCHANGED <<cache, mu, hist>>, UNCHANGED env
  PROVE  IInv'
  BY ReturnOutside, QuietStep DEF IInv, env

\* A fetch starts: the budget stamp moves to the thread's own reading of the
\* clock, because CanFetchJwks allowed it.
LEMMA FetchStep ==
  ASSUME IInv, NEW t \in Threads, row[t].pc = "Ready", NEW c, CacheTypeOK(c),
         c.lastGlobalFetch = cache.lastGlobalFetch, CanFetchJwks(cache, row[t].now),
         NEW mode \in {"Cold", "Refresh"}, NEW prior \in Results, NEW reservation \in Nat,
         Fetch(t, c, mode, prior, reservation)
  PROVE  /\ TypeOK'
         /\ BudgetStamped'
         /\ cache'.entry = c.entry /\ cache'.nextReservation = c.nextReservation
         /\ hist'.committed = hist.committed
         /\ mode = "Refresh" => hist'.reserved = [hist.reserved EXCEPT ![row[t].key] = reservation]
         /\ mode = "Cold" => hist'.reserved = hist.reserved
<1> DEFINE r == [row[t] EXCEPT !.pc = "Fetching", !.mode = mode, !.prior = prior,
                               !.reservation = reservation]
<1>1. row[t].now \in Nat /\ row[t].key \in CacheKey
  BY DEF IInv, TypeOK, RowTypeOK
<1>2. CanFetchJwks(c, row[t].now)
  BY DEF CanFetchJwks
<1>3. cache' = [c EXCEPT !.lastGlobalFetch = row[t].now]
  BY <1>1, <1>2, RecordJwksFetchStamps DEF Fetch
<1>4. CacheTypeOK(cache') /\ cache'.lastGlobalFetch = row[t].now /\ cache'.entry = c.entry
      /\ cache'.nextReservation = c.nextReservation
  BY <1>1, <1>3 DEF CacheTypeOK
<1>5. RowTypeOK(r) /\ r.pc = "Fetching"
  BY DEF IInv, TypeOK, RowTypeOK
<1>6. row' = [row EXCEPT ![t] = r] /\ UNCHANGED <<mu, clock>>
  BY DEF Fetch, env
<1> HIDE DEF r
<1>7. RowsTypeOK(row') /\ \A u \in Threads : row'[u].pc = "Ingesting" <=> mu' = u
  BY <1>5, <1>6, MutexOutside DEF IInv
<1>8. /\ HistTypeOK' /\ hist'.fetchAt = row[t].now /\ hist'.committed = hist.committed
      /\ mode = "Refresh" => hist'.reserved = [hist.reserved EXCEPT ![row[t].key] = reservation]
      /\ mode = "Cold" => hist'.reserved = hist.reserved
  BY <1>1 DEF Fetch, IInv, TypeOK, HistTypeOK
<1>9. clock' \in Nat
  BY <1>6 DEF IInv, TypeOK
<1>10. TypeOK'
  BY <1>4, <1>7, <1>8, <1>9, TypeParts
<1> QED BY <1>4, <1>8, <1>10 DEF BudgetStamped

\* ValidateToken up to its return or its HTTP call.
LEMMA BeginStep ==
  ASSUME IInv, NEW t \in Threads, Begin(t)
  PROVE  IInv'
<1> USE DEF IInv
<1>1. row[t].tok \in Jwts /\ row[t].key \in CacheKey /\ row[t].now \in Nat
  BY DEF TypeOK, RowTypeOK
<1>2. CachedResult(t) \in Results /\ row[t].tok.early \in Results
  BY <1>1, VerdictTypes DEF CachedResult
<1>3. /\ {"UnknownKid", "JwksThrottled"} \subseteq Results
      /\ {"None", "Throttled", "BudgetThrottled"} \subseteq Reasons
  BY DEF Results, Reasons
<1>4. CASE RejectEarly(t)
  BY <1>2, <1>3, <1>4, DecidedStep DEF RejectEarly, HasMutex
<1>5. CASE AcceptCached(t)
  BY <1>2, <1>3, <1>5, DecidedStep DEF AcceptCached, HasMutex
<1>6. CASE ThrottleRefresh(t)
  BY <1>2, <1>3, <1>6, DecidedStep DEF ThrottleRefresh, WantsRefresh, HasMutex
<1>7. CASE RejectMiss(t)
  BY <1>3, <1>7, DecidedStep DEF RejectMiss, Misses, HasMutex
<1>8. CASE StartRefresh(t)
  <2> DEFINE k == row[t].key
             c == ReserveRefresh(cache, k, row[t].now)
             id == cache.nextReservation
  <2>1. /\ CacheTypeOK(c) /\ c.lastGlobalFetch = cache.lastGlobalFetch
        /\ c.nextReservation = id + 1 /\ c.entry[k].reservation = id
        /\ \A j \in CacheKey \ {k} : c.entry[j] = cache.entry[j]
    BY <1>1, ReserveRefreshReserves DEF TypeOK
  <2>2. id \in Nat \ {0}
    BY DEF TypeOK, CacheTypeOK
  <2>3. Fetch(t, c, "Refresh", CachedResult(t), id) /\ row[t].pc = "Ready"
        /\ CanFetchJwks(cache, row[t].now)
    BY <1>8 DEF StartRefresh, WantsRefresh, HasMutex
  <2> HIDE DEF c
  <2>4. /\ TypeOK' /\ BudgetStamped'
        /\ cache'.entry = c.entry /\ cache'.nextReservation = id + 1
        /\ hist'.committed = hist.committed
        /\ hist'.reserved = [hist.reserved EXCEPT ![k] = id]
    BY <1>2, <2>1, <2>2, <2>3, FetchStep
  <2>5. ReservationsOrdered'
    <3> SUFFICES ASSUME NEW j \in CacheKey
                 PROVE  /\ hist'.committed[j] <= hist'.reserved[j]
                        /\ hist'.reserved[j] < cache'.nextReservation
                        /\ cache'.entry[j].reservation # NoReservation =>
                             /\ cache'.entry[j].reservation = hist'.reserved[j]
                             /\ cache'.entry[j].reservation > hist'.committed[j]
      BY DEF ReservationsOrdered
    <3>1. hist.committed[j] \in Nat /\ hist.reserved[j] \in Nat /\ hist.reserved \in [CacheKey -> Nat]
      BY DEF TypeOK, HistTypeOK
    <3>2. hist.committed[j] <= hist.reserved[j] /\ hist.reserved[j] < id
      BY DEF RefreshInv, ReservationsOrdered
    <3>3. CASE j = k
      BY <1>1, <2>1, <2>2, <2>4, <3>1, <3>2, <3>3
    <3>4. CASE j # k
      BY <2>1, <2>2, <2>4, <3>1, <3>2, <3>4 DEF RefreshInv, ReservationsOrdered
    <3> QED BY <3>3, <3>4
  <2> QED BY <2>4, <2>5 DEF RefreshInv
<1>9. CASE StartColdFetch(t)
  <2>1. Fetch(t, cache, "Cold", "None", NoReservation) /\ row[t].pc = "Ready"
        /\ CanFetchJwks(cache, row[t].now)
    BY <1>9 DEF StartColdFetch, Misses, HasMutex
  <2>2. "None" \in Results /\ NoReservation \in Nat /\ CacheTypeOK(cache)
    BY DEF Results, NoReservation, TypeOK
  <2>3. /\ TypeOK' /\ BudgetStamped'
        /\ cache'.entry = cache.entry /\ cache'.nextReservation = cache.nextReservation
        /\ hist'.committed = hist.committed
        /\ hist'.reserved = hist.reserved
    BY <2>1, <2>2, FetchStep
  <2>4. ReservationsOrdered'
    BY <2>3 DEF RefreshInv, ReservationsOrdered
  <2> QED BY <2>3, <2>4 DEF RefreshInv
<1> QED BY <1>4, <1>5, <1>6, <1>7, <1>8, <1>9 DEF Begin

\* The HTTP exchange.
LEMMA HttpStep ==
  ASSUME IInv, NEW t \in Threads, Http(t)
  PROVE  IInv'
<1>1. ASSUME NEW resp, resp.status \in {"None", "Failed", "200"}, Respond(t, resp),
             row[t].pc = "Fetching"
      PROVE  IInv'
  <2> DEFINE r == [row[t] EXCEPT !.pc = "Answered", !.attempt = 0, !.resp = resp]
  <2>1. RowTypeOK(r) /\ r.pc = "Answered"
    BY <1>1, ValidatorAssumption DEF IInv, TypeOK, RowTypeOK
  <2>2. row' = [row EXCEPT ![t] = r] /\ UNCHANGED <<cache, mu, clock, hist>>
    BY <1>1 DEF Respond, env
  <2> HIDE DEF r
  <2> QED BY <1>1, <2>1, <2>2, MutexOutside, QuietStep DEF IInv
<1>2. CASE Answer(t)
  BY <1>1, <1>2 DEF Answer, Http200, HttpFailed
<1>3. CASE AttemptFails(t)
  <2>1. CASE row[t].attempt = MaxRetries /\ Respond(t, HttpFailed)
    BY <1>1, <1>3, <2>1 DEF AttemptFails, HttpFailed
  <2>2. CASE /\ row[t].attempt < MaxRetries
             /\ row' = [row EXCEPT ![t].attempt = @ + 1]
             /\ UNCHANGED <<cache, mu, hist>> /\ UNCHANGED env
    <3> DEFINE r == [row[t] EXCEPT !.attempt = @ + 1]
    <3>1. RowTypeOK(r) /\ r.pc = "Fetching"
      BY <1>3, <2>2, ValidatorAssumption DEF AttemptFails, IInv, TypeOK, RowTypeOK
    <3>2. row' = [row EXCEPT ![t] = r]
      BY <2>2
    <3> HIDE DEF r
    <3> QED BY <1>3, <2>2, <3>1, <3>2, MutexOutside, QuietStep DEF AttemptFails, IInv, env
  <2> QED BY <1>3, <2>1, <2>2 DEF AttemptFails
<1> QED BY <1>2, <1>3 DEF Http

\* A thread begins to apply a document: it takes the mutex over several steps.
LEMMA EnterSection ==
  ASSUME TypeOK, NEW t \in Threads, mu = Free, mu' = t, NEW r, RowTypeOK(r), r.pc = "Ingesting",
         row' = [row EXCEPT ![t] = r]
  PROVE  RowsTypeOK(row') /\ \A u \in Threads : row'[u].pc = "Ingesting" <=> mu' = u
<1>1. RowsTypeOK(row') /\ row'[t] = r /\ \A u \in Threads \ {t} : row'[u] = row[u]
  BY RowsUpdate DEF TypeOK, RowsTypeOK
<1>2. Free \notin Threads
  BY ValidatorAssumption DEF Free
<1> QED BY <1>1, <1>2 DEF TypeOK

\* Reconcile after CommitTargetKid: from a cache c of the right type.
LEMMA ReconcileStep ==
  ASSUME IInv, NEW t \in Threads, mu = Free, NEW c, Keeps(cache, c),
         NEW verified \in Results, NEW reason \in Reasons, Reconcile(t, c, verified, reason)
  PROVE  /\ Keeps(cache, cache')
         /\ \A k \in CacheKey : cache'.entry[k].reservation = c.entry[k].reservation
         /\ RowsTypeOK(row') /\ \A u \in Threads : row'[u].pc = "Ingesting" <=> mu' = u
         /\ clock' \in Nat
<1> DEFINE seen == PresentKids(Doc(t))
           gone == AbsentTwice(c, seen, Uri(t), Kid(t))
           rest == {kid \in Kids \ {Kid(t)} : Usable(Doc(t), kid) # <<>>}
           r == [row[t] EXCEPT !.pc = "Ingesting", !.verified = verified, !.reason = reason,
                               !.evict = gone, !.todo = rest]
<1>1. Keeps(c, cache') /\ \A k \in CacheKey : cache'.entry[k].reservation = c.entry[k].reservation
  BY CountAbsencesKeeps DEF Keeps, Reconcile
<1>2. Keeps(cache, cache')
  BY <1>1, KeepsTransitive
<1>3. gone \subseteq CacheKey /\ rest \subseteq Kids
  BY DEF Keeps, CacheTypeOK, AbsentTwice, ReconciledKids
<1>4. row' = [row EXCEPT ![t] = r] /\ mu' = t /\ clock' = clock
  BY DEF Reconcile, env
<1> HIDE DEF gone, rest
<1>5. RowTypeOK(r) /\ r.pc = "Ingesting"
  BY <1>3 DEF IInv, TypeOK, RowTypeOK
<1> HIDE DEF r
<1> QED BY <1>1, <1>2, <1>4, <1>5, EnterSection DEF IInv, TypeOK

\* A refresh that commits nothing: reservations and history stay.
LEMMA UncommittedStep ==
  ASSUME IInv, NEW t \in Threads, mu = Free, NEW c, Keeps(cache, c),
         NEW reason \in Reasons, Reconcile(t, c, "None", reason),
         DOMAIN hist' = DOMAIN hist, hist'.fetchAt = hist.fetchAt,
         hist'.reserved = hist.reserved, hist'.committed = hist.committed
  PROVE  IInv'
<1>1. "None" \in Results
  BY DEF Results
<1>2. /\ Keeps(cache, cache') /\ clock' \in Nat
      /\ RowsTypeOK(row') /\ \A u \in Threads : row'[u].pc = "Ingesting" <=> mu' = u
  BY <1>1, ReconcileStep
<1>3. HistTypeOK'
  BY DEF IInv, TypeOK, HistTypeOK
<1>4. CacheTypeOK(cache')
  BY <1>2 DEF Keeps
<1>5. TypeOK'
  BY <1>2, <1>3, <1>4, TypeParts
<1>6. RefreshInv'
  BY <1>2, RefreshKept DEF IInv
<1> QED BY <1>5, <1>6 DEF IInv

\* CommitRefresh installs the newest reservation of the kid as committed.
LEMMA CommitStep ==
  ASSUME IInv, NEW t \in Threads, TargetCommitted(t)
  PROVE  IInv' /\ row[t].reservation = hist.reserved[row[t].key]
               /\ row[t].reservation > hist.committed[row[t].key]
<1> DEFINE k == row[t].key
           c == CommitRefresh(Fetched(t), k, Candidates(t), row[t].now)
           verified == VerifiedCandidate(Usable(Doc(t), Kid(t)), row[t].tok)
           reason == RefreshReason(Candidates(t), LiveKeys(t))
<1>1. k \in CacheKey /\ row[t].now \in Nat /\ row[t].tok \in Jwts /\ Uri(t) \in Uris
  BY DEF IInv, TypeOK, RowTypeOK, CacheKey, Uri
<1>2. Keeps(cache, Fetched(t))
  BY <1>1, RecordJwksFetchSuccessKeeps DEF IInv, TypeOK, Fetched
<1>3. Keeps(Fetched(t), c) /\ c.entry[k].reservation = NoReservation
  BY <1>1, <1>2, CommitRefreshKeeps DEF Keeps
<1>4. Keeps(cache, c)
  BY <1>2, <1>3, KeepsTransitive
<1>5. verified \in Results /\ reason \in Reasons
  BY <1>1, VerdictTypes DEF RefreshReason, Reasons
<1>6. mu = Free /\ Reconcile(t, c, verified, reason)
  BY DEF TargetCommitted, Refreshed, Resumes
<1> HIDE DEF c, verified, reason
<1>7. /\ Keeps(cache, cache') /\ clock' \in Nat
      /\ \A j \in CacheKey : cache'.entry[j].reservation = c.entry[j].reservation
      /\ RowsTypeOK(row') /\ \A u \in Threads : row'[u].pc = "Ingesting" <=> mu' = u
  BY <1>4, <1>5, <1>6, ReconcileStep
<1>8. row[t].reservation # NoReservation /\ cache.entry[k].reservation = row[t].reservation
  BY DEF TargetCommitted, Commits, CanCommitRefresh
<1>9. row[t].reservation = hist.reserved[k] /\ row[t].reservation > hist.committed[k]
  BY <1>1, <1>8 DEF IInv, RefreshInv, ReservationsOrdered
<1>10. row[t].reservation \in Nat
  BY DEF IInv, TypeOK, RowTypeOK
<1>11. /\ DOMAIN hist' = DOMAIN hist /\ hist'.fetchAt = hist.fetchAt /\ hist'.reserved = hist.reserved
       /\ hist'.committed = [hist.committed EXCEPT ![k] = row[t].reservation]
  BY DEF TargetCommitted, IInv, TypeOK, HistTypeOK
<1>12. HistTypeOK'
  BY <1>1, <1>10, <1>11 DEF IInv, TypeOK, HistTypeOK
<1>13. TypeOK'
  BY <1>7, <1>12, TypeParts DEF Keeps
<1>14. BudgetStamped'
  BY <1>7, <1>11 DEF IInv, RefreshInv, BudgetStamped, Keeps
<1>15. ReservationsOrdered'
  <2> SUFFICES ASSUME NEW j \in CacheKey
               PROVE  /\ hist'.committed[j] <= hist'.reserved[j]
                      /\ hist'.reserved[j] < cache'.nextReservation
                      /\ cache'.entry[j].reservation # NoReservation =>
                           /\ cache'.entry[j].reservation = hist'.reserved[j]
                           /\ cache'.entry[j].reservation > hist'.committed[j]
    BY DEF ReservationsOrdered
  <2>1. hist.committed \in [CacheKey -> Nat] /\ hist.reserved \in [CacheKey -> Nat]
    BY DEF IInv, TypeOK, HistTypeOK
  <2>2. /\ hist.committed[j] <= hist.reserved[j] /\ hist.reserved[j] < cache'.nextReservation
        /\ cache.entry[j].reservation # NoReservation =>
             /\ cache.entry[j].reservation = hist.reserved[j]
             /\ cache.entry[j].reservation > hist.committed[j]
    BY <1>7 DEF IInv, RefreshInv, ReservationsOrdered, Keeps
  <2>3. CASE j = k
    BY <1>3, <1>7, <1>9, <1>11, <2>1, <2>2, <2>3
  <2>4. CASE j # k
    BY <1>7, <1>11, <2>1, <2>2, <2>4 DEF Keeps
  <2> QED BY <2>3, <2>4
<1> QED BY <1>9, <1>13, <1>14, <1>15 DEF IInv, RefreshInv

\* The mutex is back after the HTTP call.
LEMMA ResumeStep ==
  ASSUME IInv, NEW t \in Threads, Resume(t)
  PROVE  IInv'
<1>1. /\ row[t].key \in CacheKey /\ row[t].now \in Nat /\ row[t].tok \in Jwts /\ Uri(t) \in Uris
      /\ row[t].prior \in Results
  BY DEF IInv, TypeOK, RowTypeOK, CacheKey, Uri
<1>2. Keeps(cache, Fetched(t))
  BY <1>1, RecordJwksFetchSuccessKeeps DEF IInv, TypeOK, Fetched
<1>3. /\ {"UnknownKid", "JwksFetchFailed"} \subseteq Results
      /\ {"None", "FetchFailed", "ParseFailed", "KidEvicted", "KidAbsent", "Superseded"} \subseteq Reasons
  BY DEF Results, Reasons
<1>4. CASE ColdFetchFailed(t)
  <2>1. row[t].pc = "Answered" /\ UNCHANGED <<mu, hist, clock>>
    BY <1>4 DEF ColdFetchFailed, Resumes, env
  <2>2. CASE row[t].resp.status = "200"
    <3>1. cache' = OnFetchMiss(cache, row[t].key, row[t].now) /\ Return(t, "UnknownKid", "None")
      BY <1>4, <2>2 DEF ColdFetchFailed
    <3>2. Keeps(cache, cache')
      BY <1>1, <3>1, OnFetchMissKeeps DEF IInv, TypeOK
    <3>3. RowsTypeOK(row') /\ \A u \in Threads : row'[u].pc = "Ingesting" <=> mu' = u
      BY <1>3, <2>1, <3>1, ReturnOutside DEF IInv
    <3>4. HistTypeOK' /\ clock' \in Nat /\ CacheTypeOK(cache')
      BY <2>1, <3>2 DEF IInv, TypeOK, HistTypeOK, Keeps
    <3>5. TypeOK'
      BY <3>3, <3>4, TypeParts
    <3>6. RefreshInv'
      BY <2>1, <3>2, RefreshKept DEF IInv
    <3> QED BY <3>5, <3>6 DEF IInv
  <2>3. CASE row[t].resp.status # "200"
    BY <1>3, <1>4, <2>1, <2>3, DecidedStep DEF ColdFetchFailed
  <2> QED BY <2>2, <2>3
<1>5. CASE ColdFetchOk(t)
  <2> DEFINE rest == {kid \in Kids : Usable(Doc(t), kid) # <<>>}
             r == [row[t] EXCEPT !.pc = "Ingesting", !.todo = rest]
  <2>1. mu = Free /\ mu' = t /\ cache' = Fetched(t) /\ clock' = clock
    BY <1>5 DEF ColdFetchOk, Resumes, Fetched, env
  <2>h. /\ DOMAIN hist' = DOMAIN hist /\ hist'.fetchAt = hist.fetchAt
        /\ hist'.reserved = hist.reserved /\ hist'.committed = hist.committed
    BY <1>5 DEF ColdFetchOk, IInv, TypeOK, HistTypeOK
  <2>2. rest \subseteq Kids /\ row' = [row EXCEPT ![t] = r]
    BY <1>5 DEF ColdFetchOk
  <2> HIDE DEF rest
  <2>3. RowTypeOK(r) /\ r.pc = "Ingesting"
    BY <2>2 DEF IInv, TypeOK, RowTypeOK
  <2> HIDE DEF r
  <2>4. RowsTypeOK(row') /\ \A u \in Threads : row'[u].pc = "Ingesting" <=> mu' = u
    BY <2>1, <2>2, <2>3, EnterSection DEF IInv
  <2>5. HistTypeOK' /\ clock' \in Nat /\ CacheTypeOK(cache')
    BY <1>2, <2>1, <2>h DEF IInv, TypeOK, HistTypeOK, Keeps
  <2>6. TypeOK'
    BY <2>4, <2>5, TypeParts
  <2>7. RefreshInv'
    BY <1>2, <2>1, <2>h, RefreshKept DEF IInv
  <2> QED BY <2>6, <2>7 DEF IInv
<1>6. CASE RefreshFailed(t)
  BY <1>1, <1>3, <1>6, DecidedStep DEF RefreshFailed, Resumes
<1>7. CASE TargetAbsent(t)
  <2> DEFINE c == RecordKidAbsent(Fetched(t), row[t].key, row[t].reservation, row[t].now)
             reason == IF /\ OwnsRefresh(cache, row[t].key, row[t].reservation)
                          /\ EvictsOnAbsence(cache, row[t].key) THEN "KidEvicted" ELSE "KidAbsent"
  <2>1. Keeps(Fetched(t), c)
    BY <1>1, <1>2, RecordKidAbsentKeeps DEF Keeps
  <2>2. Keeps(cache, c) /\ reason \in Reasons
    BY <1>2, <1>3, <2>1, KeepsTransitive
  <2>3. mu = Free /\ Reconcile(t, c, "None", reason)
    BY <1>7 DEF TargetAbsent, Refreshed, Resumes
  <2>4. /\ DOMAIN hist' = DOMAIN hist /\ hist'.fetchAt = hist.fetchAt
        /\ hist'.reserved = hist.reserved /\ hist'.committed = hist.committed
    BY <1>7 DEF TargetAbsent, IInv, TypeOK, HistTypeOK
  <2> HIDE DEF c, reason
  <2> QED BY <2>2, <2>3, <2>4, UncommittedStep
<1>8. CASE TargetUnusable(t)
  <2>1. mu = Free /\ Reconcile(t, Fetched(t), "None", "ParseFailed")
    BY <1>8 DEF TargetUnusable, Refreshed, Resumes
  <2>2. /\ DOMAIN hist' = DOMAIN hist /\ hist'.fetchAt = hist.fetchAt
        /\ hist'.reserved = hist.reserved /\ hist'.committed = hist.committed
    BY <1>8 DEF TargetUnusable, IInv, TypeOK, HistTypeOK
  <2> QED BY <1>2, <1>3, <2>1, <2>2, UncommittedStep
<1>9. CASE TargetCommitted(t)
  BY <1>9, CommitStep
<1>10. CASE TargetSuperseded(t)
  <2>1. mu = Free /\ Reconcile(t, Fetched(t), "None", "Superseded")
    BY <1>10 DEF TargetSuperseded, Refreshed, Resumes
  <2>2. /\ DOMAIN hist' = DOMAIN hist /\ hist'.fetchAt = hist.fetchAt
        /\ hist'.reserved = hist.reserved /\ hist'.committed = hist.committed
    BY <1>10 DEF TargetSuperseded, IInv, TypeOK, HistTypeOK
  <2> QED BY <1>2, <1>3, <2>1, <2>2, UncommittedStep
<1> QED BY <1>4, <1>5, <1>6, <1>7, <1>8, <1>9, <1>10 DEF Resume

\* Inside the critical section: evictions, ingestions, and the way out.
LEMMA IngestStep ==
  ASSUME IInv, NEW t \in Threads, Ingest(t)
  PROVE  IInv'
<1>1. /\ row[t].key \in CacheKey /\ row[t].now \in Nat /\ row[t].tok \in Jwts /\ Uri(t) \in Uris
      /\ row[t].verified \in Results /\ row[t].reason \in Reasons
  BY DEF IInv, TypeOK, RowTypeOK, CacheKey, Uri
<1>2. ASSUME Keeps(cache, cache'), clock' = clock,
             RowsTypeOK(row'), \A u \in Threads : row'[u].pc = "Ingesting" <=> mu' = u,
             DOMAIN hist' = DOMAIN hist, hist'.fetchAt = hist.fetchAt,
             hist'.reserved = hist.reserved, hist'.committed = hist.committed
      PROVE  IInv'
  <2>1. HistTypeOK' /\ clock' \in Nat /\ CacheTypeOK(cache')
    BY <1>2 DEF IInv, TypeOK, HistTypeOK, Keeps
  <2>2. TypeOK'
    BY <1>2, <2>1, TypeParts
  <2>3. RefreshInv'
    BY <1>2, RefreshKept DEF IInv
  <2> QED BY <2>2, <2>3 DEF IInv
<1>3. ASSUME NEW r, RowTypeOK(r), r.pc = "Ingesting", row[t].pc = "Ingesting",
             row' = [row EXCEPT ![t] = r], mu' = mu
      PROVE  RowsTypeOK(row') /\ \A u \in Threads : row'[u].pc = "Ingesting" <=> mu' = u
  BY <1>3, RowsUpdate DEF IInv, TypeOK, RowsTypeOK
<1>4. ASSUME NEW k \in CacheKey, EvictAbsent(t, k)
      PROVE  IInv'
  <2> DEFINE r == [row[t] EXCEPT !.evict = @ \ {k}]
  <2>1. Keeps(cache, cache')
    BY <1>4, EraseHitKeeps DEF EvictAbsent, IInv, TypeOK
  <2>2. RowTypeOK(r) /\ r.pc = "Ingesting"
    BY <1>4 DEF EvictAbsent, IInv, TypeOK, RowTypeOK
  <2>3. row' = [row EXCEPT ![t] = r] /\ UNCHANGED <<mu, hist, clock>> /\ row[t].pc = "Ingesting"
    BY <1>4 DEF EvictAbsent, env
  <2> HIDE DEF r
  <2> QED BY <1>2, <1>3, <2>1, <2>2, <2>3
<1>5. ASSUME NEW kid \in Kids, IngestKid(t, kid)
      PROVE  IInv'
  <2> DEFINE found == VerifiedCandidate(Usable(Doc(t), kid), row[t].tok)
             v == IF kid = Kid(t) THEN found ELSE row[t].verified
             r == [row[t] EXCEPT !.todo = @ \ {kid}, !.verified = v]
  <2>1. <<Uri(t), kid>> \in CacheKey
    BY <1>1 DEF CacheKey
  <2>2. Keeps(cache, cache')
    BY <1>1, <1>5, <2>1, OnPassiveFetchSuccessKeeps DEF IngestKid, IInv, TypeOK
  <2>3. v \in Results
    BY <1>1, VerdictTypes
  <2>4. row' = [row EXCEPT ![t] = r] /\ mu' = mu /\ clock' = clock /\ row[t].pc = "Ingesting"
    BY <1>5 DEF IngestKid, env, IInv, TypeOK, RowTypeOK
  <2>5. /\ DOMAIN hist' = DOMAIN hist /\ hist'.fetchAt = hist.fetchAt
        /\ hist'.reserved = hist.reserved /\ hist'.committed = hist.committed
    BY <1>5 DEF IngestKid, IInv, TypeOK, HistTypeOK
  <2> HIDE DEF v
  <2>6. RowTypeOK(r) /\ r.pc = "Ingesting"
    BY <2>3, <2>4 DEF IInv, TypeOK, RowTypeOK
  <2> HIDE DEF r
  <2> QED BY <1>2, <1>3, <2>2, <2>4, <2>5, <2>6
<1>6. ASSUME NEW result \in Results, NEW reason \in Reasons, Return(t, result, reason),
             row[t].pc = "Ingesting", mu' = Free, Keeps(cache, cache'), UNCHANGED <<hist, clock>>
      PROVE  IInv'
  BY <1>2, <1>6, ReturnInside DEF IInv
<1>7. {"UnusableKey", "NoMatchingKey", "UnknownKid", "InvalidSignature"} \subseteq Results
      /\ "None" \in Reasons
  BY DEF Results, Reasons
<1>8. CASE FinishCold(t)
  <2> DEFINE second == Lookup(cache, row[t].key, row[t].now)
             missed == CASE Kid(t) \in PresentKids(Doc(t)) -> "UnusableKey"
                         [] Kid(t) \notin PresentKids(Doc(t)) /\ Doc(t)[Kid(t)] # <<>> -> "NoMatchingKey"
                         [] OTHER -> "UnknownKid"
             found == IF row[t].verified # "None" THEN row[t].verified
                      ELSE VerifyAgainstCachedKid(second.keys, row[t].tok)
  <2>1. row[t].pc = "Ingesting" /\ mu' = Free /\ UNCHANGED <<hist, clock>>
    BY <1>8 DEF FinishCold, Ingested, env
  <2>2. missed \in Results /\ found \in Results
    BY <1>1, <1>7, VerdictTypes
  <2>3. Keeps(cache, cache) /\ Keeps(cache, OnFetchMiss(cache, row[t].key, row[t].now))
    BY <1>1, KeepsItself, OnFetchMissKeeps DEF IInv, TypeOK
  <2>4. \/ cache' = OnFetchMiss(cache, row[t].key, row[t].now) /\ Return(t, missed, "None")
        \/ cache' = cache /\ Return(t, found, "None")
    BY <1>8 DEF FinishCold
  <2> HIDE DEF missed, found
  <2> QED BY <1>6, <1>7, <2>1, <2>2, <2>3, <2>4
<1>9. CASE FinishRefresh(t)
  <2>1. ReverifyAfterCommit(t) \in Results
    BY <1>1, <1>7, VerdictTypes DEF ReverifyAfterCommit
  <2>2. /\ row[t].pc = "Ingesting" /\ mu' = Free /\ UNCHANGED <<cache, hist, clock>>
        /\ Return(t, ReverifyAfterCommit(t), row[t].reason)
    BY <1>9 DEF FinishRefresh, Ingested, env
  <2> QED BY <1>1, <1>6, <2>1, <2>2, KeepsItself DEF IInv
<1> QED BY <1>4, <1>5, <1>8, <1>9 DEF Ingest

(***************************************************************************)
(* The theorems.                                                            *)
(***************************************************************************)
\* The invariant holds initially.
LEMMA InitIInv == Init => IInv
<1> SUFFICES ASSUME Init PROVE IInv
  OBVIOUS
<1>1. Clamp(StartupMinRefreshS, 1, MaxMinRefreshS) \in 1..MaxMinRefreshS
  BY CacheAssumption, ValidatorAssumption DEF Clamp
<1>2. CacheTypeOK(cache) /\ cache.lastGlobalFetch = NoStamp /\ cache.nextReservation = 1
      /\ \A k \in CacheKey : cache.entry[k] = NoEntry
  BY <1>1, NoEntryTypeOK DEF Init, EmptyCache, CacheTypeOK, NoStamp
<1>3. \A t \in Threads : row[t].pc = "Ingesting" <=> mu = t
  BY IdleRowTypeOK, ValidatorAssumption DEF Init, Free
<1>4. DOMAIN row = Threads /\ \A t \in Threads : RowTypeOK(row[t])
  BY IdleRowTypeOK DEF Init
<1>5. HistTypeOK /\ hist.fetchAt = NoStamp
      /\ \A k \in CacheKey : hist.reserved[k] = 0 /\ hist.committed[k] = 0
  BY DEF Init, HistTypeOK, NoStamp
<1>6. TypeOK
  BY <1>2, <1>3, <1>4, <1>5 DEF TypeOK, Init
<1>7. RefreshInv
  BY <1>2, <1>5 DEF RefreshInv, BudgetStamped, ReservationsOrdered, NoEntry, NoReservation
<1> QED BY <1>6, <1>7 DEF IInv

\* Every step preserves the invariant.
LEMMA NextIInv == IInv /\ [Next]_vars => IInv'
<1> SUFFICES ASSUME IInv, [Next]_vars PROVE IInv'
  OBVIOUS
<1>1. CASE UNCHANGED vars
  BY <1>1 DEF vars, IInv, TypeOK, HistTypeOK, RefreshInv, BudgetStamped, ReservationsOrdered
<1>2. CASE Environment
  BY <1>2, EnvironmentStep
<1>3. CASE \E t \in Threads : Caller(t) \/ Begin(t) \/ Http(t) \/ Resume(t) \/ Ingest(t)
  BY <1>3, CallerStep, BeginStep, HttpStep, ResumeStep, IngestStep
<1> QED BY <1>1, <1>2, <1>3 DEF Next

\* The invariant holds in every reachable state.
LEMMA InductiveInvariant == Spec => []IInv
  BY InitIInv, NextIInv, PTL DEF Spec

\* Type correctness: the cache, the rows and the history keep their types,
\* and the mutex is held across steps exactly by the thread applying a document.
THEOREM TypeCorrect == Spec => []TypeOK
<1>1. IInv => TypeOK
  BY DEF IInv
<1> QED BY <1>1, InductiveInvariant, PTL

\* The budget stamp is the time of the last fetch, and reservations of a kid
\* are only ever replaced by newer ones.
THEOREM RefreshInvariant == Spec => []RefreshInv
<1>1. IInv => RefreshInv
  BY DEF IInv
<1> QED BY <1>1, InductiveInvariant, PTL

\* Only the acting thread's row changes, and the five groups of actions start
\* from different program points.
LEMMA ActingThread ==
  ASSUME TypeOK, NEW u \in Threads, Caller(u) \/ Begin(u) \/ Http(u) \/ Resume(u) \/ Ingest(u)
  PROVE  /\ \A v \in Threads \ {u} : row'[v] = row[v]
         /\ Caller(u) => row[u].pc \in {"Idle", "Done"}
         /\ Begin(u) => row[u].pc = "Ready"
         /\ Http(u) => row[u].pc = "Fetching"
         /\ Resume(u) => row[u].pc = "Answered"
         /\ Ingest(u) => row[u].pc = "Ingesting"
<1> USE DEF TypeOK, Return
<1>1. CASE Caller(u)
  BY <1>1 DEF Caller, StartChunk, NextRow, FinishChunk, Present, Begin, Http, Resume, Ingest,
     RejectEarly, AcceptCached, ThrottleRefresh, StartRefresh, RejectMiss, StartColdFetch,
     WantsRefresh, Misses, HasMutex, Answer, AttemptFails,
     ColdFetchFailed, ColdFetchOk, RefreshFailed, TargetAbsent, TargetUnusable, TargetCommitted,
     TargetSuperseded, Refreshed, Resumes, EvictAbsent, IngestKid, FinishCold, FinishRefresh, Ingested
<1>2. Begin(u) => row[u].pc = "Ready" /\ \A v \in Threads \ {u} : row'[v] = row[v]
  BY DEF Begin, RejectEarly, AcceptCached, ThrottleRefresh, StartRefresh, RejectMiss, StartColdFetch,
     WantsRefresh, Misses, HasMutex, Fetch
<1>3. Http(u) => row[u].pc = "Fetching" /\ \A v \in Threads \ {u} : row'[v] = row[v]
  BY DEF Http, Answer, AttemptFails, Respond
<1>4. Resume(u) => row[u].pc = "Answered" /\ \A v \in Threads \ {u} : row'[v] = row[v]
  BY DEF Resume, ColdFetchFailed, ColdFetchOk, RefreshFailed, TargetAbsent, TargetUnusable,
     TargetCommitted, TargetSuperseded, Refreshed, Resumes, Reconcile
<1>5. Ingest(u) => row[u].pc = "Ingesting" /\ \A v \in Threads \ {u} : row'[v] = row[v]
  BY DEF Ingest, EvictAbsent, IngestKid, FinishCold, FinishRefresh, Ingested
<1> QED BY <1>1, <1>2, <1>3, <1>4, <1>5

\* Fetches of all threads keep the global budget window.
THEOREM BudgetHolds == Spec => BudgetRespected
<1> DEFINE InBudget == \A t \in Threads :
       row[t].pc = "Ready" /\ row'[t].pc = "Fetching" =>
         \/ hist.fetchAt = NoStamp
         \/ row[t].now >= hist.fetchAt + BudgetWindowS
         \/ hist.fetchAt - row[t].now > ClockResetS
<1>1. IInv /\ [Next]_vars => [InBudget]_vars
  <2> SUFFICES ASSUME IInv, Next, NEW t \in Threads, row[t].pc = "Ready", row'[t].pc = "Fetching"
               PROVE  \/ hist.fetchAt = NoStamp
                      \/ row[t].now >= hist.fetchAt + BudgetWindowS
                      \/ hist.fetchAt - row[t].now > ClockResetS
    OBVIOUS
  <2>1. ~Environment
    BY DEF Environment, Tick, Publish, Reconfigure
  <2>2. PICK u \in Threads : Caller(u) \/ Begin(u) \/ Http(u) \/ Resume(u) \/ Ingest(u)
    BY <2>1 DEF Next
  <2>3. u = t /\ Begin(t)
    BY <2>2, ActingThread DEF IInv
  <2>4. row[t].now \in Nat /\ cache.lastGlobalFetch \in Nat /\ cache.lastGlobalFetch = hist.fetchAt
    BY DEF IInv, TypeOK, RowTypeOK, CacheTypeOK, RefreshInv, BudgetStamped
  <2>5. ASSUME NEW result, NEW reason, Return(t, result, reason)
        PROVE  FALSE
    BY <2>5, IdleRowTypeOK DEF Return, RowTypeOK, IInv, TypeOK
  <2>6. CanFetchJwks(cache, row[t].now)
    BY <2>3, <2>5 DEF Begin, RejectEarly, AcceptCached, ThrottleRefresh, StartRefresh, RejectMiss,
       StartColdFetch
  <2> QED BY <2>4, <2>6, CacheAssumption DEF CanFetchJwks, RelateClock, NoStamp
<1>2. QED BY <1>1, InductiveInvariant, PTL DEF Spec, BudgetRespected

\* Refreshes of a kid commit in the order in which they were reserved.
THEOREM CommitsOrdered == Spec => CommitsInOrder
<1> DEFINE InOrder == \A t \in Threads : CommitsIn(t) =>
       /\ row[t].reservation = hist.reserved[row[t].key]
       /\ row[t].reservation > hist.committed[row[t].key]
<1>1. IInv /\ [Next]_vars => [InOrder]_vars
  <2> SUFFICES ASSUME IInv, Next, NEW t \in Threads, CommitsIn(t)
               PROVE  /\ row[t].reservation = hist.reserved[row[t].key]
                      /\ row[t].reservation > hist.committed[row[t].key]
    OBVIOUS
  <2>1. ~Environment
    BY DEF Environment, Tick, Publish, Reconfigure, CommitsIn
  <2>2. PICK u \in Threads : Caller(u) \/ Begin(u) \/ Http(u) \/ Resume(u) \/ Ingest(u)
    BY <2>1 DEF Next
  <2>3. u = t /\ Resume(t)
    BY <2>2, ActingThread DEF IInv, CommitsIn
  <2>4. ASSUME NEW result, NEW reason, Return(t, result, reason)
        PROVE  FALSE
    BY <2>4, IdleRowTypeOK DEF Return, RowTypeOK, IInv, TypeOK, CommitsIn
  <2>5. ASSUME NEW c, NEW verified, NEW reason, Reconcile(t, c, verified, reason)
        PROVE  row'[t].reason = reason
    BY <2>5 DEF Reconcile, IInv, TypeOK, RowTypeOK
  <2>6. ~ColdFetchFailed(t) /\ ~RefreshFailed(t) /\ ~ColdFetchOk(t)
    BY <2>4 DEF ColdFetchFailed, RefreshFailed, ColdFetchOk, Resumes, CommitsIn
  <2>7. ~TargetAbsent(t) /\ ~TargetUnusable(t) /\ ~TargetSuperseded(t)
    BY <2>5 DEF TargetAbsent, TargetUnusable, TargetSuperseded, CommitsIn
  <2>8. TargetCommitted(t)
    BY <2>3, <2>6, <2>7 DEF Resume
  <2> QED BY <2>8, CommitStep
<1>2. QED BY <1>1, InductiveInvariant, PTL DEF Spec, CommitsInOrder

(***************************************************************************)
(* Documents and key lists.                                                 *)
(***************************************************************************)
\* The usable keys of a kid: usable signing keys of the document, each once.
LEMMA UsableIs ==
  ASSUME NEW doc \in [Kids -> Seq(Keys)], NEW kid \in Kids
  PROVE  Distinct(Usable(doc, kid), UsableKeys \cap SigKeys \cap ToSet(doc[kid]))
<1> DEFINE s == doc[kid]
           I == {i \in DOMAIN s : s[i] \in SigKeys}
           g == SubSeqAt(s, I)
           J == {i \in Firsts(g) : g[i] \in UsableKeys}
           u == SubSeqAt(g, J)
<1>1. s \in Seq(Keys)
  OBVIOUS
<1>2. GroupSigningKeysByKid(doc)[kid] = g
  BY DEF GroupSigningKeysByKid
<1>3. Usable(doc, kid) = u
  BY <1>2 DEF Usable, ScreenUsableKeys
<1> HIDE DEF s
<1>4. I \in SUBSET (DOMAIN s)
  OBVIOUS
<1>5. {s[i] : i \in I} \subseteq SigKeys \cap ToSet(s)
  BY DEF ToSet
<1> HIDE DEF I
<1>6. g \in Seq(Keys) /\ ToSet(g) = {s[i] : i \in I}
  BY <1>1, <1>4, SubSeqAtIs
<1> HIDE DEF g
<1>7. J \in SUBSET (DOMAIN g) /\ \A i, j \in J : g[i] = g[j] => i = j
  BY <1>6, FirstsDistinct
<1>8. {g[i] : i \in J} \subseteq UsableKeys \cap ToSet(g)
  BY <1>7 DEF ToSet
<1> HIDE DEF J
<1>9. u \in Seq(Keys) /\ ToSet(u) = {g[i] : i \in J} /\ IsInjective(u)
  BY <1>6, <1>7, SubSeqAtIs
<1> HIDE DEF u
<1>10. ToSet(u) \subseteq UsableKeys \cap SigKeys \cap ToSet(s)
  BY <1>5, <1>6, <1>8, <1>9
<1>11. u \in Seq(UsableKeys \cap SigKeys \cap ToSet(s))
  BY <1>9, <1>10, SeqNarrow
<1> QED BY <1>3, <1>9, <1>11 DEF Distinct, s

\* A kid with a usable key is present in the document.
LEMMA UsablePresent ==
  ASSUME NEW doc \in [Kids -> Seq(Keys)], NEW kid \in Kids, Usable(doc, kid) # <<>>
  PROVE  kid \in PresentKids(doc)
<1> DEFINE s == doc[kid]
           I == {i \in DOMAIN s : s[i] \in SigKeys}
           g == SubSeqAt(s, I)
           J == {i \in Firsts(g) : g[i] \in UsableKeys}
<1>1. s \in Seq(Keys) /\ I \in SUBSET (DOMAIN s)
  OBVIOUS
<1>2. GroupSigningKeysByKid(doc)[kid] = g
  BY DEF GroupSigningKeysByKid
<1>3. Usable(doc, kid) = SubSeqAt(g, J)
  BY <1>2 DEF Usable, ScreenUsableKeys
<1> HIDE DEF s, I
<1>4. g \in Seq(Keys)
  BY <1>1, SubSeqAtIs
<1> HIDE DEF g
<1>5. SUFFICES ASSUME g = <<>> PROVE FALSE
  BY <1>2 DEF PresentKids
<1>6. J = {}
  BY <1>5 DEF Firsts
<1> HIDE DEF J
<1>7. {} \in SUBSET (DOMAIN g)
  OBVIOUS
<1>8. SubSeqAt(g, {}) \in Seq(Keys) /\ Len(SubSeqAt(g, {})) = 0
  BY <1>4, <1>7, SubSeqAtIs, FS_EmptySet
<1>9. SubSeqAt(g, {}) = <<>>
  BY <1>8, SeqFacts
<1> QED BY <1>3, <1>6, <1>9

\* Swapping the matching key to the front keeps the keys.
LEMMA PrioritizeMatchingIs ==
  ASSUME NEW m, NEW ks, Distinct(ks, m), NEW tok
  PROVE  LET p == PrioritizeMatchingKey(ks, tok) IN
         /\ Distinct(p, m) /\ Len(p) = Len(ks) /\ ToSet(p) = ToSet(ks)
         /\ VerifiedCandidate(ks, tok) # "None" => p[1] = tok.signer
<1>1. /\ Len(ks) \in Nat /\ DOMAIN ks = 1..Len(ks) /\ ks \in Seq(m)
      /\ \A i \in 1..Len(ks) : ks[i] \in m
      /\ \A x : x \in ToSet(ks) <=> \E i \in 1..Len(ks) : ks[i] = x
  BY SeqFacts DEF Distinct
<1> DEFINE p == PrioritizeMatchingKey(ks, tok)
           matched == Len(ks) > 1 /\ tok.signer \in MatchingKeys(ks, tok)
<1>2. CASE ~matched
  BY <1>2 DEF PrioritizeMatchingKey, VerifiedCandidate
<1>3. CASE matched
  <2> DEFINE i == CHOOSE i \in 1..Len(ks) : ks[i] = tok.signer
  <2>1. \E j \in 1..Len(ks) : ks[j] = tok.signer
    BY <1>1, <1>3 DEF MatchingKeys
  <2>2. i \in 1..Len(ks) /\ ks[i] = tok.signer
    BY <2>1
  <2>3. p = [ks EXCEPT ![1] = ks[i], ![i] = ks[1]]
    BY <1>3 DEF PrioritizeMatchingKey
  <2> HIDE DEF i, p
  <2>4. 1 \in 1..Len(ks)
    BY <1>1, <1>3
  <2>5. /\ DOMAIN p = 1..Len(ks)
        /\ \A j \in 1..Len(ks) : p[j] = IF j = i THEN ks[1] ELSE IF j = 1 THEN ks[i] ELSE ks[j]
    BY <1>1, <2>2, <2>3, <2>4
  <2>6. p = [j \in 1..Len(ks) |-> p[j]]
    BY <1>1, <2>3, <2>5
  <2>7. p \in Seq(m) /\ Len(p) = Len(ks)
    BY <1>1, <2>2, <2>4, <2>5, <2>6, SeqByElements
  <2>8. IsInjective(p)
    <3>1. \A u, v \in 1..Len(ks) : ks[u] = ks[v] => u = v
      BY <1>1 DEF Distinct, IsInjective
    <3> QED BY <2>2, <2>4, <2>5, <3>1 DEF IsInjective
  <2>9. ToSet(p) = ToSet(ks)
    <3>1. ASSUME NEW x \in ToSet(p) PROVE x \in ToSet(ks)
      BY <1>1, <2>2, <2>4, <2>5, <3>1 DEF ToSet
    <3>2. ASSUME NEW j \in 1..Len(ks) PROVE ks[j] \in ToSet(p)
      <4>1. \E l \in 1..Len(ks) : p[l] = ks[j]
        BY <2>2, <2>4, <2>5
      <4> QED BY <2>5, <4>1 DEF ToSet
    <3> QED BY <1>1, <3>1, <3>2
  <2>10. p[1] = tok.signer
    BY <2>2, <2>4, <2>5
  <2> QED BY <2>7, <2>8, <2>9, <2>10 DEF Distinct, p
<1> QED BY <1>2, <1>3

\* Putting the new keys first keeps the keys.
LEMMA PrioritizeNewIs ==
  ASSUME NEW m, NEW ks, Distinct(ks, m), NEW existing
  PROVE  LET p == PrioritizeNewKeys(ks, existing) IN
         Distinct(p, m) /\ Len(p) = Len(ks) /\ ToSet(p) = ToSet(ks)
<1>1. Len(ks) \in Nat /\ DOMAIN ks = 1..Len(ks) /\ ks \in Seq(m)
  BY SeqFacts DEF Distinct
<1> DEFINE p == PrioritizeNewKeys(ks, existing)
           old == {i \in DOMAIN ks : ks[i] \in ToSet(existing)}
           rest == DOMAIN ks \ old
           a == SubSeqAt(ks, rest)
           b == SubSeqAt(ks, old)
<1>2. CASE Len(ks) <= MaxKeysPerKid \/ existing = <<>>
  BY <1>2 DEF PrioritizeNewKeys
<1>3. CASE ~(Len(ks) <= MaxKeysPerKid \/ existing = <<>>)
  <2>1. p = a \o b
    BY <1>3 DEF PrioritizeNewKeys
  <2>2. old \in SUBSET (DOMAIN ks) /\ rest \in SUBSET (DOMAIN ks) /\ old \cap rest = {}
        /\ old \cup rest = DOMAIN ks
    OBVIOUS
  <2> HIDE DEF old, rest, p
  <2>3. \A i, j \in DOMAIN ks : ks[i] = ks[j] => i = j
    BY DEF Distinct, IsInjective
  <2>4. /\ a \in Seq(m) /\ IsInjective(a) /\ ToSet(a) = {ks[i] : i \in rest}
        /\ Len(a) = Cardinality(rest) /\ IsFiniteSet(rest)
    BY <1>1, <2>2, <2>3, SubSeqAtIs
  <2>5. /\ b \in Seq(m) /\ IsInjective(b) /\ ToSet(b) = {ks[i] : i \in old}
        /\ Len(b) = Cardinality(old) /\ IsFiniteSet(old)
    BY <1>1, <2>2, <2>3, SubSeqAtIs
  <2> HIDE DEF a, b
  <2>6. ToSet(a) \cap ToSet(b) = {} /\ ToSet(a) \cup ToSet(b) = ToSet(ks)
    <3>1. ToSet(ks) = {ks[i] : i \in DOMAIN ks}
      BY DEF ToSet
    <3> QED BY <2>2, <2>3, <2>4, <2>5, <3>1
  <2>7. Distinct(p, m) /\ Len(p) = Len(a) + Len(b) /\ ToSet(p) = ToSet(ks)
    <3>1. Distinct(a, m) /\ Distinct(b, m)
      BY <2>4, <2>5 DEF Distinct
    <3>2. ToSet(a) \cap ToSet(b) = {}
      BY <2>6
    <3>3. /\ Distinct(a \o b, m) /\ Len(a \o b) = Len(a) + Len(b)
          /\ ToSet(a \o b) = ToSet(a) \cup ToSet(b)
      BY <3>1, <3>2, ConcatDistinct
    <3> QED BY <2>1, <2>6, <3>3
  <2>8. Cardinality(old \cup rest) = Cardinality(old) + Cardinality(rest) - Cardinality(old \cap rest)
    BY <2>4, <2>5, FS_Union
  <2>9. Cardinality(old \cap rest) = 0 /\ Cardinality(old \cup rest) = Len(ks)
    <3>1. Cardinality(1..Len(ks)) = Len(ks)
      BY <1>1, FS_Interval
    <3>2. old \cap rest = {} /\ old \cup rest = 1..Len(ks)
      BY <1>1, <2>2
    <3> QED BY <3>1, <3>2, FS_EmptySet
  <2>10. Cardinality(old) \in Nat /\ Cardinality(rest) \in Nat
    BY <2>4, <2>5, FS_CardinalityType
  <2> QED BY <2>4, <2>5, <2>7, <2>8, <2>9, <2>10 DEF p
<1> QED BY <1>2, <1>3

\* Verification accepts only by the key that signed.
LEMMA AcceptsBySigner ==
  ASSUME NEW keys, NEW tok \in Jwts
  PROVE  /\ VerifyAgainstCachedKid(keys, tok) \in SignatureMatches => tok.signer \in ToSet(keys)
         /\ VerifiedCandidate(keys, tok) # "None" => tok.signer \in ToSet(keys)
  BY DEF VerifyAgainstCachedKid, VerifyWithCachedKeys, VerifiedCandidate, MatchingKeys, SignatureMatches

(***************************************************************************)
(* Where keys come from: the cache, the documents in flight and the         *)
(* verdicts only ever hold what the endpoint has listed.                    *)
(***************************************************************************)
\* What the cached keys of a kid may be, by the history L of listed keys.
Trusted(L, k) == UsableKeys \cap SigKeys \cap L[k]

CacheKeysOK(c, L) ==
  \A k \in c.hits : /\ Distinct(c.entry[k].keys, Trusted(L, k))
                    /\ Len(c.entry[k].keys) \in 1..MaxKeysPerKid

ProviderOK ==
  /\ published \in [Uris -> [Kids -> Seq(Keys)]]
  /\ DOMAIN hist.listed = CacheKey
  /\ \A uri \in Uris, kid \in Kids : ToSet(published[uri][kid]) \subseteq hist.listed[<<uri, kid>>]

RowKeysOK(r, L) ==
  /\ r.resp.doc \in [Kids -> Seq(Keys)]
  /\ \A kid \in Kids : ToSet(r.resp.doc[kid]) \subseteq L[<<r.key[1], kid>>]
  /\ r.prior \notin SignatureMatches
  /\ r.verified # "None" => r.tok.signer \in L[r.key]
  /\ \A kid \in r.todo : Usable(r.resp.doc, kid) # <<>> /\ (r.mode = "Refresh" => kid # r.key[2])
  /\ \A k \in r.evict : k[1] = r.key[1] /\ k[2] # r.key[2]
  /\ r.pc # "Ingesting" => r.todo = {} /\ r.evict = {}
  /\ r.pc = "Ingesting" => r.resp.status = "200" /\ r.resp.doc # NoDocument
  /\ r.mode = "Cold" => r.evict = {}
  /\ r.pc = "Done" /\ r.result \in SignatureMatches /\ r.tok.early = "None" => r.tok.signer \in L[r.key]

KeyInv ==
  /\ Shape(cache) /\ CacheKeysOK(cache, hist.listed)
  /\ ProviderOK
  /\ \A t \in Threads : RowKeysOK(row[t], hist.listed)

\* d has the kids of c with the keys and absence counts they had.
SameKeys(c, d) ==
  /\ d.hits = c.hits /\ d.hitLru = c.hitLru
  /\ \A k \in CacheKey : d.entry[k].keys = c.entry[k].keys /\ d.entry[k].absent = c.entry[k].absent

\* Operations that leave the entries alone leave the keys alone.
LEMMA SameHitsSameKeys ==
  ASSUME NEW c, NEW d, SameHits(c, d)
  PROVE  SameKeys(c, d)
  BY DEF SameHits, SameKeys

\* The keys of unchanged entries stay trusted.
LEMMA SameKeysOK ==
  ASSUME NEW c, NEW d, NEW L, Shape(c), SameKeys(c, d), CacheKeysOK(c, L)
  PROVE  CacheKeysOK(d, L)
  BY DEF SameKeys, CacheKeysOK, Shape, CacheTypeOK

\* A step in which only the entry of k changes.
LEMMA OneEntryKeysOK ==
  ASSUME NEW c, NEW d, NEW L, NEW k, Shape(c), Shape(d), CacheKeysOK(c, L),
         d.hits \subseteq c.hits \cup {k}, \A j \in d.hits \ {k} : d.entry[j].keys = c.entry[j].keys,
         k \in d.hits => /\ Distinct(d.entry[k].keys, Trusted(L, k))
                         /\ Len(d.entry[k].keys) \in 1..MaxKeysPerKid
  PROVE  CacheKeysOK(d, L)
  BY DEF CacheKeysOK

\* A document with nothing in it.
LEMMA NoDocumentIs ==
  NoDocument \in [Kids -> Seq(Keys)] /\ \A kid \in Kids : ToSet(NoDocument[kid]) = {}
  BY EmptySeq DEF NoDocument, ToSet

\* A row that holds nothing of a fetch.
LEMMA PlainRowKeysOK ==
  ASSUME NEW L, NEW r, RowTypeOK(r), r.pc # "Ingesting",
         r.resp = NoResponse, r.prior = "None", r.verified = "None", r.todo = {}, r.evict = {},
         r.pc = "Done" /\ r.result \in SignatureMatches /\ r.tok.early = "None" => r.tok.signer \in L[r.key]
  PROVE  RowKeysOK(r, L)
  BY NoDocumentIs DEF RowKeysOK, NoResponse, SignatureMatches

\* A step of thread t that lists nothing new.
LEMMA KeyStep ==
  ASSUME TypeOK, KeyInv, NEW t \in Threads, NEW r, row' = [row EXCEPT ![t] = r],
         RowKeysOK(r, hist.listed), hist'.listed = hist.listed, published' = published,
         Shape(cache'), CacheKeysOK(cache', hist.listed)
  PROVE  KeyInv'
<1>1. ASSUME NEW u \in Threads PROVE RowKeysOK(row'[u], hist'.listed)
  BY DEF TypeOK, KeyInv
<1>2. ProviderOK'
  BY DEF KeyInv, ProviderOK
<1> QED BY <1>1, <1>2 DEF KeyInv

\* ValidateToken returns: an accepting verdict must come from a listed key.
LEMMA KeyReturn ==
  ASSUME TypeOK, KeyInv, NEW t \in Threads, NEW result \in Results, NEW reason \in Reasons,
         Return(t, result, reason),
         result \in SignatureMatches /\ row[t].tok.early = "None"
           => row[t].tok.signer \in hist.listed[row[t].key],
         hist'.listed = hist.listed, published' = published, Shape(cache'), SameKeys(cache, cache')
  PROVE  KeyInv'
<1> DEFINE r == [IdleRow EXCEPT !.pc = "Done", !.now = row[t].now, !.tok = row[t].tok,
                                !.key = row[t].key, !.result = result, !.reason = reason]
<1>1. /\ RowTypeOK(r) /\ r.pc = "Done" /\ r.resp = NoResponse /\ r.prior = "None" /\ r.verified = "None"
      /\ r.todo = {} /\ r.evict = {} /\ r.result = result /\ r.tok = row[t].tok /\ r.key = row[t].key
  BY IdleRowTypeOK DEF TypeOK, RowTypeOK, IdleRow
<1>2. row' = [row EXCEPT ![t] = r]
  BY DEF Return
<1> HIDE DEF r
<1>3. RowKeysOK(r, hist.listed)
  BY <1>1, PlainRowKeysOK
<1>4. CacheKeysOK(cache', hist.listed)
  BY SameKeysOK DEF KeyInv
<1> QED BY <1>2, <1>3, <1>4, KeyStep

\* Initially nothing is cached and the documents are listed.
LEMMA InitKeyInv == Init => KeyInv
<1> SUFFICES ASSUME Init PROVE KeyInv
  OBVIOUS
<1>1. CacheTypeOK(cache)
  BY InitIInv DEF IInv, TypeOK
<1>2. /\ cache.hits = {} /\ cache.hitLru = <<>> /\ cache.misses = {} /\ cache.missLru = <<>>
      /\ \A k \in CacheKey : cache.entry[k] = NoEntry
  BY DEF Init, EmptyCache
<1>3. Lists(<<>>, {}, CacheKey) /\ Len(<<>>) = 0
  BY EmptyList
<1>4. Shape(cache) /\ CacheKeysOK(cache, hist.listed)
  BY <1>1, <1>2, <1>3, CacheAssumption DEF Shape, CacheKeysOK
<1>5. \A d \in Documents : d \in [Kids -> Seq(Keys)]
  BY ValidatorAssumption
<1>6. published \in [Uris -> [Kids -> Seq(Keys)]]
  BY <1>5 DEF Init
<1>7. hist.listed = [k \in CacheKey |-> ToSet(published[k[1]][k[2]])]
  BY DEF Init
<1>8. ProviderOK
  BY <1>6, <1>7 DEF ProviderOK, CacheKey
<1>9. ASSUME NEW t \in Threads PROVE RowKeysOK(row[t], hist.listed)
  <2>1. row[t] = IdleRow
    BY DEF Init
  <2>2. /\ IdleRow.resp = NoResponse /\ IdleRow.prior = "None" /\ IdleRow.verified = "None"
        /\ IdleRow.todo = {} /\ IdleRow.evict = {}
    BY DEF IdleRow
  <2> QED BY <2>1, <2>2, IdleRowTypeOK, PlainRowKeysOK
<1> QED BY <1>4, <1>8, <1>9 DEF KeyInv

\* The provider lists more, the clock moves, the operator sets a floor.
LEMMA KeyEnvironment ==
  ASSUME IInv, KeyInv, Environment
  PROVE  KeyInv'
<1>1. ASSUME NEW d \in ClockDeltas, Tick(d) PROVE KeyInv'
  BY <1>1 DEF Tick, KeyInv, ProviderOK
<1>2. ASSUME NEW uri \in Uris, NEW d \in Documents, Publish(uri, d) PROVE KeyInv'
  <2>1. /\ UNCHANGED <<cache, row>> /\ published' = [published EXCEPT ![uri] = d]
        /\ hist'.listed = [k \in CacheKey |->
             IF k[1] = uri THEN hist.listed[k] \cup ToSet(d[k[2]]) ELSE hist.listed[k]]
    BY <1>2 DEF Publish, IInv, TypeOK, HistTypeOK
  <2>2. \A k \in CacheKey : hist.listed[k] \subseteq hist'.listed[k]
    BY <2>1
  <2>3. d \in [Kids -> Seq(Keys)]
    BY ValidatorAssumption
  <2>4. ProviderOK'
    BY <2>1, <2>3 DEF KeyInv, ProviderOK, CacheKey
  <2>5. ASSUME NEW k \in cache.hits
        PROVE  Distinct(cache.entry[k].keys, Trusted(hist'.listed, k))
    <3>1. k \in CacheKey /\ cache.entry[k].keys \in Seq(Trusted(hist.listed, k))
          /\ IsInjective(cache.entry[k].keys)
      BY DEF KeyInv, Shape, CacheTypeOK, CacheKeysOK, Distinct
    <3>2. ToSet(cache.entry[k].keys) \subseteq Trusted(hist.listed, k)
      BY <3>1, SeqFacts
    <3>3. ToSet(cache.entry[k].keys) \subseteq Trusted(hist'.listed, k)
      BY <2>2, <3>1, <3>2 DEF Trusted
    <3> QED BY <3>1, <3>3, SeqNarrow DEF Distinct
  <2>6. CacheKeysOK(cache', hist'.listed) /\ Shape(cache')
    BY <2>1, <2>5 DEF KeyInv, CacheKeysOK
  <2>7. ASSUME NEW t \in Threads PROVE RowKeysOK(row'[t], hist'.listed)
    <3>1. row[t].key \in CacheKey /\ \A kid \in Kids : <<row[t].key[1], kid>> \in CacheKey
      BY DEF IInv, TypeOK, RowTypeOK, CacheKey
    <3> QED BY <2>1, <2>2, <3>1 DEF KeyInv, RowKeysOK
  <2> QED BY <2>4, <2>6, <2>7 DEF KeyInv
<1>3. ASSUME NEW m \in MinRefreshChoices, Reconfigure(m) PROVE KeyInv'
  <2>1. UNCHANGED <<row, hist, published>> /\ cache' = SetMinRefreshSeconds(cache, m)
    BY <1>3 DEF Reconfigure, env
  <2>2. CacheTypeOK(cache')
    BY EnvironmentStep DEF IInv, TypeOK
  <2>3. SameHits(cache, cache') /\ cache'.misses = cache.misses /\ cache'.missLru = cache.missLru
    BY <2>1 DEF SetMinRefreshSeconds, SameHits, IInv, TypeOK, CacheTypeOK
  <2>4. Shape(cache')
    BY <2>2, <2>3, ShapeKept DEF KeyInv, SameHits
  <2>5. CacheKeysOK(cache', hist.listed)
    BY <2>3, SameHitsSameKeys, SameKeysOK DEF KeyInv
  <2> QED BY <2>1, <2>4, <2>5 DEF KeyInv, ProviderOK
<1> QED BY <1>1, <1>2, <1>3 DEF Environment

\* Callers.
LEMMA KeyCaller ==
  ASSUME IInv, KeyInv, NEW t \in Threads, Caller(t)
  PROVE  KeyInv'
<1>1. SameKeys(cache, cache) /\ CacheKeysOK(cache, hist.listed) /\ Shape(cache)
  BY DEF SameKeys, KeyInv
<1>2. ASSUME NEW uri \in Uris, NEW tok \in Jwts, NEW now \in Nat, Present(t, uri, tok, now)
      PROVE  KeyInv'
  <2> DEFINE r == [IdleRow EXCEPT !.pc = "Ready", !.now = now, !.tok = tok, !.key = <<uri, tok.kid>>]
  <2>1. <<uri, tok.kid>> \in CacheKey
    BY ValidatorAssumption DEF CacheKey
  <2>2. /\ RowTypeOK(r) /\ r.pc = "Ready" /\ r.resp = NoResponse /\ r.prior = "None"
        /\ r.verified = "None" /\ r.todo = {} /\ r.evict = {}
    BY <2>1, IdleRowTypeOK DEF RowTypeOK, IdleRow
  <2>3. row' = [row EXCEPT ![t] = r] /\ UNCHANGED <<cache, hist, published>>
    BY <1>2 DEF Present
  <2> HIDE DEF r
  <2>4. RowKeysOK(r, hist.listed)
    BY <2>2, PlainRowKeysOK
  <2> QED BY <1>1, <2>3, <2>4, KeyStep DEF IInv
<1>3. CASE \E uri \in Uris, tok \in Jwts : StartChunk(t, uri, tok)
  BY <1>2, <1>3 DEF StartChunk, IInv, TypeOK
<1>4. CASE \E tok \in Jwts : NextRow(t, tok)
  <2>1. row[t].key[1] \in Uris /\ row[t].now \in Nat
    BY DEF IInv, TypeOK, RowTypeOK, CacheKey
  <2> QED BY <1>2, <1>4, <2>1 DEF NextRow
<1>5. CASE FinishChunk(t)
  <2>1. row' = [row EXCEPT ![t] = IdleRow] /\ UNCHANGED <<cache, hist, published>>
    BY <1>5 DEF FinishChunk, env
  <2>2. /\ IdleRow.resp = NoResponse /\ IdleRow.prior = "None" /\ IdleRow.verified = "None"
        /\ IdleRow.todo = {} /\ IdleRow.evict = {}
    BY DEF IdleRow
  <2>3. RowKeysOK(IdleRow, hist.listed)
    BY <2>2, IdleRowTypeOK, PlainRowKeysOK
  <2> QED BY <1>1, <2>1, <2>3, KeyStep DEF IInv
<1> QED BY <1>3, <1>4, <1>5 DEF Caller

\* A cached kid that verifies a token does so by a listed key.
LEMMA CachedKeyListed ==
  ASSUME TypeOK, KeyInv, NEW t \in Threads, row[t].key \in cache.hits,
         VerifyAgainstCachedKid(cache.entry[row[t].key].keys, row[t].tok) \in SignatureMatches
  PROVE  row[t].tok.signer \in hist.listed[row[t].key]
<1> DEFINE keys == cache.entry[row[t].key].keys
<1>1. row[t].tok \in Jwts
  BY DEF TypeOK, RowTypeOK
<1>2. row[t].tok.signer \in ToSet(keys)
  BY <1>1, AcceptsBySigner
<1>3. keys \in Seq(Trusted(hist.listed, row[t].key))
  BY DEF KeyInv, CacheKeysOK, Distinct
<1> HIDE DEF keys
<1>4. ToSet(keys) \subseteq Trusted(hist.listed, row[t].key)
  BY <1>3, SeqFacts
<1> QED BY <1>2, <1>4 DEF Trusted

\* A lookup hits exactly the cached kids.
LEMMA LookupHit ==
  ASSUME NEW c, NEW k, NEW now
  PROVE  /\ Lookup(c, k, now).status = "Hit" <=> k \in c.hits
         /\ k \in c.hits => Lookup(c, k, now).keys = c.entry[k].keys
  BY DEF Lookup

\* A fetch starts.
LEMMA KeyFetch ==
  ASSUME IInv, KeyInv, NEW t \in Threads, row[t].pc = "Ready", NEW c, Shape(c), SameKeys(cache, c),
         CanFetchJwks(c, row[t].now), NEW mode, NEW prior, prior \notin SignatureMatches,
         NEW reservation, Fetch(t, c, mode, prior, reservation)
  PROVE  KeyInv' /\ SameKeys(cache, cache')
<1> DEFINE r == [row[t] EXCEPT !.pc = "Fetching", !.mode = mode, !.prior = prior,
                               !.reservation = reservation]
<1>1. row[t].now \in Nat /\ CacheTypeOK(c)
  BY DEF IInv, TypeOK, RowTypeOK, Shape
<1>2. cache' = [c EXCEPT !.lastGlobalFetch = row[t].now]
  BY <1>1, RecordJwksFetchStamps DEF Fetch
<1>3. PICK uri \in Uris : TRUE
  BY ValidatorAssumption
<1>4. Shape(cache') /\ SameHits(c, cache')
  BY <1>1, <1>2, <1>3, StampsShape
<1>5. SameKeys(cache, cache')
  BY <1>4 DEF SameHits, SameKeys
<1>6. CacheKeysOK(cache', hist.listed)
  BY <1>5, SameKeysOK DEF KeyInv
<1>7. row' = [row EXCEPT ![t] = r] /\ hist'.listed = hist.listed /\ published' = published
  BY DEF Fetch, env, IInv, TypeOK, HistTypeOK
<1>8. RowTypeOK(row[t]) /\ RowKeysOK(row[t], hist.listed)
  BY DEF IInv, TypeOK, KeyInv
<1>9. RowKeysOK(r, hist.listed)
  BY <1>8 DEF RowTypeOK, RowKeysOK
<1> HIDE DEF r
<1> QED BY <1>4, <1>5, <1>6, <1>7, <1>9, KeyStep DEF IInv

\* ValidateToken up to its return or its HTTP call.
LEMMA KeyBegin ==
  ASSUME IInv, KeyInv, NEW t \in Threads, Begin(t)
  PROVE  KeyInv' /\ SameKeys(cache, cache')
<1>0. SameKeys(cache, cache) /\ Shape(cache)
  BY DEF SameKeys, KeyInv
<1>1. row[t].tok \in Jwts /\ row[t].key \in CacheKey /\ row[t].now \in Nat
  BY DEF IInv, TypeOK, RowTypeOK
<1>2. CachedResult(t) \in Results /\ row[t].tok.early \in Results
  BY <1>1, VerdictTypes DEF CachedResult
<1>3. /\ {"UnknownKid", "JwksThrottled"} \subseteq Results
      /\ {"None", "Throttled", "BudgetThrottled"} \subseteq Reasons
      /\ "UnknownKid" \notin SignatureMatches /\ "JwksThrottled" \notin SignatureMatches
      /\ "None" \notin SignatureMatches
  BY DEF Results, Reasons, SignatureMatches
<1>4. ASSUME NEW result \in Results, NEW reason \in Reasons, Return(t, result, reason),
             UNCHANGED <<cache, mu, hist>>, UNCHANGED env,
             result \in SignatureMatches /\ row[t].tok.early = "None"
               => row[t].tok.signer \in hist.listed[row[t].key]
      PROVE  KeyInv' /\ SameKeys(cache, cache')
  BY <1>0, <1>4, KeyReturn DEF IInv, env
<1>5. CASE RejectEarly(t)
  BY <1>2, <1>3, <1>4, <1>5 DEF RejectEarly
<1>6. CASE AcceptCached(t)
  <2>1. row[t].key \in cache.hits /\ First(t).keys = cache.entry[row[t].key].keys
    BY <1>6, LookupHit DEF AcceptCached, First
  <2>2. row[t].tok.signer \in hist.listed[row[t].key]
    BY <1>6, <2>1, CachedKeyListed DEF AcceptCached, CachedResult, IInv
  <2> QED BY <1>2, <1>3, <1>4, <1>6, <2>2 DEF AcceptCached
<1>7. CASE ThrottleRefresh(t)
  BY <1>2, <1>3, <1>4, <1>7 DEF ThrottleRefresh, WantsRefresh
<1>8. CASE RejectMiss(t)
  BY <1>3, <1>4, <1>8 DEF RejectMiss
<1>9. CASE StartRefresh(t)
  <2> DEFINE c == ReserveRefresh(cache, row[t].key, row[t].now)
  <2>1. row[t].key \in cache.hits
    BY <1>9, LookupHit DEF StartRefresh, WantsRefresh, First
  <2>2. Shape(c) /\ SameKeys(cache, c)
    BY <1>0, <1>1, <2>1, ReserveRefreshShape DEF SameKeys, ChangesOnly
  <2>3. c.lastGlobalFetch = cache.lastGlobalFetch
    BY <1>1, ReserveRefreshReserves DEF IInv, TypeOK
  <2>4. /\ Fetch(t, c, "Refresh", CachedResult(t), cache.nextReservation) /\ row[t].pc = "Ready"
        /\ CanFetchJwks(cache, row[t].now) /\ CachedResult(t) \notin SignatureMatches
    BY <1>9 DEF StartRefresh, WantsRefresh, HasMutex
  <2> HIDE DEF c
  <2>5. CanFetchJwks(c, row[t].now)
    BY <2>3, <2>4 DEF CanFetchJwks
  <2> QED BY <2>2, <2>4, <2>5, KeyFetch
<1>10. CASE StartColdFetch(t)
  <2>1. Fetch(t, cache, "Cold", "None", NoReservation) /\ row[t].pc = "Ready"
        /\ CanFetchJwks(cache, row[t].now)
    BY <1>10 DEF StartColdFetch, Misses, HasMutex
  <2> QED BY <1>0, <1>3, <2>1, KeyFetch
<1> QED BY <1>5, <1>6, <1>7, <1>8, <1>9, <1>10 DEF Begin

\* The response brings the document of the row's endpoint, or an empty one.
LEMMA KeyHttp ==
  ASSUME IInv, KeyInv, NEW t \in Threads, Http(t)
  PROVE  KeyInv' /\ UNCHANGED cache
<1>0. CacheKeysOK(cache, hist.listed) /\ Shape(cache) /\ RowTypeOK(row[t]) /\ RowKeysOK(row[t], hist.listed)
  BY DEF KeyInv, IInv, TypeOK
<1>1. ASSUME NEW resp, Respond(t, resp), row[t].pc = "Fetching",
             resp.doc \in [Kids -> Seq(Keys)],
             \A kid \in Kids : ToSet(resp.doc[kid]) \subseteq hist.listed[<<row[t].key[1], kid>>]
      PROVE  KeyInv' /\ UNCHANGED cache
  <2> DEFINE r == [row[t] EXCEPT !.pc = "Answered", !.attempt = 0, !.resp = resp]
  <2>1. row' = [row EXCEPT ![t] = r] /\ UNCHANGED <<cache, hist, published>>
    BY <1>1 DEF Respond, env
  <2>2. RowKeysOK(r, hist.listed)
    BY <1>0, <1>1 DEF RowTypeOK, RowKeysOK
  <2> HIDE DEF r
  <2> QED BY <1>0, <2>1, <2>2, KeyStep DEF IInv
<1>2. /\ HttpFailed.doc = NoDocument /\ Http200(NoDocument).doc = NoDocument
      /\ Http200(published[row[t].key[1]]).doc = published[row[t].key[1]]
  BY DEF HttpFailed, Http200
<1>3. row[t].key[1] \in Uris
  BY <1>0 DEF RowTypeOK, CacheKey
<1>4. CASE Answer(t)
  <2>1. PICK resp \in {Http200(published[row[t].key[1]]), Http200(NoDocument), HttpFailed} :
           Respond(t, resp)
    BY <1>4 DEF Answer
  <2>2. resp.doc = NoDocument \/ resp.doc = published[row[t].key[1]]
    BY <1>2, <2>1
  <2>3. /\ resp.doc \in [Kids -> Seq(Keys)]
        /\ \A kid \in Kids : ToSet(resp.doc[kid]) \subseteq hist.listed[<<row[t].key[1], kid>>]
    BY <1>3, <2>2, NoDocumentIs DEF KeyInv, ProviderOK
  <2> QED BY <1>1, <1>4, <2>1, <2>3 DEF Answer
<1>5. CASE AttemptFails(t)
  <2>1. CASE row[t].attempt = MaxRetries /\ Respond(t, HttpFailed)
    BY <1>1, <1>2, <1>5, <2>1, NoDocumentIs DEF AttemptFails
  <2>2. CASE /\ row' = [row EXCEPT ![t].attempt = @ + 1]
             /\ UNCHANGED <<cache, mu, hist>> /\ UNCHANGED env
    <3> DEFINE r == [row[t] EXCEPT !.attempt = @ + 1]
    <3>1. row' = [row EXCEPT ![t] = r] /\ UNCHANGED <<cache, hist, published>>
      BY <2>2 DEF env
    <3>2. RowKeysOK(r, hist.listed)
      BY <1>0 DEF RowTypeOK, RowKeysOK
    <3> HIDE DEF r
    <3> QED BY <1>0, <3>1, <3>2, KeyStep DEF IInv
  <2> QED BY <1>5, <2>1, <2>2 DEF AttemptFails
<1> QED BY <1>4, <1>5 DEF Http

\* The usable keys of the document at hand are trusted for its endpoint.
LEMMA UsableTrusted ==
  ASSUME TypeOK, KeyInv, NEW t \in Threads, NEW kid \in Kids
  PROVE  Distinct(Usable(Doc(t), kid), Trusted(hist.listed, <<Uri(t), kid>>))
<1> DEFINE u == Usable(Doc(t), kid)
<1>1. /\ Doc(t) \in [Kids -> Seq(Keys)]
      /\ ToSet(Doc(t)[kid]) \subseteq hist.listed[<<Uri(t), kid>>]
  BY DEF KeyInv, RowKeysOK, Doc, Uri
<1>2. Distinct(u, UsableKeys \cap SigKeys \cap ToSet(Doc(t)[kid]))
  BY <1>1, UsableIs
<1> HIDE DEF u
<1>3. u \in Seq(UsableKeys \cap SigKeys \cap ToSet(Doc(t)[kid])) /\ IsInjective(u)
  BY <1>2 DEF Distinct
<1>4. ToSet(u) \subseteq UsableKeys \cap SigKeys \cap ToSet(Doc(t)[kid])
  BY <1>3, SeqFacts
<1>5. ToSet(u) \subseteq Trusted(hist.listed, <<Uri(t), kid>>)
  BY <1>1, <1>4 DEF Trusted
<1> QED BY <1>3, <1>5, SeqNarrow DEF Distinct, u

\* The row's key is its endpoint and its kid.
LEMMA RowKey ==
  ASSUME TypeOK, NEW t \in Threads
  PROVE  /\ row[t].key \in CacheKey /\ Uri(t) \in Uris /\ Kid(t) \in Kids
         /\ row[t].key = <<Uri(t), Kid(t)>>
  BY DEF TypeOK, RowTypeOK, CacheKey, Uri, Kid

\* What a refresh may commit, and what its early verdict rests on.
LEMMA CandidatesTrusted ==
  ASSUME TypeOK, KeyInv, NEW t \in Threads, Usable(Doc(t), Kid(t)) # <<>>
  PROVE  /\ Distinct(Candidates(t), Trusted(hist.listed, row[t].key))
         /\ Candidates(t) # <<>>
         /\ VerifiedCandidate(Usable(Doc(t), Kid(t)), row[t].tok) # "None" =>
              Candidates(t)[1] = row[t].tok.signer
<1> DEFINE u == Usable(Doc(t), Kid(t))
           m == Trusted(hist.listed, row[t].key)
           p == PrioritizeMatchingKey(u, row[t].tok)
           q == PrioritizeNewKeys(p, LiveKeys(t))
<1>1. Distinct(u, m)
  BY RowKey, UsableTrusted
<1>2. Candidates(t) = IF VerifiedCandidate(u, row[t].tok) # "None" THEN p ELSE q
  BY DEF Candidates
<1> HIDE DEF u, m
<1>3. /\ Distinct(p, m) /\ Len(p) = Len(u)
      /\ VerifiedCandidate(u, row[t].tok) # "None" => p[1] = row[t].tok.signer
  BY <1>1, PrioritizeMatchingIs
<1> HIDE DEF p
<1>4. Distinct(q, m) /\ Len(q) = Len(p)
  BY <1>3, PrioritizeNewIs
<1> HIDE DEF q
<1>5. Len(u) # 0
  BY <1>1, SeqFacts DEF Distinct, u
<1>6. p # <<>> /\ q # <<>>
  BY <1>3, <1>4, <1>5
<1> QED BY <1>2, <1>3, <1>4, <1>6 DEF u, m

\* From the cache c that CommitTargetKid leaves behind to the end of the
\* counting loop.
LEMMA KeyReconcile ==
  ASSUME IInv, KeyInv, NEW t \in Threads, Refreshed(t),
         NEW c, Shape(c), CacheKeysOK(c, hist.listed),
         NEW verified, verified # "None" => row[t].tok.signer \in hist.listed[row[t].key],
         NEW reason, Reconcile(t, c, verified, reason), hist'.listed = hist.listed
  PROVE  /\ KeyInv'
         /\ cache'.hits = c.hits
         /\ \A k \in CacheKey :
              /\ cache'.entry[k].keys = c.entry[k].keys
              /\ k \notin ReconciledKids(c, Uri(t), Kid(t)) => cache'.entry[k] = c.entry[k]
              /\ k \in ReconciledKids(c, Uri(t), Kid(t)) =>
                   cache'.entry[k].absent = IF k[2] \in PresentKids(Doc(t)) THEN 0
                                            ELSE c.entry[k].absent + 1
         /\ row'[t].pc = "Ingesting" /\ row'[t].mode = "Refresh" /\ row'[t].verified = verified
         /\ row'[t].key = row[t].key /\ row'[t].tok = row[t].tok /\ row'[t].resp = row[t].resp
         /\ row'[t].evict = AbsentTwice(c, PresentKids(Doc(t)), Uri(t), Kid(t))
         /\ \A u \in Threads \ {t} : row'[u] = row[u]
<1> DEFINE seen == PresentKids(Doc(t))
           gone == AbsentTwice(c, seen, Uri(t), Kid(t))
           rest == {kid \in Kids \ {Kid(t)} : Usable(Doc(t), kid) # <<>>}
           r == [row[t] EXCEPT !.pc = "Ingesting", !.verified = verified, !.reason = reason,
                               !.evict = gone, !.todo = rest]
<1>1. /\ cache' = CountAbsences(c, seen, Uri(t), Kid(t))
      /\ row' = [row EXCEPT ![t] = r] /\ published' = published
  BY DEF Reconcile, env
<1>2. /\ \A kid \in rest : Usable(row[t].resp.doc, kid) # <<>> /\ kid # row[t].key[2]
      /\ \A k \in gone : k[1] = row[t].key[1] /\ k[2] # row[t].key[2]
  BY DEF Doc, Kid, Uri, AbsentTwice, ReconciledKids
<1> HIDE DEF seen, gone, rest
<1>3. /\ Shape(cache') /\ cache'.hits = c.hits /\ cache'.hitLru = c.hitLru
      /\ \A k \in CacheKey :
           /\ cache'.entry[k].keys = c.entry[k].keys
           /\ k \notin ReconciledKids(c, Uri(t), Kid(t)) => cache'.entry[k] = c.entry[k]
           /\ k \in ReconciledKids(c, Uri(t), Kid(t)) =>
                cache'.entry[k].absent = IF k[2] \in seen THEN 0 ELSE c.entry[k].absent + 1
  BY <1>1, CountAbsencesShape
<1>4. CacheKeysOK(cache', hist.listed)
  BY <1>3 DEF CacheKeysOK, Shape, CacheTypeOK
<1>5. /\ RowTypeOK(row[t]) /\ RowKeysOK(row[t], hist.listed) /\ row[t].mode = "Refresh"
      /\ row[t].resp.status = "200" /\ row[t].resp.doc # NoDocument
  BY DEF IInv, TypeOK, KeyInv, Refreshed, Resumes, Parsed, Doc
<1>6. RowKeysOK(r, hist.listed)
  BY <1>2, <1>5 DEF RowTypeOK, RowKeysOK
<1>7. /\ r.pc = "Ingesting" /\ r.mode = "Refresh" /\ r.verified = verified
      /\ r.key = row[t].key /\ r.tok = row[t].tok /\ r.resp = row[t].resp /\ r.evict = gone
  BY <1>5 DEF RowTypeOK
<1> HIDE DEF r
<1>8. row'[t] = r /\ \A u \in Threads \ {t} : row'[u] = row[u]
  BY <1>1 DEF IInv, TypeOK
<1>9. KeyInv'
  BY <1>1, <1>3, <1>4, <1>6, KeyStep DEF IInv
<1> QED BY <1>3, <1>7, <1>8, <1>9 DEF gone, seen

\* CommitTargetKid: what each outcome does to the kid's own entry.
LEMMA TargetCache ==
  ASSUME IInv, KeyInv, NEW t \in Threads, Refreshed(t)
  PROVE  /\ Shape(Fetched(t)) /\ SameHits(cache, Fetched(t)) /\ CacheKeysOK(Fetched(t), hist.listed)
         /\ LET c == RecordKidAbsent(Fetched(t), row[t].key, row[t].reservation, row[t].now) IN
            Shape(c) /\ CacheKeysOK(c, hist.listed) /\ ChangesOnly(cache, c, row[t].key)
         /\ Usable(Doc(t), Kid(t)) # <<>> /\ Commits(t) =>
            LET c == CommitRefresh(Fetched(t), row[t].key, Candidates(t), row[t].now) IN
            /\ Shape(c) /\ CacheKeysOK(c, hist.listed) /\ ChangesOnly(cache, c, row[t].key)
            /\ c.hits = cache.hits /\ c.entry[row[t].key].absent = 0
            /\ VerifiedCandidate(Usable(Doc(t), Kid(t)), row[t].tok) # "None" =>
                 row[t].tok.signer \in ToSet(c.entry[row[t].key].keys)
<1> DEFINE f == Fetched(t)
           k == row[t].key
           L == hist.listed
<1>1. k \in CacheKey /\ row[t].now \in Nat /\ Uri(t) \in Uris /\ TypeOK
  BY RowKey DEF IInv, TypeOK, RowTypeOK
<1>2. Shape(f) /\ SameHits(cache, f)
  BY <1>1, StampsShape DEF Fetched, KeyInv
<1>3. CacheKeysOK(f, L)
  BY <1>2, SameHitsSameKeys, SameKeysOK DEF KeyInv
<1> HIDE DEF f
<1>4. ASSUME NEW c, ChangesOnly(f, c, k) PROVE ChangesOnly(cache, c, k)
  BY <1>2, <1>4 DEF ChangesOnly, SameHits
<1>5. LET c == RecordKidAbsent(f, k, row[t].reservation, row[t].now) IN
      Shape(c) /\ CacheKeysOK(c, L) /\ ChangesOnly(cache, c, k)
  <2> DEFINE c == RecordKidAbsent(f, k, row[t].reservation, row[t].now)
  <2>1. /\ Shape(c) /\ ChangesOnly(f, c, k)
        /\ \/ c = f
           \/ c.hits = f.hits \ {k}
           \/ c.hits = f.hits /\ c.entry[k].keys = f.entry[k].keys
    BY <1>1, <1>2, RecordKidAbsentShape
  <2> HIDE DEF c
  <2>2. CacheKeysOK(c, L)
    BY <1>3, <2>1 DEF CacheKeysOK, ChangesOnly, Shape, CacheTypeOK
  <2> QED BY <1>4, <2>1, <2>2 DEF c
<1>6. ASSUME Usable(Doc(t), Kid(t)) # <<>>, Commits(t)
      PROVE  LET c == CommitRefresh(f, k, Candidates(t), row[t].now) IN
             /\ Shape(c) /\ CacheKeysOK(c, L) /\ ChangesOnly(cache, c, k)
             /\ c.hits = cache.hits /\ c.entry[k].absent = 0
             /\ VerifiedCandidate(Usable(Doc(t), Kid(t)), row[t].tok) # "None" =>
                  row[t].tok.signer \in ToSet(c.entry[k].keys)
  <2> DEFINE ks == Candidates(t)
             c == CommitRefresh(f, k, ks, row[t].now)
  <2>1. k \in f.hits /\ f.hits = cache.hits
    BY <1>2, <1>6 DEF Commits, CanCommitRefresh, SameHits
  <2>2. /\ Distinct(ks, Trusted(L, k)) /\ ks # <<>>
        /\ VerifiedCandidate(Usable(Doc(t), Kid(t)), row[t].tok) # "None" => ks[1] = row[t].tok.signer
    BY <1>1, <1>6, CandidatesTrusted
  <2> HIDE DEF ks
  <2>3. /\ Shape(c) /\ c.hits = f.hits /\ ChangesOnly(f, c, k)
        /\ c.entry[k].keys = TrimToCap(ks) /\ c.entry[k].absent = 0
    BY <1>1, <1>2, <2>1, CommitRefreshShape
  <2> HIDE DEF c
  <2>4. /\ Distinct(TrimToCap(ks), Trusted(L, k)) /\ Len(TrimToCap(ks)) \in 1..MaxKeysPerKid
        /\ ks[1] \in ToSet(TrimToCap(ks))
    BY <2>2, TrimToCapIs
  <2>5. CacheKeysOK(c, L)
    <3>1. \A j \in c.hits \ {k} : c.entry[j].keys = f.entry[j].keys
      BY <2>3 DEF ChangesOnly, Shape, CacheTypeOK
    <3>2. c.hits \subseteq f.hits \cup {k}
      BY <2>3
    <3> QED BY <1>2, <1>3, <2>3, <2>4, <3>1, <3>2, OneEntryKeysOK
  <2> QED BY <1>4, <2>1, <2>2, <2>3, <2>4, <2>5 DEF c, ks
<1> QED BY <1>2, <1>3, <1>5, <1>6 DEF f

\* The mutex is back after the HTTP call.
LEMMA KeyResume ==
  ASSUME IInv, KeyInv, NEW t \in Threads, Resume(t)
  PROVE  KeyInv'
<1>1. /\ row[t].key \in CacheKey /\ row[t].now \in Nat /\ Uri(t) \in Uris /\ row[t].tok \in Jwts
      /\ row[t].key = <<Uri(t), Kid(t)>> /\ Kid(t) \in Kids /\ row[t].prior \in Results
      /\ RowTypeOK(row[t]) /\ RowKeysOK(row[t], hist.listed) /\ TypeOK /\ Shape(cache)
  BY RowKey DEF IInv, TypeOK, RowTypeOK, KeyInv
<1>2. /\ {"UnknownKid", "JwksFetchFailed"} \subseteq Results
      /\ {"None", "FetchFailed", "ParseFailed"} \subseteq Reasons
      /\ "UnknownKid" \notin SignatureMatches /\ "JwksFetchFailed" \notin SignatureMatches
  BY DEF Results, Reasons, SignatureMatches
<1>3. Shape(Fetched(t)) /\ SameHits(cache, Fetched(t)) /\ CacheKeysOK(Fetched(t), hist.listed)
  <2>1. Shape(Fetched(t)) /\ SameHits(cache, Fetched(t))
    BY <1>1, StampsShape DEF Fetched
  <2> QED BY <1>1, <2>1, SameHitsSameKeys, SameKeysOK DEF KeyInv
<1>4. CASE ColdFetchFailed(t)
  <2> DEFINE d == OnFetchMiss(cache, row[t].key, row[t].now)
  <2>1. Shape(d) /\ SameHits(cache, d)
    BY <1>1, OnFetchMissShape
  <2>2. SameHits(cache, cache)
    BY DEF SameHits
  <2>3. /\ \/ cache' = d /\ Return(t, "UnknownKid", "None")
           \/ cache' = cache /\ Return(t, "JwksFetchFailed", "None")
        /\ hist' = hist /\ published' = published
    BY <1>4 DEF ColdFetchFailed, env
  <2> HIDE DEF d
  <2>4. Shape(cache') /\ SameKeys(cache, cache')
    BY <1>1, <2>1, <2>2, <2>3, SameHitsSameKeys
  <2> QED BY <1>1, <1>2, <2>3, <2>4, KeyReturn
<1>5. CASE ColdFetchOk(t)
  <2> DEFINE rest == {kid \in Kids : Usable(Doc(t), kid) # <<>>}
             r == [row[t] EXCEPT !.pc = "Ingesting", !.todo = rest]
  <2>1. /\ cache' = Fetched(t) /\ row' = [row EXCEPT ![t] = r]
        /\ hist'.listed = hist.listed /\ published' = published
    BY <1>5 DEF ColdFetchOk, Fetched, env, IInv, TypeOK, HistTypeOK
  <2>2. \A kid \in rest : Usable(row[t].resp.doc, kid) # <<>>
    BY DEF Doc
  <2> HIDE DEF rest
  <2>3. /\ row[t].mode = "Cold" /\ row[t].pc = "Answered" /\ row[t].resp.status = "200"
        /\ row[t].resp.doc # NoDocument
    BY <1>5 DEF ColdFetchOk, Resumes, Parsed, Doc
  <2>4. RowKeysOK(r, hist.listed)
    BY <1>1, <2>2, <2>3 DEF RowTypeOK, RowKeysOK
  <2> HIDE DEF r
  <2> QED BY <1>1, <1>3, <2>1, <2>4, KeyStep
<1>6. CASE RefreshFailed(t)
  <2>1. row[t].prior \notin SignatureMatches
    BY <1>1 DEF RowKeysOK
  <2>2. SameKeys(cache, cache') /\ Shape(cache') /\ hist' = hist /\ published' = published
    BY <1>1, <1>6 DEF RefreshFailed, SameKeys, env
  <2>3. PICK reason \in Reasons : Return(t, row[t].prior, reason)
    BY <1>2, <1>6 DEF RefreshFailed
  <2> QED BY <1>1, <2>1, <2>2, <2>3, KeyReturn
<1>7. CASE TargetAbsent(t)
  <2> DEFINE c == RecordKidAbsent(Fetched(t), row[t].key, row[t].reservation, row[t].now)
  <2>1. Refreshed(t) /\ hist'.listed = hist.listed
    BY <1>7 DEF TargetAbsent, IInv, TypeOK, HistTypeOK
  <2>2. PICK reason : Reconcile(t, c, "None", reason)
    BY <1>7 DEF TargetAbsent
  <2>3. Shape(c) /\ CacheKeysOK(c, hist.listed)
    BY <2>1, TargetCache
  <2> HIDE DEF c
  <2> QED BY <2>1, <2>2, <2>3, KeyReconcile
<1>8. CASE TargetUnusable(t) \/ TargetSuperseded(t)
  <2>1. Refreshed(t) /\ hist'.listed = hist.listed
    BY <1>8 DEF TargetUnusable, TargetSuperseded, IInv, TypeOK, HistTypeOK
  <2>2. PICK reason : Reconcile(t, Fetched(t), "None", reason)
    BY <1>8 DEF TargetUnusable, TargetSuperseded
  <2> QED BY <1>3, <2>1, <2>2, KeyReconcile
<1>9. CASE TargetCommitted(t)
  <2> DEFINE c == CommitRefresh(Fetched(t), row[t].key, Candidates(t), row[t].now)
             u == Usable(Doc(t), Kid(t))
             v == VerifiedCandidate(u, row[t].tok)
  <2>1. Refreshed(t) /\ hist'.listed = hist.listed /\ u # <<>> /\ Commits(t)
    BY <1>9 DEF TargetCommitted, IInv, TypeOK, HistTypeOK
  <2>2. PICK reason : Reconcile(t, c, v, reason)
    BY <1>9 DEF TargetCommitted
  <2>3. Shape(c) /\ CacheKeysOK(c, hist.listed)
    BY <2>1, TargetCache
  <2>4. v # "None" => row[t].tok.signer \in hist.listed[row[t].key]
    <3>1. v # "None" => row[t].tok.signer \in ToSet(u)
      BY <1>1, AcceptsBySigner
    <3>2. u \in Seq(Trusted(hist.listed, row[t].key))
      BY <1>1, UsableTrusted DEF Distinct
    <3> HIDE DEF u, v
    <3>3. ToSet(u) \subseteq Trusted(hist.listed, row[t].key)
      BY <3>2, SeqFacts
    <3> QED BY <3>1, <3>3 DEF Trusted
  <2> HIDE DEF c, v
  <2> QED BY <2>1, <2>2, <2>3, <2>4, KeyReconcile
<1> QED BY <1>4, <1>5, <1>6, <1>7, <1>8, <1>9 DEF Resume

\* One kid of the document goes into the cache.
LEMMA IngestCache ==
  ASSUME IInv, KeyInv, NEW t \in Threads, NEW kid \in Kids, IngestKid(t, kid)
  PROVE  LET k == <<Uri(t), kid>> IN
         /\ k \in CacheKey /\ Shape(cache') /\ CacheKeysOK(cache', hist.listed)
         /\ k \in cache'.hits /\ cache'.entry[k].absent = 0
         /\ k \in cache.hits => /\ cache'.hits = cache.hits /\ cache'.hitLru = cache.hitLru
                                /\ ChangesOnly(cache, cache', k)
         /\ k \notin cache.hits => Inserted(cache, cache', k)
<1> DEFINE k == <<Uri(t), kid>>
           u == Usable(Doc(t), kid)
           ks == IngestedKeys(t, kid)
           m == Trusted(hist.listed, k)
           d == OnPassiveFetchSuccess(cache, k, ks, row[t].now)
<1>1. TypeOK /\ Shape(cache) /\ CacheKeysOK(cache, hist.listed) /\ row[t].now \in Nat
  BY DEF IInv, TypeOK, RowTypeOK, KeyInv
<1>2. k \in CacheKey
  BY <1>1, RowKey DEF CacheKey
<1>3. u # <<>> /\ cache' = d
  BY DEF IngestKid, KeyInv, RowKeysOK, Doc
<1>4. Distinct(u, m)
  BY <1>1, UsableTrusted
<1>5. ks = u \/ ks = PrioritizeMatchingKey(u, row[t].tok)
  BY DEF IngestedKeys
<1> HIDE DEF u, m, ks
<1>6. Distinct(PrioritizeMatchingKey(u, row[t].tok), m) /\ Len(PrioritizeMatchingKey(u, row[t].tok)) = Len(u)
  BY <1>4, PrioritizeMatchingIs
<1>7. Len(u) # 0
  BY <1>3, <1>4, SeqFacts DEF Distinct
<1>8. Distinct(ks, m) /\ ks # <<>>
  BY <1>4, <1>5, <1>6, <1>7
<1> HIDE DEF k, d
<1>9. /\ Shape(d) /\ k \in d.hits /\ d.entry[k].absent = 0
      /\ k \in cache.hits => /\ d.hits = cache.hits /\ d.hitLru = cache.hitLru /\ ChangesOnly(cache, d, k)
                             /\ d.entry[k].keys = KeepNewest(UnionKeys(cache.entry[k].keys, ks))
      /\ k \notin cache.hits => Inserted(cache, d, k) /\ d.entry[k].keys = TrimToCap(ks)
  BY <1>1, <1>2, <1>8, PassiveShape DEF d
<1>10. Distinct(d.entry[k].keys, m) /\ Len(d.entry[k].keys) \in 1..MaxKeysPerKid
  <2>1. CASE k \in cache.hits
    <3> DEFINE old == cache.entry[k].keys
               both == UnionKeys(old, ks)
    <3>1. Distinct(old, m) /\ Len(old) \in 1..MaxKeysPerKid
      BY <1>1, <2>1 DEF CacheKeysOK, m
    <3>2. ks \in Seq(m)
      BY <1>8 DEF Distinct
    <3> HIDE DEF old
    <3>3. Distinct(both, m) /\ Len(both) >= Len(old)
      BY <3>1, <3>2, UnionKeysIs
    <3> HIDE DEF both
    <3>4. both # <<>>
      BY <3>1, <3>3, CacheAssumption
    <3>5. Distinct(KeepNewest(both), m) /\ Len(KeepNewest(both)) \in 1..MaxKeysPerKid
      BY <3>3, <3>4, KeepNewestIs
    <3> QED BY <1>9, <2>1, <3>5 DEF both, old
  <2>2. CASE k \notin cache.hits
    BY <1>8, <1>9, <2>2, TrimToCapIs
  <2> QED BY <2>1, <2>2
<1>11. /\ d.hits \subseteq cache.hits \cup {k}
       /\ \A j \in d.hits \ {k} : d.entry[j].keys = cache.entry[j].keys
  <2>1. CASE k \in cache.hits
    BY <1>1, <1>9, <2>1 DEF ChangesOnly, Shape, CacheTypeOK
  <2>2. CASE k \notin cache.hits
    <3>1. Inserted(cache, d, k) /\ cache.hits \subseteq CacheKey
      BY <1>1, <1>9, <2>2 DEF Shape, CacheTypeOK
    <3> QED BY <3>1 DEF Inserted, ChangesOnly
  <2> QED BY <2>1, <2>2
<1>12. CacheKeysOK(d, hist.listed)
  BY <1>1, <1>9, <1>10, <1>11, OneEntryKeysOK DEF m
<1> QED BY <1>2, <1>3, <1>9, <1>12 DEF k, d

\* Inside the critical section: evictions, ingestions, and the way out.
LEMMA KeyIngest ==
  ASSUME IInv, KeyInv, NEW t \in Threads, Ingest(t)
  PROVE  KeyInv'
<1>1. /\ row[t].key \in CacheKey /\ row[t].now \in Nat /\ row[t].tok \in Jwts
      /\ row[t].key = <<Uri(t), Kid(t)>> /\ row[t].verified \in Results /\ row[t].reason \in Reasons
      /\ RowTypeOK(row[t]) /\ RowKeysOK(row[t], hist.listed) /\ TypeOK /\ Shape(cache)
      /\ CacheKeysOK(cache, hist.listed)
  BY RowKey DEF IInv, TypeOK, RowTypeOK, KeyInv
<1>2. ASSUME NEW k \in CacheKey, EvictAbsent(t, k) PROVE KeyInv'
  <2> DEFINE r == [row[t] EXCEPT !.evict = @ \ {k}]
  <2>1. /\ row' = [row EXCEPT ![t] = r] /\ hist' = hist /\ published' = published
        /\ cache' = EraseHit(cache, k)
    BY <1>2 DEF EvictAbsent, env
  <2>2. RowKeysOK(r, hist.listed)
    BY <1>1 DEF RowTypeOK, RowKeysOK
  <2> HIDE DEF r
  <2>3. Shape(cache') /\ ChangesOnly(cache, cache', k) /\ cache'.hits = cache.hits \ {k}
    BY <1>1, <2>1, EraseHitShape
  <2>4. CacheKeysOK(cache', hist.listed)
    BY <1>1, <2>3 DEF CacheKeysOK, ChangesOnly, Shape, CacheTypeOK
  <2> QED BY <1>1, <2>1, <2>2, <2>3, <2>4, KeyStep
<1>3. ASSUME NEW kid \in Kids, IngestKid(t, kid) PROVE KeyInv'
  <2> DEFINE found == VerifiedCandidate(Usable(Doc(t), kid), row[t].tok)
             v == IF kid = Kid(t) THEN found ELSE row[t].verified
             r == [row[t] EXCEPT !.todo = @ \ {kid}, !.verified = v]
  <2>1. /\ row' = [row EXCEPT ![t] = r] /\ hist'.listed = hist.listed /\ published' = published
    BY <1>1, <1>3 DEF IngestKid, env, RowTypeOK, IInv, TypeOK, HistTypeOK
  <2>2. v # "None" => row[t].tok.signer \in hist.listed[row[t].key]
    <3>1. CASE kid = Kid(t)
      <4> DEFINE u == Usable(Doc(t), kid)
      <4>1. found # "None" => row[t].tok.signer \in ToSet(u)
        BY <1>1, AcceptsBySigner
      <4>2. u \in Seq(Trusted(hist.listed, row[t].key))
        BY <1>1, <3>1, UsableTrusted DEF Distinct
      <4> HIDE DEF u, found
      <4>3. ToSet(u) \subseteq Trusted(hist.listed, row[t].key)
        BY <4>2, SeqFacts
      <4> QED BY <3>1, <4>1, <4>3 DEF Trusted
    <3>2. CASE kid # Kid(t)
      BY <1>1, <3>2 DEF RowKeysOK
    <3> QED BY <3>1, <3>2
  <2> HIDE DEF v
  <2>3. RowKeysOK(r, hist.listed)
    BY <1>1, <2>2 DEF RowTypeOK, RowKeysOK
  <2> HIDE DEF r
  <2>4. Shape(cache') /\ CacheKeysOK(cache', hist.listed)
    BY <1>3, IngestCache
  <2> QED BY <1>1, <2>1, <2>3, <2>4, KeyStep
<1>4. /\ {"UnusableKey", "NoMatchingKey", "UnknownKid", "InvalidSignature"} \subseteq Results
      /\ {"UnusableKey", "NoMatchingKey", "UnknownKid", "InvalidSignature"} \cap SignatureMatches = {}
      /\ "None" \in Reasons
  BY DEF Results, Reasons, SignatureMatches
<1>5. row[t].verified # "None" => row[t].tok.signer \in hist.listed[row[t].key]
  BY <1>1 DEF RowKeysOK
<1>6. row[t].key \in cache.hits
        /\ VerifyAgainstCachedKid(cache.entry[row[t].key].keys, row[t].tok) \in SignatureMatches
      => row[t].tok.signer \in hist.listed[row[t].key]
  BY <1>1, CachedKeyListed
<1>7. CASE FinishCold(t)
  <2> DEFINE second == Lookup(cache, row[t].key, row[t].now)
             missed == CASE Kid(t) \in PresentKids(Doc(t)) -> "UnusableKey"
                         [] Kid(t) \notin PresentKids(Doc(t)) /\ Doc(t)[Kid(t)] # <<>> -> "NoMatchingKey"
                         [] OTHER -> "UnknownKid"
             found == IF row[t].verified # "None" THEN row[t].verified
                      ELSE VerifyAgainstCachedKid(second.keys, row[t].tok)
             d == OnFetchMiss(cache, row[t].key, row[t].now)
  <2>1. hist' = hist /\ published' = published
    BY <1>7 DEF FinishCold, env
  <2>2. missed \in Results /\ missed \notin SignatureMatches /\ found \in Results
    BY <1>1, <1>4, VerdictTypes
  <2>3. \/ cache' = d /\ Return(t, missed, "None")
        \/ cache' = cache /\ Return(t, found, "None") /\ second.status = "Hit"
    BY <1>7 DEF FinishCold
  <2>4. second.status = "Hit" => /\ row[t].key \in cache.hits
                                 /\ second.keys = cache.entry[row[t].key].keys
    BY LookupHit
  <2>5. Shape(d) /\ SameHits(cache, d)
    BY <1>1, OnFetchMissShape
  <2>6. SameKeys(cache, d) /\ SameKeys(cache, cache)
    BY <2>5, SameHitsSameKeys DEF SameKeys
  <2>7. second.status = "Hit" /\ found \in SignatureMatches
          => row[t].tok.signer \in hist.listed[row[t].key]
    BY <1>5, <1>6, <2>4
  <2> HIDE DEF missed, found, d, second
  <2> QED BY <1>1, <1>4, <2>1, <2>2, <2>3, <2>5, <2>6, <2>7, KeyReturn
<1>8. CASE FinishRefresh(t)
  <2> DEFINE v == ReverifyAfterCommit(t)
  <2>1. v \in Results
    BY <1>1, <1>4, VerdictTypes DEF ReverifyAfterCommit
  <2>2. v \in SignatureMatches => row[t].tok.signer \in hist.listed[row[t].key]
    BY <1>4, <1>5, <1>6 DEF ReverifyAfterCommit
  <2>3. UNCHANGED <<cache, hist, published>> /\ Return(t, v, row[t].reason)
    BY <1>8 DEF FinishRefresh, env
  <2>4. SameKeys(cache, cache') /\ Shape(cache')
    BY <1>1, <2>3 DEF SameKeys
  <2> HIDE DEF v
  <2> QED BY <1>1, <2>1, <2>2, <2>3, <2>4, KeyReturn
<1> QED BY <1>2, <1>3, <1>7, <1>8 DEF Ingest

\* Every step preserves the key invariant.
LEMMA NextKeyInv == IInv /\ KeyInv /\ [Next]_vars => KeyInv'
<1> SUFFICES ASSUME IInv, KeyInv, [Next]_vars PROVE KeyInv'
  OBVIOUS
<1>1. CASE UNCHANGED vars
  BY <1>1 DEF vars, KeyInv, ProviderOK
<1>2. CASE Environment
  BY <1>2, KeyEnvironment
<1>3. CASE \E t \in Threads : Caller(t) \/ Begin(t) \/ Http(t) \/ Resume(t) \/ Ingest(t)
  BY <1>3, KeyCaller, KeyBegin, KeyHttp, KeyResume, KeyIngest
<1> QED BY <1>1, <1>2, <1>3 DEF Next

\* The key invariant holds in every reachable state.
LEMMA KeyInvariant == Spec => [](IInv /\ KeyInv)
<1>1. Init => IInv /\ KeyInv
  BY InitIInv, InitKeyInv
<1>2. IInv /\ KeyInv /\ [Next]_vars => (IInv /\ KeyInv)'
  BY NextIInv, NextKeyInv
<1> QED BY <1>1, <1>2, PTL DEF Spec

\* The LRU lists and the maps of the key cache name the same kids, each once,
\* within the bound, through any sequence of insertions, commits, absences,
\* evictions and negative entries.
THEOREM LruStaysConsistent == Spec => []LruConsistent
<1>1. KeyInv => LruConsistent
  BY DEF KeyInv, Shape, Lists, LruConsistent
<1> QED BY <1>1, KeyInvariant, PTL

\* A cached kid has at least one key and at most the cap, none twice, each
\* usable for signing and once listed under the kid by the endpoint.
THEOREM EntriesStaySound == Spec => []EntriesSound
<1>1. KeyInv => EntriesSound
  <2> SUFFICES ASSUME KeyInv, NEW k \in cache.hits
               PROVE  LET keys == cache.entry[k].keys IN
                      /\ Len(keys) \in 1..MaxKeysPerKid /\ IsInjective(keys)
                      /\ ToSet(keys) \subseteq UsableKeys \cap SigKeys \cap hist.listed[k]
    BY DEF EntriesSound
  <2> DEFINE keys == cache.entry[k].keys
  <2>1. keys \in Seq(Trusted(hist.listed, k)) /\ IsInjective(keys) /\ Len(keys) \in 1..MaxKeysPerKid
    BY DEF KeyInv, CacheKeysOK, Distinct
  <2> HIDE DEF keys
  <2>2. ToSet(keys) \subseteq Trusted(hist.listed, k)
    BY <2>1, SeqFacts
  <2> QED BY <2>1, <2>2 DEF Trusted, keys
<1> QED BY <1>1, KeyInvariant, PTL

\* No token is accepted by a key that its endpoint never listed under its kid.
THEOREM AcceptedKeysListed == Spec => []AcceptedKeyWasListed
<1>1. KeyInv => AcceptedKeyWasListed
  BY DEF KeyInv, RowKeysOK, AcceptedKeyWasListed
<1> QED BY <1>1, KeyInvariant, PTL

(***************************************************************************)
(* Which steps can cost a kid its keys.                                     *)
(***************************************************************************)
\* The steps in which a thread applies (part of) a document.
Applies(t) ==
  \/ TargetAbsent(t) \/ TargetUnusable(t) \/ TargetCommitted(t) \/ TargetSuperseded(t)
  \/ \E k \in CacheKey : EvictAbsent(t, k)
  \/ \E kid \in Kids : IngestKid(t, kid)

\* Every other step leaves the cached keys and their history alone.
LEMMA QuietKeys ==
  ASSUME IInv, KeyInv, Next, \A t \in Threads : ~Applies(t)
  PROVE  SameKeys(cache, cache') /\ hist'.absentIn = hist.absentIn
<1>0. SameKeys(cache, cache) /\ Shape(cache)
  BY DEF SameKeys, KeyInv
<1>1. CASE Environment
  <2>1. ASSUME NEW m \in MinRefreshChoices, Reconfigure(m)
        PROVE  SameKeys(cache, cache') /\ hist'.absentIn = hist.absentIn
    BY <2>1 DEF Reconfigure, SetMinRefreshSeconds, SameKeys, IInv, TypeOK, CacheTypeOK
  <2>2. ASSUME NEW uri \in Uris, NEW d \in Documents, Publish(uri, d)
        PROVE  cache' = cache /\ hist'.absentIn = hist.absentIn
    BY <2>2 DEF Publish, IInv, TypeOK, HistTypeOK
  <2>3. ASSUME NEW d \in ClockDeltas, Tick(d) PROVE cache' = cache /\ hist' = hist
    BY <2>3 DEF Tick
  <2> QED BY <1>0, <1>1, <2>1, <2>2, <2>3 DEF Environment
<1>2. ASSUME NEW t \in Threads, Caller(t) PROVE cache' = cache /\ hist' = hist
  BY <1>2 DEF Caller, StartChunk, NextRow, FinishChunk, Present
<1>3. ASSUME NEW t \in Threads, Begin(t)
      PROVE  SameKeys(cache, cache') /\ hist'.absentIn = hist.absentIn
  <2>1. ASSUME NEW c, NEW mode, NEW prior, NEW reservation, Fetch(t, c, mode, prior, reservation)
        PROVE  hist'.absentIn = hist.absentIn
    BY <2>1 DEF Fetch, IInv, TypeOK, HistTypeOK
  <2>2. hist'.absentIn = hist.absentIn
    BY <1>3, <2>1 DEF Begin, RejectEarly, AcceptCached, ThrottleRefresh, RejectMiss, StartRefresh,
       StartColdFetch
  <2> QED BY <1>3, <2>2, KeyBegin
<1>4. ASSUME NEW t \in Threads, Http(t) PROVE cache' = cache /\ hist' = hist
  BY <1>4 DEF Http, Answer, AttemptFails, Respond
<1>5. ASSUME NEW t \in Threads, Resume(t)
      PROVE  SameKeys(cache, cache') /\ hist'.absentIn = hist.absentIn
  <2>1. row[t].key \in CacheKey /\ row[t].now \in Nat /\ Uri(t) \in Uris
    BY RowKey DEF IInv, TypeOK, RowTypeOK
  <2>2. ColdFetchFailed(t) \/ ColdFetchOk(t) \/ RefreshFailed(t)
    BY <1>5 DEF Resume, Applies
  <2>3. SameKeys(cache, OnFetchMiss(cache, row[t].key, row[t].now)) /\ SameKeys(cache, Fetched(t))
    BY <1>0, <2>1, OnFetchMissShape, StampsShape, SameHitsSameKeys DEF Fetched
  <2>4. CASE ColdFetchFailed(t)
    BY <1>0, <2>3, <2>4 DEF ColdFetchFailed
  <2>5. CASE ColdFetchOk(t)
    BY <2>3, <2>5 DEF ColdFetchOk, Fetched, IInv, TypeOK, HistTypeOK
  <2>6. CASE RefreshFailed(t)
    BY <1>0, <2>6 DEF RefreshFailed
  <2> QED BY <2>2, <2>4, <2>5, <2>6
<1>6. ASSUME NEW t \in Threads, Ingest(t)
      PROVE  SameKeys(cache, cache') /\ hist'.absentIn = hist.absentIn
  <2>1. row[t].key \in CacheKey /\ row[t].now \in Nat
    BY DEF IInv, TypeOK, RowTypeOK
  <2>2. FinishCold(t) \/ FinishRefresh(t)
    BY <1>6 DEF Ingest, Applies
  <2>3. SameKeys(cache, OnFetchMiss(cache, row[t].key, row[t].now))
    BY <1>0, <2>1, OnFetchMissShape, SameHitsSameKeys
  <2> QED BY <1>0, <2>2, <2>3 DEF FinishCold, FinishRefresh
<1> QED BY <1>0, <1>1, <1>2, <1>3, <1>4, <1>5, <1>6 DEF Next

\* While a thread applies a document, no other thread gets at the cache.
LEMMA SectionExclusive ==
  ASSUME IInv, Next, NEW t \in Threads, row[t].pc = "Ingesting"
  PROVE  \/ Ingest(t)
         \/ /\ cache' = cache /\ row'[t] = row[t]
            /\ hist'.absentIn = hist.absentIn /\ hist'.cold = hist.cold
<1>1. mu = t /\ Free \notin Threads /\ mu # Free
  BY ValidatorAssumption DEF IInv, TypeOK, Free
<1>2. CASE Environment
  BY <1>1, <1>2 DEF Environment, Tick, Publish, Reconfigure, IInv, TypeOK, HistTypeOK
<1>3. ASSUME NEW u \in Threads, Caller(u) \/ Begin(u) \/ Http(u) \/ Resume(u) \/ Ingest(u), u # t
      PROVE  cache' = cache /\ row'[t] = row[t] /\ hist' = hist
  <2>1. row'[t] = row[t]
    BY <1>3, ActingThread DEF IInv
  <2>2. ~Begin(u)
    BY <1>1 DEF Begin, RejectEarly, AcceptCached, ThrottleRefresh, StartRefresh, RejectMiss,
       StartColdFetch, WantsRefresh, Misses, HasMutex
  <2>3. ~Resume(u)
    BY <1>1 DEF Resume, ColdFetchFailed, ColdFetchOk, RefreshFailed, TargetAbsent, TargetUnusable,
       TargetCommitted, TargetSuperseded, Refreshed, Resumes
  <2>4. ~Ingest(u)
    <3>1. row[u].pc # "Ingesting"
      BY <1>1, <1>3 DEF IInv, TypeOK
    <3> QED BY <3>1, ActingThread DEF IInv
  <2>5. Caller(u) \/ Http(u) => cache' = cache /\ hist' = hist
    BY DEF Caller, StartChunk, NextRow, FinishChunk, Present, Http, Answer, AttemptFails, Respond
  <2> QED BY <1>3, <2>1, <2>2, <2>3, <2>4, <2>5
<1>4. ASSUME Caller(t) \/ Begin(t) \/ Http(t) \/ Resume(t) PROVE FALSE
  BY <1>4, ActingThread DEF IInv
<1> QED BY <1>2, <1>3, <1>4 DEF Next

\* The cache that CommitTargetKid leaves behind, and Reconcile after it.
LEMMA TargetStep ==
  ASSUME IInv, KeyInv, NEW t \in Threads,
         TargetAbsent(t) \/ TargetUnusable(t) \/ TargetCommitted(t) \/ TargetSuperseded(t)
  PROVE  /\ Refreshed(t) /\ hist'.listed = hist.listed
         /\ \E c, verified, reason :
              /\ Reconcile(t, c, verified, reason)
              /\ Shape(c) /\ CacheKeysOK(c, hist.listed) /\ ChangesOnly(cache, c, row[t].key)
              /\ verified # "None" =>
                   /\ row[t].tok.signer \in ToSet(c.entry[row[t].key].keys)
                   /\ row[t].tok.signer \in hist.listed[row[t].key]
<1> DEFINE k == row[t].key
           Good(c, verified) ==
             /\ Shape(c) /\ CacheKeysOK(c, hist.listed) /\ ChangesOnly(cache, c, k)
             /\ verified # "None" => /\ row[t].tok.signer \in ToSet(c.entry[k].keys)
                                     /\ row[t].tok.signer \in hist.listed[k]
<1>1. Refreshed(t) /\ hist'.listed = hist.listed
  BY DEF TargetAbsent, TargetUnusable, TargetCommitted, TargetSuperseded, IInv, TypeOK, HistTypeOK
<1>2. CASE TargetAbsent(t)
  <2> DEFINE c == RecordKidAbsent(Fetched(t), k, row[t].reservation, row[t].now)
  <2>1. Good(c, "None")
    BY <1>1, TargetCache
  <2>2. \E reason : Reconcile(t, c, "None", reason)
    BY <1>2 DEF TargetAbsent
  <2> QED BY <1>1, <2>1, <2>2
<1>3. CASE TargetUnusable(t) \/ TargetSuperseded(t)
  <2>1. Shape(Fetched(t)) /\ SameHits(cache, Fetched(t)) /\ CacheKeysOK(Fetched(t), hist.listed)
    BY <1>1, TargetCache
  <2>2. Good(Fetched(t), "None")
    BY <2>1 DEF SameHits, ChangesOnly
  <2>3. \E reason : Reconcile(t, Fetched(t), "None", reason)
    BY <1>3 DEF TargetUnusable, TargetSuperseded
  <2> QED BY <1>1, <2>2, <2>3
<1>4. CASE TargetCommitted(t)
  <2> DEFINE c == CommitRefresh(Fetched(t), k, Candidates(t), row[t].now)
             v == VerifiedCandidate(Usable(Doc(t), Kid(t)), row[t].tok)
  <2>1. /\ Shape(c) /\ CacheKeysOK(c, hist.listed) /\ ChangesOnly(cache, c, k)
        /\ c.hits = cache.hits
        /\ v # "None" => row[t].tok.signer \in ToSet(c.entry[k].keys)
    BY <1>1, <1>4, TargetCache DEF TargetCommitted
  <2>2. k \in c.hits
    BY <1>4, <2>1 DEF TargetCommitted, Commits, CanCommitRefresh
  <2>3. \E reason : Reconcile(t, c, v, reason)
    BY <1>4 DEF TargetCommitted
  <2> HIDE DEF c, v
  <2>4. c.entry[k].keys \in Seq(Trusted(hist.listed, k))
    BY <2>1, <2>2 DEF CacheKeysOK, Distinct
  <2>5. ToSet(c.entry[k].keys) \subseteq Trusted(hist.listed, k)
    BY <2>4, SeqFacts
  <2>6. Good(c, v)
    BY <2>1, <2>5 DEF Trusted
  <2> QED BY <1>1, <2>3, <2>6
<1> QED BY <1>2, <1>3, <1>4

\* No fetch that failed, answered garbage or is under way costs a key, and no
\* endpoint's document costs another endpoint's keys unless the cache is full.
THEOREM KeysSurviveOutages == Spec => KeysOutliveOutage
<1> DEFINE Kept == \A k \in cache.hits :
       ~(ToSet(cache.entry[k].keys) \subseteq ToSet(cache'.entry[k].keys)) =>
         \E t \in Threads :
           /\ row'[t] # row[t] /\ Parsed(t)
           /\ Uri(t) = k[1] \/ Cardinality(cache.hits) = MaxEntries
<1>1. IInv /\ KeyInv /\ [Next]_vars => [Kept]_vars
  <2> SUFFICES ASSUME IInv, KeyInv, Next, NEW k \in cache.hits,
                      ~(ToSet(cache.entry[k].keys) \subseteq ToSet(cache'.entry[k].keys))
               PROVE  \E t \in Threads :
                        /\ row'[t] # row[t] /\ Parsed(t)
                        /\ Uri(t) = k[1] \/ Cardinality(cache.hits) = MaxEntries
    OBVIOUS
  <2>1. k \in CacheKey /\ cache'.entry[k].keys # cache.entry[k].keys
    BY DEF KeyInv, Shape, CacheTypeOK
  <2>2. PICK t \in Threads : Applies(t)
    BY <2>1, QuietKeys DEF SameKeys
  <2>3. RowTypeOK(row[t]) /\ RowKeysOK(row[t], hist.listed) /\ row[t].key[1] = Uri(t)
    BY DEF IInv, TypeOK, KeyInv, Uri
  <2>4. row[t].pc = "Ingesting" => Parsed(t)
    BY <2>3 DEF RowKeysOK, Parsed, Doc
  <2>5. CASE TargetAbsent(t) \/ TargetUnusable(t) \/ TargetCommitted(t) \/ TargetSuperseded(t)
    <3>1. PICK c, verified, reason :
              /\ Reconcile(t, c, verified, reason)
              /\ Shape(c) /\ CacheKeysOK(c, hist.listed) /\ ChangesOnly(cache, c, row[t].key)
              /\ verified # "None" => row[t].tok.signer \in hist.listed[row[t].key]
      BY <2>5, TargetStep
    <3>2. Refreshed(t) /\ hist'.listed = hist.listed
      BY <2>5, TargetStep
    <3>3. cache'.entry[k].keys = c.entry[k].keys /\ row'[t].pc = "Ingesting"
      <4>1. row'[t].pc = "Ingesting" /\ \A j \in CacheKey : cache'.entry[j].keys = c.entry[j].keys
        BY <3>1, <3>2, KeyReconcile
      <4> QED BY <2>1, <4>1
    <3>4. k = row[t].key
      BY <2>1, <3>1, <3>3 DEF ChangesOnly
    <3>5. row'[t] # row[t] /\ Parsed(t)
      BY <3>2, <3>3 DEF Refreshed, Resumes
    <3> QED BY <2>3, <3>4, <3>5
  <2>6. ASSUME NEW j \in CacheKey, EvictAbsent(t, j)
        PROVE  row'[t] # row[t] /\ Parsed(t) /\ Uri(t) = k[1]
    <3>1. row'[t].evict = row[t].evict \ {j} /\ j \in row[t].evict /\ row[t].pc = "Ingesting"
          /\ cache' = EraseHit(cache, j)
      BY <2>3, <2>6 DEF EvictAbsent, IInv, TypeOK, RowTypeOK
    <3>2. ChangesOnly(cache, cache', j)
      BY <3>1, EraseHitShape DEF KeyInv
    <3>3. k = j
      BY <2>1, <3>2 DEF ChangesOnly
    <3> QED BY <2>3, <2>4, <3>1, <3>3 DEF RowKeysOK
  <2>7. ASSUME NEW kid \in Kids, IngestKid(t, kid)
        PROVE  /\ row'[t] # row[t] /\ Parsed(t)
               /\ Uri(t) = k[1] \/ Cardinality(cache.hits) = MaxEntries
    <3>1. row'[t].todo = row[t].todo \ {kid} /\ kid \in row[t].todo /\ row[t].pc = "Ingesting"
      BY <2>3, <2>7 DEF IngestKid, IInv, TypeOK, RowTypeOK
    <3> DEFINE j == <<Uri(t), kid>>
    <3>2. /\ j \in cache.hits => ChangesOnly(cache, cache', j)
          /\ j \notin cache.hits => Inserted(cache, cache', j)
      BY <2>7, IngestCache
    <3>3. j[1] = Uri(t)
      OBVIOUS
    <3> HIDE DEF j
    <3>4. k = j \/ Cardinality(cache.hits) = MaxEntries
      BY <2>1, <3>2 DEF ChangesOnly, Inserted
    <3> QED BY <2>4, <3>1, <3>3, <3>4
  <2> QED BY <2>2, <2>5, <2>6, <2>7 DEF Applies
<1>2. QED BY <1>1, KeyInvariant, PTL DEF Spec, KeysOutliveOutage

\* The ways into the critical section.
LEMMA EntersSection ==
  ASSUME IInv, Next, NEW t \in Threads, row[t].pc # "Ingesting", row'[t].pc = "Ingesting"
  PROVE  \/ ColdFetchOk(t)
         \/ TargetAbsent(t) \/ TargetUnusable(t) \/ TargetCommitted(t) \/ TargetSuperseded(t)
<1>1. ~Environment
  BY DEF Environment, Tick, Publish, Reconfigure
<1>2. PICK u \in Threads : Caller(u) \/ Begin(u) \/ Http(u) \/ Resume(u) \/ Ingest(u)
  BY <1>1 DEF Next
<1>3. u = t
  BY <1>2, ActingThread DEF IInv
<1>4. ~Ingest(t)
  BY ActingThread DEF IInv
<1>5. ASSUME NEW result, NEW reason, Return(t, result, reason) PROVE FALSE
  BY <1>5, IdleRowTypeOK DEF Return, RowTypeOK, IInv, TypeOK
<1>6. ~Caller(t)
  <2>1. ASSUME NEW uri, NEW tok, NEW now, Present(t, uri, tok, now) PROVE FALSE
    BY <2>1, IdleRowTypeOK DEF Present, IInv, TypeOK, RowTypeOK
  <2>2. ~FinishChunk(t)
    BY IdleRowTypeOK DEF FinishChunk, IInv, TypeOK
  <2> QED BY <2>1, <2>2 DEF Caller, StartChunk, NextRow
<1>7. ~Begin(t)
  <2>1. ASSUME NEW c, NEW mode, NEW first, NEW n, Fetch(t, c, mode, first, n) PROVE FALSE
    BY <2>1 DEF Fetch, IInv, TypeOK, RowTypeOK
  <2>2. ~StartRefresh(t) /\ ~StartColdFetch(t)
    BY <2>1 DEF StartRefresh, StartColdFetch
  <2>3. ~RejectEarly(t) /\ ~AcceptCached(t) /\ ~ThrottleRefresh(t) /\ ~RejectMiss(t)
    BY <1>5 DEF RejectEarly, AcceptCached, ThrottleRefresh, RejectMiss
  <2> QED BY <2>2, <2>3 DEF Begin
<1>8. ~Http(t)
  <2>1. ASSUME NEW resp, Respond(t, resp) PROVE FALSE
    BY <2>1 DEF Respond, IInv, TypeOK, RowTypeOK
  <2> QED BY <2>1 DEF Http, Answer, AttemptFails, IInv, TypeOK, RowTypeOK
<1>9. ~ColdFetchFailed(t) /\ ~RefreshFailed(t)
  BY <1>5 DEF ColdFetchFailed, RefreshFailed
<1> QED BY <1>2, <1>3, <1>4, <1>6, <1>7, <1>8, <1>9 DEF Resume

\* What happens to a row inside the critical section.
LEMMA IngestRow ==
  ASSUME TypeOK, NEW t \in Threads, row[t].pc = "Ingesting"
  PROVE  /\ \A k \in CacheKey : EvictAbsent(t, k) =>
              row'[t] = [row[t] EXCEPT !.evict = @ \ {k}]
         /\ \A kid \in Kids : IngestKid(t, kid) =>
              row'[t] = [row[t] EXCEPT !.todo = @ \ {kid},
                           !.verified = IF kid = Kid(t) THEN VerifiedCandidate(Usable(Doc(t), kid), row[t].tok)
                                        ELSE @]
         /\ FinishCold(t) \/ FinishRefresh(t) => row'[t].pc = "Done"
<1>1. ASSUME NEW k \in CacheKey, EvictAbsent(t, k)
      PROVE  row'[t] = [row[t] EXCEPT !.evict = @ \ {k}]
  BY <1>1 DEF EvictAbsent, TypeOK, RowTypeOK
<1>2. ASSUME NEW kid \in Kids, IngestKid(t, kid)
      PROVE  row'[t] = [row[t] EXCEPT !.todo = @ \ {kid},
                           !.verified = IF kid = Kid(t) THEN VerifiedCandidate(Usable(Doc(t), kid), row[t].tok)
                                        ELSE @]
  BY <1>2 DEF IngestKid, TypeOK, RowTypeOK
<1>3. ASSUME NEW result, NEW reason, Return(t, result, reason) PROVE row'[t].pc = "Done"
  BY <1>3, IdleRowTypeOK DEF Return, TypeOK, RowTypeOK
<1>4. FinishCold(t) \/ FinishRefresh(t) => row'[t].pc = "Done"
  BY <1>3 DEF FinishCold, FinishRefresh
<1> QED BY <1>1, <1>2, <1>4

\* A refresh that verified its token before it committed finds that key in the
\* entry for as long as the kid stays cached.
VerifiedInv ==
  \A t \in Threads :
    row[t].pc = "Ingesting" /\ row[t].mode = "Refresh" /\ row[t].verified # "None" =>
      \/ row[t].key \notin cache.hits
      \/ row[t].tok.signer \in ToSet(cache.entry[row[t].key].keys)

\* Every step preserves it.
LEMMA NextVerifiedInv == IInv /\ KeyInv /\ VerifiedInv /\ [Next]_vars => VerifiedInv'
<1> SUFFICES ASSUME IInv, KeyInv, VerifiedInv, [Next]_vars, NEW t \in Threads,
                    row'[t].pc = "Ingesting", row'[t].mode = "Refresh", row'[t].verified # "None",
                    row'[t].key \in cache'.hits
             PROVE  row'[t].tok.signer \in ToSet(cache'.entry[row'[t].key].keys)
  BY DEF VerifiedInv
<1>0. /\ RowTypeOK(row[t]) /\ RowKeysOK(row[t], hist.listed) /\ row[t].key = <<Uri(t), Kid(t)>>
      /\ row[t].key \in CacheKey /\ TypeOK /\ Shape(cache)
  BY RowKey DEF IInv, TypeOK, KeyInv
<1>1. CASE UNCHANGED vars
  BY <1>1 DEF vars, VerifiedInv
<1>2. CASE Next /\ row[t].pc # "Ingesting"
  <2>1. ~ColdFetchOk(t)
    BY <1>0 DEF ColdFetchOk, Resumes, RowTypeOK, TypeOK
  <2>2. TargetAbsent(t) \/ TargetUnusable(t) \/ TargetCommitted(t) \/ TargetSuperseded(t)
    BY <1>2, <2>1, EntersSection
  <2>3. Refreshed(t) /\ hist'.listed = hist.listed
    BY <2>2, TargetStep
  <2>4. PICK c, verified, reason :
              /\ Reconcile(t, c, verified, reason)
              /\ Shape(c) /\ CacheKeysOK(c, hist.listed)
              /\ verified # "None" =>
                   /\ row[t].tok.signer \in ToSet(c.entry[row[t].key].keys)
                   /\ row[t].tok.signer \in hist.listed[row[t].key]
    BY <2>2, TargetStep
  <2>5. /\ \A k \in CacheKey : cache'.entry[k].keys = c.entry[k].keys
        /\ row'[t].verified = verified /\ row'[t].key = row[t].key /\ row'[t].tok = row[t].tok
    BY <2>3, <2>4, KeyReconcile
  <2> QED BY <1>0, <2>4, <2>5
<1>3. CASE Next /\ row[t].pc = "Ingesting"
  <2>1. CASE cache' = cache /\ row'[t] = row[t]
    BY <1>3, <2>1 DEF VerifiedInv
  <2>2. ASSUME NEW k \in CacheKey, EvictAbsent(t, k)
        PROVE  row'[t].tok.signer \in ToSet(cache'.entry[row'[t].key].keys)
    <3>1. cache' = EraseHit(cache, k) /\ k \in row[t].evict
      BY <2>2 DEF EvictAbsent
    <3>2. /\ row'[t].mode = row[t].mode /\ row'[t].verified = row[t].verified
          /\ row'[t].key = row[t].key /\ row'[t].tok = row[t].tok
      BY <1>0, <1>3, <2>2, IngestRow DEF RowTypeOK
    <3>3. k # row[t].key
      BY <1>0, <3>1 DEF RowKeysOK
    <3>4. ChangesOnly(cache, cache', k)
      BY <1>0, <3>1, EraseHitShape
    <3> QED BY <1>0, <1>3, <3>2, <3>3, <3>4 DEF VerifiedInv, ChangesOnly
  <2>3. ASSUME NEW kid \in Kids, IngestKid(t, kid)
        PROVE  row'[t].tok.signer \in ToSet(cache'.entry[row'[t].key].keys)
    <3> DEFINE j == <<Uri(t), kid>>
    <3>1. /\ row'[t].mode = row[t].mode /\ row'[t].key = row[t].key /\ row'[t].tok = row[t].tok
          /\ kid # Kid(t) => row'[t].verified = row[t].verified
      <4> DEFINE v == IF kid = Kid(t) THEN VerifiedCandidate(Usable(Doc(t), kid), row[t].tok)
                      ELSE row[t].verified
      <4>1. row'[t] = [row[t] EXCEPT !.todo = @ \ {kid}, !.verified = v]
        BY <1>0, <1>3, <2>3, IngestRow
      <4>2. kid # Kid(t) => v = row[t].verified
        OBVIOUS
      <4> HIDE DEF v
      <4> QED BY <1>0, <4>1, <4>2 DEF RowTypeOK
    <3>2. kid # Kid(t)
      BY <1>0, <2>3, <3>1 DEF IngestKid, RowKeysOK, Kid
    <3>3. j # row[t].key
      BY <1>0, <3>2
    <3>4. /\ j \in cache.hits => ChangesOnly(cache, cache', j)
          /\ j \notin cache.hits => Inserted(cache, cache', j)
      BY <2>3, IngestCache
    <3> HIDE DEF j
    <3>5. cache'.entry[row[t].key] = cache.entry[row[t].key] /\ row[t].key \in cache.hits
      BY <1>0, <3>1, <3>3, <3>4 DEF ChangesOnly, Inserted
    <3> QED BY <1>3, <3>1, <3>2, <3>5 DEF VerifiedInv
  <2>4. ~FinishCold(t) /\ ~FinishRefresh(t)
    BY <1>0, <1>3, IngestRow
  <2> QED BY <1>3, <2>1, <2>2, <2>3, <2>4, SectionExclusive DEF Ingest
<1> QED BY <1>1, <1>2, <1>3

\* A refresh accepts its token by a key that it leaves in the cache, unless
\* the kid itself was evicted meanwhile.
THEOREM RefreshKeepsAccepted == Spec => RefreshAcceptsCachedKey
<1> DEFINE Accepts == \A t \in Threads :
       /\ row[t].pc = "Ingesting" /\ row[t].mode = "Refresh"
       /\ row'[t].pc = "Done" /\ row'[t].result \in SignatureMatches
       => \/ row[t].tok.signer \in ToSet(cache'.entry[row[t].key].keys)
          \/ row[t].key \notin cache'.hits
<1>1. Init => VerifiedInv
  BY IdleRowTypeOK DEF Init, VerifiedInv
<1>2. IInv /\ KeyInv /\ VerifiedInv /\ [Next]_vars => [Accepts]_vars
  <2> SUFFICES ASSUME IInv, KeyInv, VerifiedInv, Next, NEW t \in Threads,
                      row[t].pc = "Ingesting", row[t].mode = "Refresh",
                      row'[t].pc = "Done", row'[t].result \in SignatureMatches
               PROVE  \/ row[t].tok.signer \in ToSet(cache'.entry[row[t].key].keys)
                      \/ row[t].key \notin cache'.hits
    OBVIOUS
  <2>0. RowTypeOK(row[t]) /\ TypeOK
    BY DEF IInv, TypeOK
  <2>1. Ingest(t)
    BY SectionExclusive
  <2>2. ASSUME NEW k \in CacheKey, EvictAbsent(t, k) PROVE FALSE
    BY <2>0, <2>2, IngestRow DEF RowTypeOK
  <2>3. ASSUME NEW kid \in Kids, IngestKid(t, kid) PROVE FALSE
    BY <2>0, <2>3, IngestRow DEF RowTypeOK
  <2>4. ~FinishCold(t)
    BY DEF FinishCold, Ingested
  <2>5. FinishRefresh(t)
    BY <2>1, <2>2, <2>3, <2>4 DEF Ingest
  <2>6. Return(t, ReverifyAfterCommit(t), row[t].reason) /\ cache' = cache
    BY <2>5 DEF FinishRefresh
  <2>7. ReverifyAfterCommit(t) \in SignatureMatches
    BY <2>0, <2>6, IdleRowTypeOK DEF Return, TypeOK, RowTypeOK
  <2>8. CASE row[t].verified # "None"
    BY <2>6, <2>8 DEF VerifiedInv
  <2>9. CASE row[t].verified = "None" /\ row[t].key \in cache.hits
    <3>1. VerifyAgainstCachedKid(cache.entry[row[t].key].keys, row[t].tok) \in SignatureMatches
      BY <2>7, <2>9 DEF ReverifyAfterCommit
    <3> QED BY <2>0, <2>6, <3>1, AcceptsBySigner DEF RowTypeOK
  <2> QED BY <2>6, <2>8, <2>9
<1>3. QED BY <1>1, <1>2, NextVerifiedInv, KeyInvariant, PTL DEF Spec, RefreshAcceptsCachedKey

(***************************************************************************)
(* Corroborated eviction.                                                   *)
(***************************************************************************)
InFlight(r) == r.pc \in {"Fetching", "Answered"} /\ r.mode = "Refresh"

\* The absence count of a kid is covered by refreshes that really missed it;
\* refreshes on their way have reservations of their own that nobody has
\* counted yet, and a kid marked for eviction was missed twice.
AbsenceInv ==
  /\ DOMAIN hist.absentIn = CacheKey
  /\ \A k \in CacheKey :
       /\ IsFiniteSet(hist.absentIn[k])
       /\ cache.entry[k].absent <= Cardinality(hist.absentIn[k])
       /\ \A n \in hist.absentIn[k] : n \in Nat /\ n < cache.nextReservation
  /\ \A t \in Threads : InFlight(row[t]) =>
       /\ row[t].reservation < cache.nextReservation
       /\ \A k \in CacheKey : row[t].reservation \notin hist.absentIn[k]
       /\ \A u \in Threads \ {t} : InFlight(row[u]) => row[u].reservation # row[t].reservation
  /\ \A t \in Threads : \A k \in row[t].evict : Cardinality(hist.absentIn[k]) >= 2

\* The reservation counter moves only when a refresh starts.
LEMMA ReservationCounter ==
  ASSUME IInv, Next
  PROVE  \/ cache'.nextReservation = cache.nextReservation
         \/ \E t \in Threads : StartRefresh(t) /\ cache'.nextReservation = cache.nextReservation + 1
<1>1. CASE Environment
  BY <1>1 DEF Environment, Tick, Publish, Reconfigure, SetMinRefreshSeconds, IInv, TypeOK, CacheTypeOK
<1>2. ASSUME NEW t \in Threads, Caller(t) \/ Http(t) PROVE cache' = cache
  BY <1>2 DEF Caller, StartChunk, NextRow, FinishChunk, Present, Http, Answer, AttemptFails, Respond
<1>3. ASSUME NEW t \in Threads, Begin(t)
      PROVE  \/ cache'.nextReservation = cache.nextReservation
             \/ StartRefresh(t) /\ cache'.nextReservation = cache.nextReservation + 1
  <2>1. row[t].key \in CacheKey /\ row[t].now \in Nat /\ CacheTypeOK(cache)
    BY DEF IInv, TypeOK, RowTypeOK
  <2>2. ASSUME NEW c, DOMAIN c = DOMAIN cache
        PROVE  RecordJwksFetch(c, row[t].now).nextReservation = c.nextReservation
    BY <2>1, <2>2 DEF RecordJwksFetch, CacheTypeOK
  <2>3. CASE StartRefresh(t)
    <3> DEFINE c == ReserveRefresh(cache, row[t].key, row[t].now)
    <3>1. CacheTypeOK(c) /\ c.nextReservation = cache.nextReservation + 1
      BY <2>1, ReserveRefreshReserves
    <3>2. cache' = RecordJwksFetch(c, row[t].now)
      BY <2>3 DEF StartRefresh, Fetch
    <3> HIDE DEF c
    <3>3. DOMAIN c = DOMAIN cache
      BY <2>1, <3>1 DEF CacheTypeOK
    <3> QED BY <2>2, <2>3, <3>1, <3>2, <3>3
  <2>4. CASE StartColdFetch(t)
    BY <2>2, <2>4 DEF StartColdFetch, Fetch
  <2> QED BY <1>3, <2>3, <2>4 DEF Begin, RejectEarly, AcceptCached, ThrottleRefresh, RejectMiss
<1>4. ASSUME NEW t \in Threads, Resume(t) PROVE cache'.nextReservation = cache.nextReservation
  <2>1. row[t].key \in CacheKey /\ row[t].now \in Nat /\ Uri(t) \in Uris /\ CacheTypeOK(cache)
    BY RowKey DEF IInv, TypeOK, RowTypeOK
  <2>2. Keeps(cache, OnFetchMiss(cache, row[t].key, row[t].now)) /\ Keeps(cache, Fetched(t))
    BY <2>1, OnFetchMissKeeps, RecordJwksFetchSuccessKeeps DEF Fetched
  <2>3. ASSUME NEW c, Keeps(Fetched(t), c), NEW v, NEW reason, Reconcile(t, c, v, reason)
        PROVE  cache'.nextReservation = cache.nextReservation
    <3>1. cache' = CountAbsences(c, PresentKids(Doc(t)), Uri(t), Kid(t))
      BY <2>3 DEF Reconcile
    <3>2. Keeps(c, cache')
      BY <2>3, <3>1, CountAbsencesKeeps DEF Keeps
    <3> QED BY <2>2, <2>3, <3>2 DEF Keeps
  <2>4. /\ Keeps(Fetched(t), Fetched(t))
        /\ Keeps(Fetched(t), RecordKidAbsent(Fetched(t), row[t].key, row[t].reservation, row[t].now))
        /\ Keeps(Fetched(t), CommitRefresh(Fetched(t), row[t].key, Candidates(t), row[t].now))
    <3>1. CacheTypeOK(Fetched(t))
      BY <2>2 DEF Keeps
    <3>2. Keeps(Fetched(t), Fetched(t))
      BY <3>1 DEF Keeps
    <3> QED BY <2>1, <3>1, <3>2, RecordKidAbsentKeeps, CommitRefreshKeeps
  <2>5. CASE ColdFetchFailed(t)
    BY <2>2, <2>5 DEF ColdFetchFailed, Keeps
  <2>6. CASE ColdFetchOk(t)
    BY <2>2, <2>6 DEF ColdFetchOk, Fetched, Keeps
  <2>7. CASE RefreshFailed(t)
    BY <2>7 DEF RefreshFailed
  <2>8. CASE TargetAbsent(t)
    BY <2>3, <2>4, <2>8 DEF TargetAbsent
  <2>9. CASE TargetUnusable(t) \/ TargetSuperseded(t)
    BY <2>3, <2>4, <2>9 DEF TargetUnusable, TargetSuperseded
  <2>10. CASE TargetCommitted(t)
    BY <2>3, <2>4, <2>10 DEF TargetCommitted
  <2> QED BY <1>4, <2>5, <2>6, <2>7, <2>8, <2>9, <2>10 DEF Resume
<1>5. ASSUME NEW t \in Threads, Ingest(t) PROVE cache'.nextReservation = cache.nextReservation
  <2>1. row[t].key \in CacheKey /\ row[t].now \in Nat /\ Uri(t) \in Uris /\ CacheTypeOK(cache)
    BY RowKey DEF IInv, TypeOK, RowTypeOK
  <2>2. ASSUME NEW k \in CacheKey, EvictAbsent(t, k) PROVE Keeps(cache, cache')
    BY <2>1, <2>2, EraseHitKeeps DEF EvictAbsent
  <2>3. ASSUME NEW kid \in Kids, IngestKid(t, kid) PROVE Keeps(cache, cache')
    <3>1. <<Uri(t), kid>> \in CacheKey
      BY <2>1 DEF CacheKey
    <3> QED BY <2>1, <2>3, <3>1, OnPassiveFetchSuccessKeeps DEF IngestKid
  <2>4. Keeps(cache, OnFetchMiss(cache, row[t].key, row[t].now))
    BY <2>1, OnFetchMissKeeps
  <2>5. CASE FinishCold(t) \/ FinishRefresh(t)
    BY <2>4, <2>5 DEF FinishCold, FinishRefresh, Keeps
  <2> QED BY <1>5, <2>2, <2>3, <2>5 DEF Ingest, Keeps
<1> QED BY <1>1, <1>2, <1>3, <1>4, <1>5 DEF Next

\* A refresh is on its way only from its start to the end of its HTTP call,
\* with the reservation it got at the start.
LEMMA FlightSteps ==
  ASSUME IInv, Next, NEW t \in Threads, InFlight(row'[t])
  PROVE  \/ InFlight(row[t]) /\ row'[t].reservation = row[t].reservation
         \/ StartRefresh(t) /\ row'[t].reservation = cache.nextReservation
<1>0. RowTypeOK(row[t]) /\ t \in DOMAIN row
  BY DEF IInv, TypeOK
<1>1. CASE row'[t] = row[t]
  BY <1>1
<1>2. CASE row'[t] # row[t]
  <2>1. ~Environment
    BY <1>2 DEF Environment, Tick, Publish, Reconfigure
  <2>2. PICK u \in Threads : Caller(u) \/ Begin(u) \/ Http(u) \/ Resume(u) \/ Ingest(u)
    BY <2>1 DEF Next
  <2>3. u = t
    BY <1>2, <2>2, ActingThread DEF IInv
  <2>4. ASSUME NEW result, NEW reason, Return(t, result, reason) PROVE FALSE
    BY <1>0, <2>4, IdleRowTypeOK DEF Return, RowTypeOK, InFlight
  <2>5. ~Caller(t)
    <3>1. ASSUME NEW uri, NEW tok, NEW now, Present(t, uri, tok, now) PROVE FALSE
      BY <1>0, <3>1, IdleRowTypeOK DEF Present, RowTypeOK, InFlight
    <3>2. ~FinishChunk(t)
      BY <1>0, IdleRowTypeOK DEF FinishChunk, InFlight
    <3> QED BY <3>1, <3>2 DEF Caller, StartChunk, NextRow
  <2>6. CASE Begin(t)
    <3>1. ASSUME NEW c, NEW mode, NEW prior, NEW reservation, Fetch(t, c, mode, prior, reservation)
          PROVE  row'[t].mode = mode /\ row'[t].reservation = reservation
      BY <1>0, <3>1 DEF Fetch, RowTypeOK
    <3>2. StartRefresh(t) \/ StartColdFetch(t)
      BY <2>4, <2>6 DEF Begin, RejectEarly, AcceptCached, ThrottleRefresh, RejectMiss
    <3> QED BY <3>1, <3>2 DEF StartRefresh, StartColdFetch, InFlight
  <2>7. CASE Http(t)
    <3>1. ASSUME NEW resp, Respond(t, resp)
          PROVE  row'[t].mode = row[t].mode /\ row'[t].reservation = row[t].reservation
      BY <1>0, <3>1 DEF Respond, RowTypeOK
    <3>2. row[t].pc = "Fetching" /\ row'[t].mode = row[t].mode /\ row'[t].reservation = row[t].reservation
      BY <1>0, <2>7, <3>1 DEF Http, Answer, AttemptFails, RowTypeOK
    <3> QED BY <3>2 DEF InFlight
  <2>8. ~Resume(t)
    <3>1. ASSUME NEW c, NEW verified, NEW reason, Reconcile(t, c, verified, reason)
          PROVE  row'[t].pc = "Ingesting"
      BY <1>0, <3>1 DEF Reconcile, RowTypeOK
    <3>2. ~ColdFetchOk(t)
      BY <1>0 DEF ColdFetchOk, RowTypeOK, InFlight
    <3>3. ~ColdFetchFailed(t) /\ ~RefreshFailed(t)
      BY <2>4 DEF ColdFetchFailed, RefreshFailed
    <3> QED BY <3>1, <3>2, <3>3 DEF Resume, TargetAbsent, TargetUnusable, TargetCommitted,
            TargetSuperseded, InFlight
  <2>9. ~Ingest(t)
    <3>1. ASSUME Ingest(t) PROVE row[t].pc = "Ingesting" /\ TypeOK
      BY <3>1, ActingThread DEF IInv
    <3>2. ASSUME Ingest(t), NEW k \in CacheKey, EvictAbsent(t, k) PROVE FALSE
      BY <1>0, <3>1, <3>2, IngestRow DEF RowTypeOK, InFlight
    <3>3. ASSUME Ingest(t), NEW kid \in Kids, IngestKid(t, kid) PROVE FALSE
      BY <1>0, <3>1, <3>3, IngestRow DEF RowTypeOK, InFlight
    <3>4. ASSUME Ingest(t), FinishCold(t) \/ FinishRefresh(t) PROVE FALSE
      BY <3>1, <3>4, IngestRow DEF InFlight
    <3> QED BY <3>2, <3>3, <3>4 DEF Ingest
  <2> QED BY <2>2, <2>3, <2>5, <2>6, <2>7, <2>8, <2>9
<1> QED BY <1>1, <1>2

\* A refresh that missed a kid for the first time counts as one more.
LEMMA OneMoreMiss ==
  ASSUME NEW S, IsFiniteSet(S), NEW n, n \notin S
  PROVE  /\ IsFiniteSet(S \cup {n}) /\ Cardinality(S \cup {n}) = Cardinality(S) + 1
         /\ Cardinality(S) \in Nat
  BY FS_AddElement, FS_CardinalityType

\* CommitTargetKid: the target's own absences, after each outcome.
LEMMA TargetOwnAbsences ==
  ASSUME IInv, KeyInv, AbsenceInv, NEW t \in Threads,
         TargetAbsent(t) \/ TargetUnusable(t) \/ TargetCommitted(t) \/ TargetSuperseded(t)
  PROVE  LET k == row[t].key IN
         /\ Refreshed(t) /\ hist'.listed = hist.listed
         /\ DOMAIN hist'.absentIn = CacheKey
         /\ \A j \in CacheKey \ {k} : hist'.absentIn[j] = Corroborated(t)[j]
         /\ IsFiniteSet(hist'.absentIn[k])
         /\ hist'.absentIn[k] \subseteq hist.absentIn[k] \cup {row[t].reservation}
         /\ \E c, verified, reason :
              /\ Reconcile(t, c, verified, reason)
              /\ Shape(c) /\ CacheKeysOK(c, hist.listed) /\ ChangesOnly(cache, c, k)
              /\ verified # "None" => row[t].tok.signer \in hist.listed[k]
              /\ c.hits \subseteq cache.hits
              /\ c.entry[k].absent <= Cardinality(hist'.absentIn[k])
              /\ k \notin c.hits => k \notin cache.hits \/ Cardinality(hist'.absentIn[k]) >= 2
<1> DEFINE k == row[t].key
           A == hist.absentIn
           n == row[t].reservation
           f == Fetched(t)
           seen == Corroborated(t)
           Good(c, verified) ==
              /\ Shape(c) /\ CacheKeysOK(c, hist.listed) /\ ChangesOnly(cache, c, k)
              /\ verified # "None" => row[t].tok.signer \in hist.listed[k]
              /\ c.hits \subseteq cache.hits
              /\ c.entry[k].absent <= Cardinality(hist'.absentIn[k])
              /\ k \notin c.hits => k \notin cache.hits \/ Cardinality(hist'.absentIn[k]) >= 2
<1>1. Refreshed(t) /\ hist'.listed = hist.listed
  BY TargetStep
<1>2. /\ k \in CacheKey /\ row[t].now \in Nat /\ k = <<Uri(t), Kid(t)>> /\ InFlight(row[t])
      /\ cache.entry[k].absent \in Nat
  BY <1>1, RowKey DEF IInv, TypeOK, RowTypeOK, CacheTypeOK, EntryTypeOK, InFlight, Refreshed, Resumes
<1>3. /\ DOMAIN seen = CacheKey /\ seen[k] = A[k]
  BY <1>2 DEF Corroborated, Siblings
<1>4. /\ IsFiniteSet(A[k]) /\ Cardinality(A[k]) \in Nat /\ n \notin A[k]
      /\ cache.entry[k].absent <= Cardinality(A[k])
      /\ IsFiniteSet(A[k] \cup {n}) /\ Cardinality(A[k] \cup {n}) = Cardinality(A[k]) + 1
  BY <1>2, OneMoreMiss DEF AbsenceInv
<1>5. /\ Shape(f) /\ SameHits(cache, f) /\ CacheKeysOK(f, hist.listed) /\ ChangesOnly(cache, f, k)
      /\ f.hits = cache.hits /\ f.entry[k] = cache.entry[k]
  BY <1>1, TargetCache DEF SameHits, ChangesOnly
<1> HIDE DEF f
<1>6. CASE TargetAbsent(t)
  <2> DEFINE c == RecordKidAbsent(f, k, n, row[t].now)
             owned == OwnsRefresh(cache, k, n)
  <2>1. /\ Shape(c) /\ CacheKeysOK(c, hist.listed) /\ ChangesOnly(cache, c, k)
    BY <1>1, TargetCache DEF f
  <2>2. \/ c = f /\ ~OwnsRefresh(f, k, n)
        \/ /\ OwnsRefresh(f, k, n) /\ EvictsOnAbsence(f, k)
           /\ c.hits = f.hits \ {k} /\ c.entry[k] = NoEntry
        \/ /\ OwnsRefresh(f, k, n) /\ c.hits = f.hits
           /\ c.entry[k].absent = f.entry[k].absent + 1
    BY <1>2, <1>5, RecordKidAbsentShape
  <2>3. OwnsRefresh(f, k, n) <=> owned
    BY <1>5 DEF OwnsRefresh
  <2>4. EvictsOnAbsence(f, k) <=> cache.entry[k].absent + 1 >= 2
    BY <1>5 DEF EvictsOnAbsence
  <2>5. hist'.absentIn = IF owned THEN [seen EXCEPT ![k] = @ \cup {n}] ELSE seen
    BY <1>6 DEF TargetAbsent, IInv, TypeOK, HistTypeOK
  <2>6. \E reason : Reconcile(t, c, "None", reason)
    BY <1>6 DEF TargetAbsent, f
  <2> HIDE DEF c, seen, owned
  <2>7. /\ DOMAIN hist'.absentIn = CacheKey
        /\ \A j \in CacheKey \ {k} : hist'.absentIn[j] = seen[j]
        /\ hist'.absentIn[k] = IF owned THEN A[k] \cup {n} ELSE A[k]
    BY <1>2, <1>3, <2>5
  <2>8. NoEntry.absent = 0
    BY DEF NoEntry
  <2>9. CASE c = f /\ ~owned
    <3>1. Good(c, "None")
      BY <1>4, <1>5, <2>1, <2>7, <2>9
    <3> QED BY <1>1, <1>4, <2>6, <2>7, <2>9, <3>1 DEF seen
  <2>10. CASE owned /\ c.hits = f.hits \ {k} /\ c.entry[k] = NoEntry /\ cache.entry[k].absent + 1 >= 2
    <3>1. Cardinality(hist'.absentIn[k]) >= 2
      BY <1>2, <1>4, <2>7, <2>10
    <3>2. Good(c, "None")
      BY <1>4, <1>5, <2>1, <2>7, <2>8, <2>10, <3>1
    <3> QED BY <1>1, <1>4, <2>6, <2>7, <2>10, <3>2 DEF seen
  <2>11. CASE owned /\ c.hits = f.hits /\ c.entry[k].absent = f.entry[k].absent + 1
    <3>1. c.entry[k].absent <= Cardinality(hist'.absentIn[k])
      BY <1>2, <1>4, <1>5, <2>7, <2>11
    <3>2. Good(c, "None")
      BY <1>5, <2>1, <2>11, <3>1
    <3> QED BY <1>1, <1>4, <2>6, <2>7, <2>11, <3>2 DEF seen
  <2> QED BY <2>2, <2>3, <2>4, <2>9, <2>10, <2>11
<1>7. CASE TargetUnusable(t) \/ TargetSuperseded(t)
  <2>1. hist'.absentIn = seen
    BY <1>7 DEF TargetUnusable, TargetSuperseded, IInv, TypeOK, HistTypeOK
  <2>2. \E reason : Reconcile(t, f, "None", reason)
    BY <1>7 DEF TargetUnusable, TargetSuperseded, f
  <2> HIDE DEF seen
  <2>3. Good(f, "None")
    BY <1>3, <1>4, <1>5, <2>1
  <2> QED BY <1>1, <1>3, <1>4, <2>1, <2>2, <2>3 DEF seen
<1>8. CASE TargetCommitted(t)
  <2> DEFINE c == CommitRefresh(f, k, Candidates(t), row[t].now)
             v == VerifiedCandidate(Usable(Doc(t), Kid(t)), row[t].tok)
  <2>1. /\ Shape(c) /\ CacheKeysOK(c, hist.listed) /\ ChangesOnly(cache, c, k)
        /\ c.hits = cache.hits /\ c.entry[k].absent = 0
        /\ v # "None" => row[t].tok.signer \in ToSet(c.entry[k].keys)
    BY <1>1, <1>8, TargetCache DEF TargetCommitted, f
  <2>2. k \in c.hits
    BY <1>8, <2>1 DEF TargetCommitted, Commits, CanCommitRefresh
  <2>3. \E reason : Reconcile(t, c, v, reason)
    BY <1>8 DEF TargetCommitted, f
  <2>4. hist'.absentIn = [seen EXCEPT ![k] = {}]
    BY <1>8 DEF TargetCommitted, IInv, TypeOK, HistTypeOK
  <2> HIDE DEF c, v, seen
  <2>5. c.entry[k].keys \in Seq(Trusted(hist.listed, k))
    BY <2>1, <2>2 DEF CacheKeysOK, Distinct
  <2>6. ToSet(c.entry[k].keys) \subseteq Trusted(hist.listed, k)
    BY <2>5, SeqFacts
  <2>7. /\ DOMAIN hist'.absentIn = CacheKey
        /\ \A j \in CacheKey \ {k} : hist'.absentIn[j] = seen[j]
        /\ hist'.absentIn[k] = {} /\ IsFiniteSet({}) /\ Cardinality({}) = 0
    BY <1>2, <1>3, <2>4, FS_EmptySet
  <2>8. Good(c, v)
    BY <2>1, <2>2, <2>6, <2>7 DEF Trusted
  <2> QED BY <1>1, <2>3, <2>7, <2>8 DEF seen
<1> QED BY <1>6, <1>7, <1>8

\* A refresh that applies its document: every kid's absence count stays covered
\* by refreshes that missed it, and what it evicts was missed twice.
LEMMA TargetAbsences ==
  ASSUME IInv, KeyInv, AbsenceInv, NEW t \in Threads,
         TargetAbsent(t) \/ TargetUnusable(t) \/ TargetCommitted(t) \/ TargetSuperseded(t)
  PROVE  /\ DOMAIN hist'.absentIn = CacheKey
         /\ \A k \in CacheKey :
              /\ IsFiniteSet(hist'.absentIn[k])
              /\ cache'.entry[k].absent <= Cardinality(hist'.absentIn[k])
              /\ hist'.absentIn[k] \subseteq hist.absentIn[k] \cup {row[t].reservation}
              /\ k \in cache.hits \ cache'.hits => Cardinality(hist'.absentIn[k]) >= 2
              /\ k \in row'[t].evict => Cardinality(hist'.absentIn[k]) >= 2
         /\ row'[t].pc = "Ingesting" /\ InFlight(row[t])
         /\ \A u \in Threads \ {t} : row'[u] = row[u]
<1> DEFINE key == row[t].key
           n == row[t].reservation
           B == hist'.absentIn
           Absent(c) == AbsentTwice(c, PresentKids(Doc(t)), Uri(t), Kid(t))
<1>1. /\ Refreshed(t) /\ hist'.listed = hist.listed /\ DOMAIN B = CacheKey
      /\ \A j \in CacheKey \ {key} : B[j] = Corroborated(t)[j]
      /\ IsFiniteSet(B[key]) /\ B[key] \subseteq hist.absentIn[key] \cup {n}
  BY TargetOwnAbsences
<1>2. PICK c, verified, reason :
        /\ Reconcile(t, c, verified, reason)
        /\ Shape(c) /\ CacheKeysOK(c, hist.listed) /\ ChangesOnly(cache, c, key)
        /\ verified # "None" => row[t].tok.signer \in hist.listed[key]
        /\ c.hits \subseteq cache.hits
        /\ c.entry[key].absent <= Cardinality(B[key])
        /\ key \notin c.hits => key \notin cache.hits \/ Cardinality(B[key]) >= 2
  BY TargetOwnAbsences
<1>3. /\ cache'.hits = c.hits
      /\ \A k \in CacheKey :
           /\ cache'.entry[k].keys = c.entry[k].keys
           /\ k \notin ReconciledKids(c, Uri(t), Kid(t)) => cache'.entry[k] = c.entry[k]
           /\ k \in ReconciledKids(c, Uri(t), Kid(t)) =>
                cache'.entry[k].absent = IF k[2] \in PresentKids(Doc(t)) THEN 0
                                         ELSE c.entry[k].absent + 1
      /\ row'[t].pc = "Ingesting" /\ row'[t].evict = Absent(c)
      /\ \A u \in Threads \ {t} : row'[u] = row[u]
  <2>1. Refreshed(t) /\ hist'.listed = hist.listed
    BY <1>1
  <2>2. /\ Reconcile(t, c, verified, reason) /\ Shape(c) /\ CacheKeysOK(c, hist.listed)
        /\ verified # "None" => row[t].tok.signer \in hist.listed[row[t].key]
    BY <1>2
  <2> QED BY <2>1, <2>2, KeyReconcile
<1>4. InFlight(row[t]) /\ key = <<Uri(t), Kid(t)>> /\ key \in CacheKey
  BY <1>1, RowKey DEF IInv, TypeOK, RowTypeOK, InFlight, Refreshed, Resumes
<1>5. ASSUME NEW k \in CacheKey
      PROVE  /\ IsFiniteSet(B[k])
             /\ cache'.entry[k].absent <= Cardinality(B[k])
             /\ B[k] \subseteq hist.absentIn[k] \cup {n}
             /\ k \in cache.hits \ cache'.hits => Cardinality(B[k]) >= 2
             /\ k \in Absent(c) => Cardinality(B[k]) >= 2
  <2>1. CASE k = key
    <3>1. k \notin ReconciledKids(c, Uri(t), Kid(t))
      BY <1>4, <2>1 DEF ReconciledKids
    <3>2. k \notin Absent(c)
      BY <3>1 DEF AbsentTwice
    <3> QED BY <1>1, <1>2, <1>3, <2>1, <3>1, <3>2
  <2>2. CASE k # key
    <3> DEFINE S == hist.absentIn[k]
    <3>1. /\ IsFiniteSet(S) /\ Cardinality(S) \in Nat /\ n \notin S
          /\ cache.entry[k].absent <= Cardinality(S)
          /\ IsFiniteSet(S \cup {n}) /\ Cardinality(S \cup {n}) = Cardinality(S) + 1
      BY <1>4, OneMoreMiss DEF AbsenceInv
    <3>2. c.entry[k] = cache.entry[k] /\ (k \in c.hits <=> k \in cache.hits)
      BY <1>2, <2>2 DEF ChangesOnly
    <3>3. k \in ReconciledKids(c, Uri(t), Kid(t)) <=> k \in Siblings(t)
      BY <3>2 DEF ReconciledKids, Siblings
    <3>4. cache.entry[k].absent \in Nat
      BY DEF IInv, TypeOK, CacheTypeOK, EntryTypeOK
    <3>5. k \in Absent(c) => k \in Siblings(t) /\ k[2] \notin PresentKids(Doc(t)) /\ cache.entry[k].absent + 1 >= 2
      BY <3>2, <3>3 DEF AbsentTwice, EvictsOnAbsence
    <3>6. B[k] = Corroborated(t)[k]
      BY <1>1, <2>2
    <3>7. CASE k \in Siblings(t) /\ k[2] \in PresentKids(Doc(t))
      <4>1. B[k] = {} /\ IsFiniteSet({}) /\ Cardinality({}) = 0
        BY <3>6, <3>7, FS_EmptySet DEF Corroborated
      <4>2. cache'.entry[k].absent = 0
        BY <1>3, <3>3, <3>7
      <4> QED BY <1>3, <3>2, <3>5, <3>7, <4>1, <4>2
    <3>8. CASE k \in Siblings(t) /\ k[2] \notin PresentKids(Doc(t))
      <4>1. B[k] = S \cup {n}
        BY <3>6, <3>8 DEF Corroborated
      <4>2. cache'.entry[k].absent = cache.entry[k].absent + 1
        BY <1>3, <3>2, <3>3, <3>8
      <4> HIDE DEF S, B
      <4>3. cache'.entry[k].absent <= Cardinality(B[k])
        BY <3>1, <3>4, <4>1, <4>2
      <4>4. cache.entry[k].absent + 1 >= 2 => Cardinality(B[k]) >= 2
        BY <3>1, <3>4, <4>1
      <4> QED BY <1>3, <3>1, <3>2, <3>5, <4>1, <4>3, <4>4 DEF S
    <3>9. CASE k \notin Siblings(t)
      <4>1. B[k] = S
        BY <3>6, <3>9 DEF Corroborated
      <4>2. cache'.entry[k] = cache.entry[k]
        BY <1>3, <3>2, <3>3, <3>9
      <4> QED BY <1>3, <3>1, <3>2, <3>5, <3>9, <4>1, <4>2
    <3> QED BY <3>7, <3>8, <3>9
  <2> QED BY <2>1, <2>2
<1> QED BY <1>1, <1>3, <1>4, <1>5

\* A refresh that starts takes the counter's value.
LEMMA StartTakesTicket ==
  ASSUME IInv, NEW t \in Threads, StartRefresh(t)
  PROVE  /\ cache'.nextReservation = cache.nextReservation + 1 /\ hist'.absentIn = hist.absentIn
         /\ ~InFlight(row[t])
<1>1. row[t].key \in CacheKey /\ row[t].now \in Nat /\ CacheTypeOK(cache)
  BY DEF IInv, TypeOK, RowTypeOK
<1> DEFINE c == ReserveRefresh(cache, row[t].key, row[t].now)
<1>2. CacheTypeOK(c) /\ c.nextReservation = cache.nextReservation + 1
  BY <1>1, ReserveRefreshReserves
<1>3. cache' = RecordJwksFetch(c, row[t].now)
  BY DEF StartRefresh, Fetch
<1> HIDE DEF c
<1>4. RecordJwksFetch(c, row[t].now).nextReservation = c.nextReservation
  BY <1>2 DEF RecordJwksFetch, CacheTypeOK
<1>5. hist'.absentIn = hist.absentIn
  BY DEF StartRefresh, Fetch, IInv, TypeOK, HistTypeOK
<1>6. ~InFlight(row[t])
  BY DEF StartRefresh, WantsRefresh, HasMutex, InFlight
<1> QED BY <1>2, <1>3, <1>4, <1>5, <1>6

\* Only a refresh that applies its document marks kids for eviction.
LEMMA EvictionMarks ==
  ASSUME IInv, KeyInv, Next, NEW t \in Threads
  PROVE  \/ row'[t].evict \subseteq row[t].evict
         \/ TargetAbsent(t) \/ TargetUnusable(t) \/ TargetCommitted(t) \/ TargetSuperseded(t)
<1>0. RowTypeOK(row[t]) /\ TypeOK
  BY DEF IInv, TypeOK
<1>1. CASE row'[t].pc # "Ingesting"
  <2>1. KeyInv'
    BY NextKeyInv
  <2>2. row'[t].evict = {}
    BY <1>1, <2>1 DEF KeyInv, RowKeysOK
  <2> QED BY <2>2
<1>2. CASE row'[t].pc = "Ingesting" /\ row[t].pc # "Ingesting"
  <2>1. ColdFetchOk(t) => row'[t].evict = row[t].evict
    BY <1>0 DEF ColdFetchOk, TypeOK, RowTypeOK
  <2> QED BY <1>2, <2>1, EntersSection
<1>3. CASE row'[t].pc = "Ingesting" /\ row[t].pc = "Ingesting"
  <2>1. ASSUME NEW k \in CacheKey, EvictAbsent(t, k) PROVE row'[t].evict \subseteq row[t].evict
    <3>1. row'[t] = [row[t] EXCEPT !.evict = @ \ {k}]
      BY <1>0, <1>3, <2>1, IngestRow
    <3> QED BY <1>0, <3>1 DEF RowTypeOK
  <2>2. ASSUME NEW kid \in Kids, IngestKid(t, kid) PROVE row'[t].evict \subseteq row[t].evict
    BY <1>0, <2>2 DEF IngestKid, TypeOK, RowTypeOK
  <2>3. ~FinishCold(t) /\ ~FinishRefresh(t)
    BY <1>0, <1>3, IngestRow
  <2> QED BY <1>3, <2>1, <2>2, <2>3, SectionExclusive DEF Ingest
<1> QED BY <1>1, <1>2, <1>3

\* One kid of the document goes into the cache: it is no longer absent, and a
\* kid that makes room for it is forgotten.
LEMMA IngestAbsences ==
  ASSUME IInv, KeyInv, AbsenceInv, NEW t \in Threads, NEW kid \in Kids, IngestKid(t, kid)
  PROVE  /\ DOMAIN hist'.absentIn = CacheKey
         /\ \A k \in CacheKey :
              /\ hist'.absentIn[k] = hist.absentIn[k] \/ hist'.absentIn[k] = {}
              /\ cache'.entry[k].absent <= Cardinality(hist'.absentIn[k])
         /\ \A k \in cache.hits \ cache'.hits :
              Cardinality(cache.hits) = MaxEntries /\ cache'.hits \ cache.hits # {}
<1> DEFINE j == <<Uri(t), kid>>
<1>1. /\ j \in CacheKey /\ j \in cache'.hits /\ cache'.entry[j].absent = 0
      /\ j \in cache.hits => /\ cache'.hits = cache.hits /\ ChangesOnly(cache, cache', j)
      /\ j \notin cache.hits => Inserted(cache, cache', j)
  BY IngestCache
<1>2. hist'.absentIn = [hist.absentIn EXCEPT ![j] = {}]
  BY DEF IngestKid, IInv, TypeOK, HistTypeOK
<1> HIDE DEF j
<1>3. DOMAIN hist'.absentIn = CacheKey /\ hist'.absentIn[j] = {}
      /\ \A k \in CacheKey \ {j} : hist'.absentIn[k] = hist.absentIn[k]
  BY <1>1, <1>2 DEF AbsenceInv
<1>4. ASSUME NEW k \in CacheKey \ {j} PROVE cache'.entry[k].absent <= Cardinality(hist.absentIn[k])
  <2>1. cache.entry[k].absent <= Cardinality(hist.absentIn[k]) /\ Cardinality(hist.absentIn[k]) \in Nat
    BY FS_CardinalityType DEF AbsenceInv
  <2>2. cache'.entry[k] = cache.entry[k] \/ cache'.entry[k] = NoEntry
    BY <1>1 DEF ChangesOnly, Inserted
  <2> QED BY <2>1, <2>2 DEF NoEntry
<1>5. ASSUME NEW k \in cache.hits \ cache'.hits
      PROVE  Cardinality(cache.hits) = MaxEntries /\ cache'.hits \ cache.hits # {}
  <2>1. j \notin cache.hits
    BY <1>1
  <2>2. Inserted(cache, cache', j)
    BY <1>1, <2>1
  <2>3. Cardinality(cache.hits) = MaxEntries
    BY <1>5, <2>2 DEF Inserted
  <2> QED BY <1>1, <2>1, <2>3
<1>6. Cardinality({}) = 0
  BY FS_EmptySet
<1>7. cache'.entry[j].absent <= Cardinality(hist'.absentIn[j])
  BY <1>1, <1>3, <1>6
<1>8. \A k \in CacheKey : cache'.entry[k].absent <= Cardinality(hist'.absentIn[k])
  BY <1>3, <1>4, <1>7
<1> QED BY <1>3, <1>5, <1>8

\* Erasing a kid: its count goes, every other one stays.
LEMMA EvictAbsences ==
  ASSUME IInv, KeyInv, AbsenceInv, NEW t \in Threads, NEW j \in CacheKey, EvictAbsent(t, j)
  PROVE  /\ hist' = hist /\ Cardinality(hist.absentIn[j]) >= 2 /\ cache'.hits = cache.hits \ {j}
         /\ \A k \in CacheKey : cache'.entry[k].absent <= Cardinality(hist.absentIn[k])
<1>1. cache' = EraseHit(cache, j) /\ hist' = hist /\ j \in row[t].evict
  BY DEF EvictAbsent
<1>2. ChangesOnly(cache, cache', j) /\ cache'.hits = cache.hits \ {j} /\ cache'.entry[j] = NoEntry
  BY <1>1, EraseHitShape DEF KeyInv
<1>3. ASSUME NEW k \in CacheKey PROVE cache'.entry[k].absent <= Cardinality(hist.absentIn[k])
  <2>1. cache.entry[k].absent <= Cardinality(hist.absentIn[k]) /\ Cardinality(hist.absentIn[k]) \in Nat
    BY FS_CardinalityType DEF AbsenceInv
  <2>2. cache'.entry[k] = cache.entry[k] \/ cache'.entry[k] = NoEntry
    BY <1>2 DEF ChangesOnly
  <2> QED BY <2>1, <2>2 DEF NoEntry
<1> QED BY <1>1, <1>2, <1>3 DEF AbsenceInv

\* The history of absences: untouched, cleared for a kid that was ingested, or
\* extended by the refresh whose document is applied.
LEMMA AbsenceSteps ==
  ASSUME IInv, KeyInv, AbsenceInv, Next
  PROVE  \/ hist'.absentIn = hist.absentIn
         \/ \E t \in Threads, kid \in Kids : IngestKid(t, kid)
         \/ \E t \in Threads : TargetAbsent(t) \/ TargetUnusable(t) \/ TargetCommitted(t) \/ TargetSuperseded(t)
<1>1. CASE \A t \in Threads : ~Applies(t)
  BY <1>1, QuietKeys
<1>2. ASSUME NEW t \in Threads, Applies(t), ~(\E kid \in Kids : IngestKid(t, kid)),
             ~(TargetAbsent(t) \/ TargetUnusable(t) \/ TargetCommitted(t) \/ TargetSuperseded(t))
      PROVE  hist'.absentIn = hist.absentIn
  <2>1. PICK k \in CacheKey : EvictAbsent(t, k)
    BY <1>2 DEF Applies
  <2> QED BY <2>1 DEF EvictAbsent
<1> QED BY <1>1, <1>2

\* The counts of the cache stay covered by the history.
LEMMA CountsCovered ==
  ASSUME IInv, KeyInv, AbsenceInv, Next
  PROVE  /\ DOMAIN hist'.absentIn = CacheKey
         /\ \A k \in CacheKey :
              /\ IsFiniteSet(hist'.absentIn[k])
              /\ cache'.entry[k].absent <= Cardinality(hist'.absentIn[k])
              /\ \A n \in hist'.absentIn[k] : n \in Nat /\ n < cache'.nextReservation
<1>1. cache.nextReservation \in Nat /\ cache'.nextReservation \in Nat
      /\ cache.nextReservation <= cache'.nextReservation
  <2>1. cache.nextReservation \in Nat
    BY DEF IInv, TypeOK, CacheTypeOK
  <2> QED BY <2>1, ReservationCounter
<1>2. ASSUME NEW t \in Threads,
             TargetAbsent(t) \/ TargetUnusable(t) \/ TargetCommitted(t) \/ TargetSuperseded(t)
      PROVE  /\ DOMAIN hist'.absentIn = CacheKey
             /\ \A k \in CacheKey :
                  /\ IsFiniteSet(hist'.absentIn[k])
                  /\ cache'.entry[k].absent <= Cardinality(hist'.absentIn[k])
                  /\ \A n \in hist'.absentIn[k] : n \in Nat /\ n < cache.nextReservation
  <2>1. /\ DOMAIN hist'.absentIn = CacheKey /\ InFlight(row[t])
        /\ \A k \in CacheKey :
              /\ IsFiniteSet(hist'.absentIn[k])
              /\ cache'.entry[k].absent <= Cardinality(hist'.absentIn[k])
              /\ hist'.absentIn[k] \subseteq hist.absentIn[k] \cup {row[t].reservation}
    BY <1>2, TargetAbsences
  <2>2. row[t].reservation \in Nat /\ row[t].reservation < cache.nextReservation
    BY <2>1 DEF AbsenceInv, IInv, TypeOK, RowTypeOK
  <2>3. ASSUME NEW k \in CacheKey, NEW n \in hist'.absentIn[k] PROVE n \in Nat /\ n < cache.nextReservation
    BY <2>1, <2>2 DEF AbsenceInv
  <2> QED BY <2>1, <2>3
<1>3. ASSUME NEW t \in Threads, NEW kid \in Kids, IngestKid(t, kid)
      PROVE  /\ DOMAIN hist'.absentIn = CacheKey
             /\ \A k \in CacheKey :
                  /\ IsFiniteSet(hist'.absentIn[k])
                  /\ cache'.entry[k].absent <= Cardinality(hist'.absentIn[k])
                  /\ \A n \in hist'.absentIn[k] : n \in Nat /\ n < cache.nextReservation
  <2>1. /\ DOMAIN hist'.absentIn = CacheKey
        /\ \A k \in CacheKey :
              /\ hist'.absentIn[k] = hist.absentIn[k] \/ hist'.absentIn[k] = {}
              /\ cache'.entry[k].absent <= Cardinality(hist'.absentIn[k])
    BY <1>3, IngestAbsences
  <2>2. IsFiniteSet({})
    BY FS_EmptySet
  <2> QED BY <2>1, <2>2 DEF AbsenceInv
<1>4. ASSUME NEW t \in Threads, NEW j \in CacheKey, EvictAbsent(t, j)
      PROVE  hist' = hist /\ \A k \in CacheKey : cache'.entry[k].absent <= Cardinality(hist.absentIn[k])
  BY <1>4, EvictAbsences
<1>5. ASSUME \A t \in Threads : ~Applies(t)
      PROVE  /\ hist'.absentIn = hist.absentIn
             /\ \A k \in CacheKey : cache'.entry[k].absent <= Cardinality(hist.absentIn[k])
  BY <1>5, QuietKeys DEF SameKeys, AbsenceInv
<1>6. /\ DOMAIN hist'.absentIn = CacheKey
      /\ \A k \in CacheKey :
           /\ IsFiniteSet(hist'.absentIn[k])
           /\ cache'.entry[k].absent <= Cardinality(hist'.absentIn[k])
           /\ \A n \in hist'.absentIn[k] : n \in Nat /\ n < cache.nextReservation
  BY <1>2, <1>3, <1>4, <1>5 DEF Applies, AbsenceInv
<1>7. ASSUME NEW n \in Nat, n < cache.nextReservation PROVE n < cache'.nextReservation
  BY <1>1, <1>7
<1> QED BY <1>6, <1>7

\* Reservations on their way stay distinct and uncounted.
LEMMA FlightsDistinct ==
  ASSUME IInv, KeyInv, AbsenceInv, Next, NEW t \in Threads, InFlight(row'[t])
  PROVE  /\ row'[t].reservation < cache'.nextReservation
         /\ \A k \in CacheKey : row'[t].reservation \notin hist'.absentIn[k]
         /\ \A u \in Threads \ {t} : InFlight(row'[u]) => row'[u].reservation # row'[t].reservation
<1>1. /\ cache.nextReservation \in Nat /\ cache'.nextReservation \in Nat
      /\ cache.nextReservation <= cache'.nextReservation
  <2>1. cache.nextReservation \in Nat
    BY DEF IInv, TypeOK, CacheTypeOK
  <2> QED BY <2>1, ReservationCounter
<1>2. \A u \in Threads : row[u].reservation \in Nat
  BY DEF IInv, TypeOK, RowTypeOK
<1>3. ASSUME NEW u \in Threads, NEW v \in Threads, StartRefresh(u), StartRefresh(v) PROVE u = v
  <2>1. SUFFICES ASSUME u # v PROVE FALSE
    OBVIOUS
  <2>2. row'[v] = row[v]
    BY <1>3, <2>1, ActingThread DEF Begin, IInv
  <2>3. row[v].pc = "Ready"
    BY <1>3 DEF StartRefresh, WantsRefresh, HasMutex
  <2>4. row'[v].pc = "Fetching"
    <3>1. ASSUME NEW c, NEW mode, NEW prior, NEW reservation, Fetch(v, c, mode, prior, reservation)
          PROVE  row'[v].pc = "Fetching"
      BY <3>1 DEF Fetch, IInv, TypeOK, RowTypeOK
    <3> QED BY <1>3, <3>1 DEF StartRefresh
  <2> QED BY <2>2, <2>3, <2>4
<1>4. CASE StartRefresh(t) /\ row'[t].reservation = cache.nextReservation
  <2>1. cache'.nextReservation = cache.nextReservation + 1 /\ hist'.absentIn = hist.absentIn
    BY <1>4, StartTakesTicket
  <2>2. ASSUME NEW k \in CacheKey PROVE row'[t].reservation \notin hist'.absentIn[k]
    BY <1>1, <1>4, <2>1 DEF AbsenceInv
  <2>3. ASSUME NEW u \in Threads \ {t}, InFlight(row'[u])
        PROVE  row'[u].reservation # row'[t].reservation
    <3>1. ~StartRefresh(u)
      BY <1>3, <1>4
    <3>2. InFlight(row[u]) /\ row'[u].reservation = row[u].reservation
      BY <2>3, <3>1, FlightSteps
    <3>3. row[u].reservation < cache.nextReservation
      BY <3>2 DEF AbsenceInv
    <3> QED BY <1>1, <1>2, <1>4, <3>2, <3>3
  <2> QED BY <1>1, <1>4, <2>1, <2>2, <2>3
<1>5. CASE InFlight(row[t]) /\ row'[t].reservation = row[t].reservation
  <2>1. row[t].reservation < cache'.nextReservation
    BY <1>1, <1>2, <1>5 DEF AbsenceInv
  <2>2. ASSUME NEW k \in CacheKey PROVE row[t].reservation \notin hist'.absentIn[k]
    <3>0. row[t].reservation \notin hist.absentIn[k]
      BY <1>5 DEF AbsenceInv
    <3>1. ASSUME NEW u \in Threads, NEW kid \in Kids, IngestKid(u, kid)
          PROVE  hist'.absentIn[k] \subseteq hist.absentIn[k]
      BY <3>1, IngestAbsences
    <3>2. ASSUME NEW u \in Threads,
                 TargetAbsent(u) \/ TargetUnusable(u) \/ TargetCommitted(u) \/ TargetSuperseded(u)
          PROVE  /\ hist'.absentIn[k] \subseteq hist.absentIn[k] \cup {row[u].reservation}
                 /\ row[u].reservation # row[t].reservation
      <4>1. /\ hist'.absentIn[k] \subseteq hist.absentIn[k] \cup {row[u].reservation}
            /\ row'[u].pc = "Ingesting" /\ InFlight(row[u])
        BY <3>2, TargetAbsences
      <4>2. u # t
        BY <4>1 DEF InFlight
      <4> QED BY <1>5, <4>1, <4>2 DEF AbsenceInv
    <3> QED BY <3>0, <3>1, <3>2, AbsenceSteps
  <2>3. ASSUME NEW u \in Threads \ {t}, InFlight(row'[u])
        PROVE  row'[u].reservation # row[t].reservation
    <3>1. CASE InFlight(row[u]) /\ row'[u].reservation = row[u].reservation
      BY <1>5, <3>1 DEF AbsenceInv
    <3>2. CASE row'[u].reservation = cache.nextReservation
      <4>1. row[t].reservation < cache.nextReservation
        BY <1>5 DEF AbsenceInv
      <4> QED BY <1>1, <1>2, <3>2, <4>1
    <3> QED BY <2>3, <3>1, <3>2, FlightSteps
  <2> QED BY <1>5, <2>1, <2>2, <2>3
<1> QED BY <1>4, <1>5, FlightSteps

\* A kid marked for eviction stays corroborated until it is erased.
LEMMA MarksCorroborated ==
  ASSUME IInv, KeyInv, AbsenceInv, Next, NEW t \in Threads, NEW k \in row'[t].evict
  PROVE  Cardinality(hist'.absentIn[k]) >= 2
<1>0. KeyInv' /\ IInv'
  BY NextKeyInv, NextIInv
<1>1. k \in CacheKey
  BY <1>0 DEF IInv, TypeOK, RowTypeOK
<1>2. CASE TargetAbsent(t) \/ TargetUnusable(t) \/ TargetCommitted(t) \/ TargetSuperseded(t)
  BY <1>1, <1>2, TargetAbsences
<1>3. CASE row'[t].evict \subseteq row[t].evict
  <2>1. k \in row[t].evict /\ Cardinality(hist.absentIn[k]) >= 2
    BY <1>3 DEF AbsenceInv
  <2>2. row[t].pc = "Ingesting"
    BY <2>1 DEF KeyInv, RowKeysOK
  <2>3. mu = t /\ mu # Free
    BY <2>2, ValidatorAssumption DEF IInv, TypeOK, Free
  <2>4. ASSUME NEW u \in Threads,
               TargetAbsent(u) \/ TargetUnusable(u) \/ TargetCommitted(u) \/ TargetSuperseded(u)
        PROVE  FALSE
    BY <2>3, <2>4 DEF TargetAbsent, TargetUnusable, TargetCommitted, TargetSuperseded, Refreshed, Resumes
  <2>5. ASSUME NEW u \in Threads, NEW kid \in Kids, IngestKid(u, kid) PROVE FALSE
    <3>1. row[u].pc = "Ingesting" /\ row[u].evict = {}
      BY <2>5 DEF IngestKid
    <3>2. u = t
      BY <2>3, <3>1 DEF IInv, TypeOK
    <3> QED BY <2>1, <3>1, <3>2
  <2> QED BY <2>1, <2>4, <2>5, AbsenceSteps
<1> QED BY <1>2, <1>3, EvictionMarks

\* The invariant holds initially and every step preserves it.
LEMMA InitAbsenceInv == Init => AbsenceInv
<1> SUFFICES ASSUME Init PROVE AbsenceInv
  OBVIOUS
<1>1. hist.absentIn = [k \in CacheKey |-> {}] /\ cache = EmptyCache(StartupMinRefreshS)
  BY DEF Init
<1>2. \A t \in Threads : row[t].pc = "Idle" /\ row[t].evict = {}
  BY DEF Init, IdleRow
<1>3. IsFiniteSet({}) /\ Cardinality({}) = 0
  BY FS_EmptySet
<1>4. \A k \in CacheKey : cache.entry[k].absent = 0
  BY <1>1 DEF EmptyCache, NoEntry
<1> QED BY <1>1, <1>2, <1>3, <1>4 DEF AbsenceInv, InFlight

\* And every step keeps it.
LEMMA NextAbsenceInv == IInv /\ KeyInv /\ AbsenceInv /\ [Next]_vars => AbsenceInv'
<1>1. ASSUME AbsenceInv, UNCHANGED vars PROVE AbsenceInv'
  BY <1>1 DEF vars, AbsenceInv, InFlight
<1>2. ASSUME IInv, KeyInv, AbsenceInv, Next PROVE AbsenceInv'
  <2>1. /\ DOMAIN hist'.absentIn = CacheKey
        /\ \A k \in CacheKey :
              /\ IsFiniteSet(hist'.absentIn[k])
              /\ cache'.entry[k].absent <= Cardinality(hist'.absentIn[k])
              /\ \A n \in hist'.absentIn[k] : n \in Nat /\ n < cache'.nextReservation
    BY <1>2, CountsCovered
  <2>2. \A t \in Threads : InFlight(row'[t]) =>
         /\ row'[t].reservation < cache'.nextReservation
         /\ \A k \in CacheKey : row'[t].reservation \notin hist'.absentIn[k]
         /\ \A u \in Threads \ {t} : InFlight(row'[u]) => row'[u].reservation # row'[t].reservation
    BY <1>2, FlightsDistinct
  <2>3. \A t \in Threads : \A k \in row'[t].evict : Cardinality(hist'.absentIn[k]) >= 2
    BY <1>2, MarksCorroborated
  <2> QED BY <2>1, <2>2, <2>3 DEF AbsenceInv
<1> QED BY <1>1, <1>2

\* A kid leaves the cache only for lack of room, or because the documents of
\* two refreshes with different reservations did not list it.
THEOREM EvictionsCorroborated == Spec => EvictionCorroborated
<1> DEFINE Evicts == \A k \in cache.hits \ cache'.hits :
       \/ Cardinality(cache.hits) = MaxEntries /\ cache'.hits \ cache.hits # {}
       \/ Cardinality(hist'.absentIn[k]) >= 2
<1>1. IInv /\ KeyInv /\ AbsenceInv /\ [Next]_vars => [Evicts]_vars
  <2> SUFFICES ASSUME IInv, KeyInv, AbsenceInv, Next, NEW k \in cache.hits \ cache'.hits
               PROVE  \/ Cardinality(cache.hits) = MaxEntries /\ cache'.hits \ cache.hits # {}
                      \/ Cardinality(hist'.absentIn[k]) >= 2
    OBVIOUS
  <2>1. k \in CacheKey
    BY DEF KeyInv, Shape, CacheTypeOK
  <2>2. PICK t \in Threads : Applies(t)
    BY QuietKeys DEF SameKeys
  <2>3. CASE TargetAbsent(t) \/ TargetUnusable(t) \/ TargetCommitted(t) \/ TargetSuperseded(t)
    BY <2>1, <2>3, TargetAbsences
  <2>4. ASSUME NEW j \in CacheKey, EvictAbsent(t, j) PROVE Cardinality(hist'.absentIn[k]) >= 2
    BY <2>4, EvictAbsences
  <2>5. ASSUME NEW kid \in Kids, IngestKid(t, kid)
        PROVE  Cardinality(cache.hits) = MaxEntries /\ cache'.hits \ cache.hits # {}
    BY <2>5, IngestAbsences
  <2> QED BY <2>2, <2>3, <2>4, <2>5 DEF Applies
<1>2. QED BY <1>1, InitAbsenceInv, NextAbsenceInv, KeyInvariant, PTL DEF Spec, EvictionCorroborated

(***************************************************************************)
(* Cold fetches: a usable kid is not put on the negative list.              *)
(***************************************************************************)
Listed(d) == {kid \in Kids : d[kid] # <<>>}

\* Documents are finite, those on their way too.
DocsFinite ==
  /\ \A uri \in Uris : IsFiniteSet(Listed(published[uri]))
  /\ \A t \in Threads : IsFiniteSet(Listed(row[t].resp.doc))

\* The kids present in a finite document.
LEMMA PresentFinite ==
  ASSUME NEW d \in [Kids -> Seq(Keys)], IsFiniteSet(Listed(d))
  PROVE  IsFiniteSet(PresentKids(d)) /\ Cardinality(PresentKids(d)) \in Nat
<1>1. ASSUME NEW kid \in PresentKids(d) PROVE kid \in Listed(d)
  <2> DEFINE s == d[kid]
             I == {i \in DOMAIN s : s[i] \in SigKeys}
  <2>1. kid \in Kids /\ SubSeqAt(s, I) # <<>> /\ s \in Seq(Keys)
    BY DEF PresentKids, GroupSigningKeysByKid
  <2>2. SUFFICES ASSUME s = <<>> PROVE FALSE
    BY <2>1 DEF Listed
  <2>3. I = {}
    BY <2>2
  <2> HIDE DEF s, I
  <2>4. {} \in SUBSET (DOMAIN s)
    OBVIOUS
  <2>5. SubSeqAt(s, {}) \in Seq(Keys) /\ Len(SubSeqAt(s, {})) = 0
    BY <2>1, <2>4, SubSeqAtIs, FS_EmptySet
  <2> QED BY <2>1, <2>3, <2>5, SeqFacts
<1> QED BY <1>1, FS_Subset, FS_CardinalityType

\* Where a row's document comes from.
LEMMA DocSteps ==
  ASSUME IInv, Next, NEW t \in Threads
  PROVE  \/ row'[t].resp.doc = row[t].resp.doc \/ row'[t].resp.doc = NoDocument
         \/ row'[t].resp.doc = published[row[t].key[1]]
<1>0. RowTypeOK(row[t]) /\ t \in DOMAIN row /\ IdleRow.resp.doc = NoDocument
  BY DEF IInv, TypeOK, IdleRow, NoResponse
<1>1. CASE row'[t] = row[t]
  BY <1>1
<1>2. CASE row'[t] # row[t]
  <2>1. ~Environment
    BY <1>2 DEF Environment, Tick, Publish, Reconfigure
  <2>2. PICK u \in Threads : Caller(u) \/ Begin(u) \/ Http(u) \/ Resume(u) \/ Ingest(u)
    BY <2>1 DEF Next
  <2>3. u = t
    BY <1>2, <2>2, ActingThread DEF IInv
  <2>4. ASSUME NEW result, NEW reason, Return(t, result, reason) PROVE row'[t].resp.doc = NoDocument
    BY <1>0, <2>4, IdleRowTypeOK DEF Return, RowTypeOK
  <2>5. CASE Caller(t)
    <3>1. ASSUME NEW uri, NEW tok, NEW now, Present(t, uri, tok, now) PROVE row'[t].resp.doc = NoDocument
      BY <1>0, <3>1, IdleRowTypeOK DEF Present, RowTypeOK
    <3>2. FinishChunk(t) => row'[t].resp.doc = NoDocument
      BY <1>0, IdleRowTypeOK DEF FinishChunk
    <3> QED BY <2>5, <3>1, <3>2 DEF Caller, StartChunk, NextRow
  <2>6. CASE Begin(t)
    <3>1. ASSUME NEW c, NEW mode, NEW prior, NEW reservation, Fetch(t, c, mode, prior, reservation)
          PROVE  row'[t].resp = row[t].resp
      BY <1>0, <3>1 DEF Fetch, RowTypeOK
    <3> QED BY <2>4, <2>6, <3>1 DEF Begin, RejectEarly, AcceptCached, ThrottleRefresh, RejectMiss,
            StartRefresh, StartColdFetch
  <2>7. CASE Http(t)
    <3>1. ASSUME NEW resp, Respond(t, resp) PROVE row'[t].resp = resp
      BY <1>0, <3>1 DEF Respond, RowTypeOK
    <3>2. HttpFailed.doc = NoDocument /\ \A d : Http200(d).doc = d
      BY DEF HttpFailed, Http200
    <3>3. CASE Answer(t)
      BY <3>1, <3>2, <3>3 DEF Answer
    <3>4. CASE AttemptFails(t)
      <4>1. row' = [row EXCEPT ![t].attempt = @ + 1] => row'[t].resp = row[t].resp
        BY <1>0 DEF RowTypeOK
      <4> QED BY <3>1, <3>2, <3>4, <4>1 DEF AttemptFails
    <3> QED BY <2>7, <3>3, <3>4 DEF Http
  <2>8. CASE Resume(t)
    <3>1. ASSUME NEW c, NEW verified, NEW reason, Reconcile(t, c, verified, reason)
          PROVE  row'[t].resp = row[t].resp
      BY <1>0, <3>1 DEF Reconcile, RowTypeOK
    <3>2. ColdFetchOk(t) => row'[t].resp = row[t].resp
      BY <1>0 DEF ColdFetchOk, RowTypeOK
    <3> QED BY <2>4, <2>8, <3>1, <3>2 DEF Resume, ColdFetchFailed, RefreshFailed, TargetAbsent,
            TargetUnusable, TargetCommitted, TargetSuperseded
  <2>9. CASE Ingest(t)
    <3>1. row[t].pc = "Ingesting" /\ TypeOK
      BY <2>9, ActingThread DEF IInv
    <3>2. ASSUME NEW k \in CacheKey, EvictAbsent(t, k) PROVE row'[t].resp = row[t].resp
      BY <1>0, <3>2 DEF EvictAbsent, RowTypeOK
    <3>3. ASSUME NEW kid \in Kids, IngestKid(t, kid) PROVE row'[t].resp = row[t].resp
      BY <1>0, <3>3 DEF IngestKid, RowTypeOK
    <3> QED BY <2>4, <2>9, <3>2, <3>3 DEF Ingest, FinishCold, FinishRefresh
  <2> QED BY <2>2, <2>3, <2>5, <2>6, <2>7, <2>8, <2>9
<1> QED BY <1>1, <1>2

\* Documents stay finite.
LEMMA DocsFiniteInvariant == Spec => []DocsFinite
<1>0. IsFiniteSet(Listed(NoDocument))
  <2>1. Listed(NoDocument) = {}
    BY DEF Listed, NoDocument
  <2> QED BY <2>1, FS_EmptySet
<1>1. Init => DocsFinite
  <2> SUFFICES ASSUME Init PROVE DocsFinite
    OBVIOUS
  <2>1. \A d \in Documents : IsFiniteSet(Listed(d))
    BY ValidatorAssumption DEF Listed
  <2>2. \A uri \in Uris : published[uri] \in Documents
    BY DEF Init
  <2>3. \A t \in Threads : row[t].resp.doc = NoDocument
    BY DEF Init, IdleRow, NoResponse
  <2> QED BY <1>0, <2>1, <2>2, <2>3 DEF DocsFinite
<1>2. IInv /\ KeyInv /\ DocsFinite /\ [Next]_vars => DocsFinite'
  <2> SUFFICES ASSUME IInv, KeyInv, DocsFinite, [Next]_vars PROVE DocsFinite'
    OBVIOUS
  <2>1. CASE UNCHANGED vars
    BY <2>1 DEF vars, DocsFinite
  <2>2. CASE Next
    <3>1. ASSUME NEW uri \in Uris PROVE published'[uri] = published[uri] \/ published'[uri] \in Documents
      <4>1. ASSUME NEW v \in Uris, NEW d \in Documents, Publish(v, d)
            PROVE  published'[uri] = published[uri] \/ published'[uri] \in Documents
        BY <4>1 DEF Publish, KeyInv, ProviderOK
      <4>2. CASE Environment
        BY <4>1, <4>2 DEF Environment, Tick, Reconfigure, env
      <4>3. ASSUME NEW t \in Threads, Caller(t) \/ Begin(t) \/ Http(t) \/ Resume(t) \/ Ingest(t)
            PROVE  published' = published
        <5>1. Caller(t) \/ Begin(t) \/ Http(t) => published' = published
          BY DEF Caller, StartChunk, NextRow, FinishChunk, Present, Begin, RejectEarly, AcceptCached,
             ThrottleRefresh, StartRefresh, RejectMiss, StartColdFetch, Fetch, Http, Answer, AttemptFails,
             Respond, env
        <5>2. Resume(t) => published' = published
          BY DEF Resume, ColdFetchFailed, ColdFetchOk, RefreshFailed, TargetAbsent, TargetUnusable,
             TargetCommitted, TargetSuperseded, Reconcile, env
        <5>3. Ingest(t) => published' = published
          BY DEF Ingest, EvictAbsent, IngestKid, FinishCold, FinishRefresh, env
        <5> QED BY <4>3, <5>1, <5>2, <5>3
      <4> QED BY <2>2, <4>2, <4>3 DEF Next
    <3>2. \A d \in Documents : IsFiniteSet(Listed(d))
      BY ValidatorAssumption DEF Listed
    <3>3. \A t \in Threads : row[t].key[1] \in Uris
      BY RowKey DEF IInv, Uri
    <3>4. ASSUME NEW t \in Threads PROVE IsFiniteSet(Listed(row'[t].resp.doc))
      BY <1>0, <2>2, <3>3, DocSteps DEF DocsFinite
    <3> QED BY <3>1, <3>2, <3>4 DEF DocsFinite
  <2> QED BY <2>1, <2>2
<1> QED BY <1>1, <1>2, KeyInvariant, PTL DEF Spec

\* What an insertion does to the order of the list.
LEMMA InsertedOrder ==
  ASSUME NEW c, Shape(c), NEW d, NEW k \in CacheKey \ c.hits, Inserted(c, d, k)
  PROVE  /\ Len(c.hitLru) \in Nat /\ Cardinality(c.hits) = Len(c.hitLru)
         /\ Len(d.hitLru) = IF Cardinality(c.hits) = MaxEntries THEN MaxEntries ELSE Len(c.hitLru) + 1
         /\ d.hitLru[1] = k
         /\ \A i \in 1..Len(c.hitLru) : i + 1 <= Len(d.hitLru) => d.hitLru[i + 1] = c.hitLru[i]
<1> DEFINE p == PushFront(c.hitLru, k)
           n == Len(c.hitLru)
<1>1. n \in Nat /\ Cardinality(c.hits) = n /\ c.hitLru \in Seq(CacheKey) /\ n <= MaxEntries
  BY HitsCounted DEF Shape, Lists
<1>2. p \in Seq(CacheKey) /\ Len(p) = n + 1 /\ p[1] = k /\ \A i \in 1..n : p[i + 1] = c.hitLru[i]
  <2>1. <<k>> \in Seq(CacheKey) /\ Len(<<k>>) = 1 /\ <<k>>[1] = k
    OBVIOUS
  <2>2. p = <<k>> \o c.hitLru
    BY DEF PushFront
  <2>3. p \in Seq(CacheKey) /\ Len(p) = 1 + n
    BY <1>1, <2>1, <2>2, ConcatProperties
  <2>4. p[1] = k
    BY <1>1, <2>1, <2>2
  <2>5. ASSUME NEW i \in 1..n PROVE p[i + 1] = c.hitLru[i]
    <3>1. p[i + 1] = c.hitLru[(i + 1) - 1]
      BY <1>1, <2>1, <2>2, <2>5
    <3>2. (i + 1) - 1 = i
      BY <1>1, <2>5
    <3> QED BY <3>1, <3>2
  <2> QED BY <1>1, <2>3, <2>4, <2>5
<1> HIDE DEF p
<1>3. CASE Cardinality(c.hits) < MaxEntries
  BY <1>1, <1>2, <1>3, CacheAssumption DEF Inserted, p
<1>4. CASE Cardinality(c.hits) = MaxEntries
  <2>1. d.hitLru = Front(p)
    BY <1>4, CacheAssumption DEF Inserted, p
  <2>2. Front(p) = SubSeq(p, 1, n)
    <3>1. Front(p) = SubSeq(p, 1, Len(p) - 1)
      BY DEF Front
    <3>2. Len(p) - 1 = n
      BY <1>1, <1>2
    <3> QED BY <3>1, <3>2
  <2>3. Len(SubSeq(p, 1, n)) = n /\ \A i \in 1..n : SubSeq(p, 1, n)[i] = p[i]
    BY <1>1, <1>2
  <2>4. n = MaxEntries /\ n >= 1
    BY <1>1, <1>4, CacheAssumption
  <2>5. d.hitLru[1] = k
    BY <1>1, <1>2, <2>1, <2>2, <2>3, <2>4
  <2>6. ASSUME NEW i \in 1..n, i + 1 <= n PROVE d.hitLru[i + 1] = c.hitLru[i]
    <3>1. i + 1 \in 1..n
      BY <1>1, <2>6
    <3>2. d.hitLru[i + 1] = p[i + 1]
      BY <2>1, <2>2, <2>3, <3>1
    <3> QED BY <1>2, <3>2
  <2> QED BY <1>1, <1>4, <2>1, <2>2, <2>3, <2>4, <2>5, <2>6
<1> QED BY <1>1, <1>3, <1>4 DEF Inserted

\* A full cache of kids of one document, and one more of its kids: the
\* document is larger than the cache.
LEMMA DocumentTooLarge ==
  ASSUME NEW c, Shape(c), Cardinality(c.hits) = MaxEntries, NEW uri, NEW P, IsFiniteSet(P),
         NEW j \in CacheKey \ c.hits, j[1] = uri, j[2] \in P,
         \A k \in c.hits : k[1] = uri /\ k[2] \in P
  PROVE  Cardinality(P) > MaxEntries
<1> DEFINE S == c.hits \cup {j}
           f == [k \in S |-> k[2]]
<1>1. IsFiniteSet(c.hits) /\ c.hits \subseteq CacheKey
  BY HitsCounted DEF Shape, CacheTypeOK
<1>2. IsFiniteSet(S) /\ Cardinality(S) = MaxEntries + 1
  BY <1>1, FS_AddElement
<1>3. \A k, l \in S : k[2] = l[2] => k = l
  BY <1>1 DEF CacheKey
<1>4. f \in Injection(S, P)
  <2>1. f \in [S -> P]
    OBVIOUS
  <2>2. \A k, l \in S : f[k] = f[l] => k = l
    BY <1>3
  <2> HIDE DEF f, S
  <2> QED BY <2>1, <2>2 DEF Injection, IsInjective
<1> HIDE DEF f, S
<1>5. Cardinality(S) <= Cardinality(P) /\ Cardinality(P) \in Nat
  BY <1>4, FS_Injection, FS_CardinalityType
<1> QED BY <1>2, <1>5, CacheAssumption

\* The kids of the row's document that are already in the cache.
DoneKids(r) == {kid \in Kids : Usable(r.resp.doc, kid) # <<>>} \ r.todo

\* In the LRU list only kids in S stand before k.
Precedes(c, k, S) ==
  \E p \in 1..Len(c.hitLru) :
    /\ c.hitLru[p] = k
    /\ \A i \in 1..Len(c.hitLru) : i < p => c.hitLru[i][1] = k[1] /\ c.hitLru[i][2] \in S

\* A cold fetch in the middle of its document.  Its own kid, once ingested, is
\* cached or the cache is full; if nobody had cached it before, only kids
\* ingested later stand before it, so a document that fits leaves it cached.
ColdRowOK(r, c, cold) ==
  /\ r.key[2] \in DoneKids(r) => r.key \in c.hits \/ Cardinality(c.hits) = MaxEntries
  /\ cold /\ r.key[2] \notin DoneKids(r) => r.key \notin c.hits
  /\ cold /\ r.key[2] \in DoneKids(r) /\ Cardinality(PresentKids(r.resp.doc)) <= MaxEntries =>
       Precedes(c, r.key, DoneKids(r))

ColdInv ==
  \A t \in Threads : row[t].pc = "Ingesting" /\ row[t].mode = "Cold" =>
    ColdRowOK(row[t], cache, t \in hist.cold)

\* One kid of a cold document goes into the cache.
LEMMA ColdIngest ==
  ASSUME IInv, KeyInv, DocsFinite, NEW t \in Threads, row[t].mode = "Cold",
         ColdRowOK(row[t], cache, t \in hist.cold), NEW kid \in Kids, IngestKid(t, kid)
  PROVE  ColdRowOK(row'[t], cache', t \in hist'.cold)
<1> DEFINE j == <<Uri(t), kid>>
           k == row[t].key
           doc == row[t].resp.doc
           D == DoneKids(row[t])
           E == DoneKids(row'[t])
           cold == t \in hist.cold
<1>1. /\ k \in CacheKey /\ k[1] = Uri(t) /\ k[2] = Kid(t) /\ k = <<Uri(t), Kid(t)>> /\ Uri(t) \in Uris
      /\ RowTypeOK(row[t]) /\ RowKeysOK(row[t], hist.listed) /\ Shape(cache)
  BY RowKey DEF IInv, TypeOK, RowTypeOK, KeyInv, Uri, Kid
<1>2. /\ row'[t].key = k /\ row'[t].resp = row[t].resp /\ row'[t].todo = row[t].todo \ {kid}
      /\ hist'.cold = hist.cold /\ kid \in row[t].todo
  BY <1>1 DEF IngestKid, IInv, TypeOK, RowTypeOK, HistTypeOK
<1>3. Usable(doc, kid) # <<>>
  BY <1>1, <1>2 DEF RowKeysOK
<1>4. E = D \cup {kid} /\ kid \notin D
  BY <1>2, <1>3 DEF DoneKids
<1>5. D \cup {kid} \subseteq PresentKids(doc)
  BY <1>1, <1>3, UsablePresent DEF DoneKids, RowKeysOK
<1>6. IsFiniteSet(PresentKids(doc)) /\ Cardinality(PresentKids(doc)) \in Nat
  BY <1>1, PresentFinite DEF DocsFinite, RowKeysOK
<1>7. /\ j \in CacheKey /\ Shape(cache') /\ j \in cache'.hits
      /\ j \in cache.hits => /\ cache'.hits = cache.hits /\ cache'.hitLru = cache.hitLru
      /\ j \notin cache.hits => Inserted(cache, cache', j)
  BY IngestCache
<1>8. j = k <=> kid = Kid(t)
  BY <1>1
<1>9. j[1] = Uri(t) /\ j[2] = kid
  OBVIOUS
<1> HIDE DEF j, D, E
<1>10. /\ IsFiniteSet(cache.hits) /\ Cardinality(cache.hits) = Len(cache.hitLru) /\ Len(cache.hitLru) \in Nat
       /\ Cardinality(cache.hits) <= MaxEntries
       /\ Cardinality(cache'.hits) = Len(cache'.hitLru) /\ Len(cache'.hitLru) \in Nat
       /\ cache.hitLru \in Seq(CacheKey) /\ cache.hits = ToSet(cache.hitLru)
  BY <1>1, <1>7, HitsCounted DEF Shape, Lists
<1>11. /\ Kid(t) \in D => k \in cache.hits \/ Cardinality(cache.hits) = MaxEntries
       /\ cold /\ Kid(t) \notin D => k \notin cache.hits
       /\ cold /\ Kid(t) \in D /\ Cardinality(PresentKids(doc)) <= MaxEntries => Precedes(cache, k, D)
  BY <1>1 DEF ColdRowOK, D
<1>12. SUFFICES /\ Kid(t) \in E => k \in cache'.hits \/ Cardinality(cache'.hits) = MaxEntries
                /\ cold /\ Kid(t) \notin E => k \notin cache'.hits
                /\ cold /\ Kid(t) \in E /\ Cardinality(PresentKids(doc)) <= MaxEntries => Precedes(cache', k, E)
  BY <1>1, <1>2 DEF ColdRowOK, E
<1>13. CASE j \in cache.hits
  <2>1. cache'.hits = cache.hits /\ cache'.hitLru = cache.hitLru
    BY <1>7, <1>13
  <2>2. ASSUME Precedes(cache, k, D) PROVE Precedes(cache', k, E)
    BY <1>4, <2>1, <2>2 DEF Precedes
  <2>3. kid = Kid(t) => k \in cache.hits /\ ~cold
    BY <1>4, <1>8, <1>11, <1>13
  <2> QED BY <1>4, <1>11, <2>1, <2>2, <2>3
<1>14. CASE j \notin cache.hits
  <2> DEFINE l == cache.hitLru
             m == cache'.hitLru
  <2>0. Inserted(cache, cache', j) /\ j \in CacheKey \ cache.hits
    BY <1>7, <1>14
  <2>1. /\ Len(m) = IF Cardinality(cache.hits) = MaxEntries THEN MaxEntries ELSE Len(l) + 1
        /\ m[1] = j
        /\ \A i \in 1..Len(l) : i + 1 <= Len(m) => m[i + 1] = l[i]
    BY <1>1, <2>0, InsertedOrder
  <2>2. CASE kid = Kid(t)
    <3>1. k \in cache'.hits /\ Kid(t) \in E
      BY <1>4, <1>7, <1>8, <2>2
    <3>2. 1 \in 1..Len(m)
      BY <1>10, <2>1, CacheAssumption
    <3>3. Precedes(cache', k, E)
      BY <1>8, <2>1, <2>2, <3>2 DEF Precedes
    <3> QED BY <3>1, <3>3
  <2>3. CASE kid # Kid(t)
    <3>0. Kid(t) \in E <=> Kid(t) \in D
      BY <1>4, <2>3
    <3>1. k # j
      BY <1>8, <2>3
    <3>2. k \notin cache.hits => k \notin cache'.hits
      BY <2>0, <3>1 DEF Inserted
    <3>3. Kid(t) \in D => k \in cache'.hits \/ Cardinality(cache'.hits) = MaxEntries
      <4>1. CASE Cardinality(cache.hits) = MaxEntries
        BY <1>10, <2>1, <4>1
      <4>2. CASE Cardinality(cache.hits) # MaxEntries
        BY <1>11, <2>0, <4>2 DEF Inserted
      <4> QED BY <4>1, <4>2
    <3>4. ASSUME cold, Kid(t) \in D, Cardinality(PresentKids(doc)) <= MaxEntries PROVE Precedes(cache', k, E)
      <4>1. PICK p \in 1..Len(l) :
              /\ l[p] = k
              /\ \A i \in 1..Len(l) : i < p => l[i][1] = k[1] /\ l[i][2] \in D
        BY <1>11, <3>4 DEF Precedes
      <4>2. p + 1 <= Len(m)
        <5>1. SUFFICES ASSUME Cardinality(cache.hits) = MaxEntries, p = Len(l) PROVE FALSE
          BY <1>10, <2>1, CacheAssumption
        <5>2. ASSUME NEW h \in cache.hits PROVE h[1] = Uri(t) /\ h[2] \in PresentKids(doc)
          <6>1. PICK i \in 1..Len(l) : l[i] = h
            BY <1>10, SeqFacts
          <6>2. i < p \/ i = p
            BY <1>10, <5>1
          <6> QED BY <1>1, <1>5, <3>4, <4>1, <6>1, <6>2
        <5>3. j[1] = Uri(t) /\ j[2] \in PresentKids(doc)
          BY <1>5, <1>9
        <5>4. Cardinality(PresentKids(doc)) > MaxEntries
          BY <1>1, <1>6, <2>0, <5>1, <5>2, <5>3, DocumentTooLarge
        <5> QED BY <1>6, <3>4, <5>4, CacheAssumption
      <4>3. p + 1 \in 1..Len(m) /\ m[p + 1] = k
        BY <1>10, <2>1, <4>1, <4>2
      <4>4. ASSUME NEW i \in 1..Len(m), i < p + 1 PROVE m[i][1] = k[1] /\ m[i][2] \in E
        <5>1. CASE i = 1
          BY <1>1, <1>4, <1>9, <2>1, <5>1
        <5>2. CASE i # 1
          <6> DEFINE h == i - 1
          <6>1. h \in 1..Len(l) /\ h < p /\ i = h + 1 /\ h + 1 <= Len(m)
            BY <1>10, <4>1, <4>4, <5>2
          <6> HIDE DEF h
          <6>2. m[h + 1] = l[h]
            BY <2>1, <6>1
          <6>3. l[h][1] = k[1] /\ l[h][2] \in D
            BY <4>1, <6>1
          <6> QED BY <1>4, <6>1, <6>2, <6>3
        <5> QED BY <5>1, <5>2
      <4> QED BY <4>3, <4>4 DEF Precedes
    <3> QED BY <1>11, <3>0, <3>2, <3>3, <3>4
  <2> QED BY <2>2, <2>3
<1> QED BY <1>13, <1>14

\* Every step preserves it.
LEMMA NextColdInv == IInv /\ KeyInv /\ DocsFinite /\ ColdInv /\ [Next]_vars => ColdInv'
<1> SUFFICES ASSUME IInv, KeyInv, DocsFinite, ColdInv, [Next]_vars, NEW t \in Threads,
                    row'[t].pc = "Ingesting", row'[t].mode = "Cold"
             PROVE  ColdRowOK(row'[t], cache', t \in hist'.cold)
  BY DEF ColdInv
<1>0. RowTypeOK(row[t]) /\ RowKeysOK(row[t], hist.listed) /\ TypeOK
  BY DEF IInv, TypeOK, KeyInv
<1>1. CASE UNCHANGED vars
  BY <1>1 DEF vars, ColdInv
<1>2. CASE Next /\ row[t].pc # "Ingesting"
  <2>1. ASSUME NEW c, NEW verified, NEW reason, Reconcile(t, c, verified, reason)
        PROVE  row'[t].mode = row[t].mode
    BY <1>0, <2>1 DEF Reconcile, TypeOK, RowTypeOK
  <2>2. ColdFetchOk(t)
    BY <1>2, <2>1, EntersSection DEF TargetAbsent, TargetUnusable, TargetCommitted, TargetSuperseded,
       Refreshed, Resumes
  <2>3. /\ row'[t].key = row[t].key /\ row'[t].resp = row[t].resp
        /\ row'[t].todo = {kid \in Kids : Usable(Doc(t), kid) # <<>>}
    BY <1>0, <2>2 DEF ColdFetchOk, TypeOK, RowTypeOK
  <2>4. DoneKids(row'[t]) = {}
    BY <2>3 DEF DoneKids, Doc
  <2>5. cache'.hits = cache.hits
    <3>1. Uri(t) \in Uris /\ row[t].now \in Nat
      BY <1>0, RowKey DEF RowTypeOK
    <3>2. SameHits(cache, Fetched(t))
      BY <3>1, StampsShape DEF Fetched, KeyInv
    <3> QED BY <2>2, <3>2 DEF ColdFetchOk, Fetched, SameHits
  <2>6. t \in hist'.cold => row[t].key \notin cache.hits
    BY <1>0, <2>2 DEF ColdFetchOk, TypeOK, HistTypeOK
  <2> QED BY <2>3, <2>4, <2>5, <2>6 DEF ColdRowOK
<1>3. CASE Next /\ row[t].pc = "Ingesting"
  <2>1. CASE cache' = cache /\ row'[t] = row[t] /\ hist'.cold = hist.cold
    BY <1>3, <2>1 DEF ColdInv
  <2>2. ASSUME NEW k \in CacheKey, EvictAbsent(t, k) PROVE FALSE
    <3>1. row'[t].mode = row[t].mode /\ k \in row[t].evict
      BY <1>0, <2>2 DEF EvictAbsent, TypeOK, RowTypeOK
    <3> QED BY <1>0, <3>1 DEF RowKeysOK
  <2>3. ASSUME NEW kid \in Kids, IngestKid(t, kid) PROVE ColdRowOK(row'[t], cache', t \in hist'.cold)
    <3>1. row'[t].mode = row[t].mode
      BY <1>0, <2>3 DEF IngestKid, TypeOK, RowTypeOK
    <3>2. ColdRowOK(row[t], cache, t \in hist.cold)
      BY <1>3, <3>1 DEF ColdInv
    <3> QED BY <2>3, <3>1, <3>2, ColdIngest
  <2>4. ~FinishCold(t) /\ ~FinishRefresh(t)
    BY <1>0, <1>3, IngestRow
  <2> QED BY <1>3, <2>1, <2>2, <2>3, <2>4, SectionExclusive DEF Ingest
<1> QED BY <1>1, <1>2, <1>3

\* A cold fetch whose document holds a usable key for its kid leaves the kid
\* cached, except when the cache is full and the document is larger than the
\* cache or somebody else had cached the kid already.
THEOREM UsableKidsKept == Spec => UsableKidNotMissed
<1> DEFINE Kept == \A t \in Threads :
       /\ row[t].pc = "Ingesting" /\ row[t].mode = "Cold" /\ row'[t].pc = "Done"
       /\ Usable(Doc(t), Kid(t)) # <<>>
       => \/ row[t].key \in cache'.hits
          \/ /\ Cardinality(cache.hits) = MaxEntries
             /\ Cardinality(PresentKids(Doc(t))) > MaxEntries \/ t \notin hist.cold
<1>1. Init => ColdInv
  BY IdleRowTypeOK DEF Init, ColdInv
<1>2. IInv /\ KeyInv /\ DocsFinite /\ ColdInv /\ [Next]_vars => [Kept]_vars
  <2> SUFFICES ASSUME IInv, KeyInv, DocsFinite, ColdInv, Next, NEW t \in Threads,
                      row[t].pc = "Ingesting", row[t].mode = "Cold", row'[t].pc = "Done",
                      Usable(Doc(t), Kid(t)) # <<>>
               PROVE  \/ row[t].key \in cache'.hits
                      \/ /\ Cardinality(cache.hits) = MaxEntries
                         /\ Cardinality(PresentKids(Doc(t))) > MaxEntries \/ t \notin hist.cold
    OBVIOUS
  <2>0. /\ RowTypeOK(row[t]) /\ TypeOK /\ RowKeysOK(row[t], hist.listed) /\ Shape(cache)
        /\ row[t].key \in CacheKey /\ row[t].now \in Nat /\ row[t].key[2] = Kid(t) /\ Kid(t) \in Kids
        /\ Doc(t) = row[t].resp.doc
    BY RowKey DEF IInv, TypeOK, RowTypeOK, KeyInv, Kid, Doc
  <2>1. FinishCold(t)
    <3>1. ASSUME NEW k \in CacheKey, EvictAbsent(t, k) PROVE FALSE
      BY <2>0, <3>1, IngestRow DEF RowTypeOK
    <3>2. ASSUME NEW kid \in Kids, IngestKid(t, kid) PROVE FALSE
      BY <2>0, <3>2, IngestRow DEF RowTypeOK
    <3>3. ~FinishRefresh(t)
      BY DEF FinishRefresh, Ingested
    <3> QED BY <3>1, <3>2, <3>3, SectionExclusive DEF Ingest
  <2>2. cache'.hits = cache.hits
    <3>1. SameHits(cache, OnFetchMiss(cache, row[t].key, row[t].now))
      BY <2>0, OnFetchMissShape
    <3> QED BY <2>1, <3>1 DEF FinishCold, SameHits
  <2>3. Kid(t) \in DoneKids(row[t])
    BY <2>0, <2>1 DEF FinishCold, Ingested, DoneKids
  <2>4. ColdRowOK(row[t], cache, t \in hist.cold)
    BY DEF ColdInv
  <2>5. Precedes(cache, row[t].key, DoneKids(row[t])) => row[t].key \in cache.hits
    <3>1. cache.hitLru \in Seq(CacheKey) /\ cache.hits = ToSet(cache.hitLru)
      BY <2>0 DEF Shape, Lists
    <3> QED BY <3>1, SeqFacts DEF Precedes
  <2>6. Cardinality(PresentKids(Doc(t))) \in Nat
    BY <2>0, PresentFinite DEF DocsFinite, RowKeysOK
  <2> QED BY <2>0, <2>2, <2>3, <2>4, <2>5, <2>6, CacheAssumption DEF ColdRowOK
<1>3. QED BY <1>1, <1>2, NextColdInv, DocsFiniteInvariant, KeyInvariant, PTL DEF Spec, UsableKidNotMissed
==============================================================================
