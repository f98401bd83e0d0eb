----------------------------- MODULE CacheProofs -----------------------------
(***************************************************************************)
(* What single operations of the caches do, for every cache of the right    *)
(* type.                                                                    *)
(*                                                                          *)
(* The recency lists of both caches: of a list without duplicates, removal, *)
(* a move to the front and the eviction of the last element neither lose nor*)
(* duplicate any other key, and the length of the list is the size of the   *)
(* map beside it.                                                           *)
(*                                                                          *)
(* The decision cache: each operation keeps the types and the agreement of  *)
(* the index with the list, never extends another token's decision, and     *)
(* keeps a decision within its lifetime and the expiry the provider         *)
(* reported.                                                                *)
(***************************************************************************)
EXTENDS DecisionCache, SequenceTheorems, FiniteSetTheorems, TLAPS

(***************************************************************************)
(* Recency lists.                                                           *)
(***************************************************************************)
\* lru lists the keys of m, a subset of S, each once.
Lists(lru, m, S) == lru \in Seq(S) /\ IsInjective(lru) /\ ToSet(lru) = m

\* A list by its elements.
LEMMA SeqByElements ==
  ASSUME NEW S, NEW n \in Nat, NEW s, DOMAIN s = 1..n, s = [i \in 1..n |-> s[i]],
         \A i \in 1..n : s[i] \in S
  PROVE  s \in Seq(S) /\ Len(s) = n
  OBVIOUS

\* A list without duplicates is as long as the map is large.
LEMMA ListLength ==
  ASSUME NEW S, NEW lru, NEW m, Lists(lru, m, S)
  PROVE  IsFiniteSet(m) /\ Cardinality(m) = Len(lru) /\ Len(lru) \in Nat /\ m \subseteq S
<1>1. Len(lru) \in Nat /\ DOMAIN lru = 1..Len(lru) /\ lru \in [1..Len(lru) -> S]
  BY LenProperties DEF Lists
<1>2. lru \in Bijection(1..Len(lru), m)
  BY <1>1 DEF Lists, ToSet, IsInjective, Bijection, Injection, Surjection
<1>3. ExistsBijection(1..Len(lru), m)
  BY <1>2 DEF ExistsBijection
<1>4. IsFiniteSet(m)
  BY <1>1, <1>3, FS_NatBijection
<1>5. Cardinality(m) = Len(lru)
  BY <1>1, <1>3, FS_CountingElements
<1> QED BY <1>1, <1>4, <1>5 DEF Lists, ToSet

\* The empty list.
LEMMA EmptyList ==
  ASSUME NEW S
  PROVE  Lists(<<>>, {}, S)
  BY DEF Lists, ToSet, IsInjective

\* std::list::push_front of a key that the map did not have.
LEMMA PushFrontLists ==
  ASSUME NEW S, NEW lru, NEW m, Lists(lru, m, S), NEW k \in S, k \notin m
  PROVE  Lists(PushFront(lru, k), m \cup {k}, S)
<1> DEFINE p == <<k>> \o lru
<1>1. lru \in Seq(S) /\ <<k>> \in Seq(S) /\ Len(<<k>>) = 1 /\ <<k>>[1] = k
  BY DEF Lists
<1>2. Len(lru) \in Nat /\ DOMAIN lru = 1..Len(lru)
  BY <1>1, LenProperties
<1>3. /\ p \in Seq(S) /\ Len(p) = Len(lru) + 1
      /\ \A i \in 1..(Len(lru) + 1) : p[i] = IF i = 1 THEN k ELSE lru[i - 1]
  BY <1>1, <1>2, ConcatProperties
<1>4. DOMAIN p = 1..(Len(lru) + 1)
  BY <1>3, LenProperties
<1> HIDE DEF p
<1>5. \A i \in 1..Len(lru) : lru[i] \in m
  BY <1>2 DEF Lists, ToSet
<1>6. IsInjective(p)
  <2> SUFFICES ASSUME NEW x \in 1..(Len(lru) + 1), NEW y \in 1..(Len(lru) + 1), p[x] = p[y]
               PROVE  x = y
    BY <1>4 DEF IsInjective
  <2>1. \A i, j \in 1..Len(lru) : lru[i] = lru[j] => i = j
    BY <1>2 DEF Lists, IsInjective
  <2>2. \A i \in 1..(Len(lru) + 1) : i # 1 => i - 1 \in 1..Len(lru) /\ p[i] = lru[i - 1]
    BY <1>2, <1>3
  <2>3. p[1] = k
    BY <1>2, <1>3
  <2>4. CASE x = 1 \/ y = 1
    BY <1>5, <2>2, <2>3, <2>4
  <2>5. CASE x # 1 /\ y # 1
    <3>1. x - 1 = y - 1
      BY <2>1, <2>2, <2>5
    <3> QED BY <1>2, <3>1
  <2> QED BY <2>4, <2>5
<1>7. ToSet(p) = m \cup {k}
  <2>1. ASSUME NEW x \in m PROVE x \in ToSet(p)
    <3>1. PICK i \in 1..Len(lru) : lru[i] = x
      BY <1>2, <2>1 DEF Lists, ToSet
    <3>2. i + 1 \in 1..(Len(lru) + 1) /\ p[i + 1] = x
      BY <1>2, <1>3, <3>1
    <3> QED BY <1>4, <3>2 DEF ToSet
  <2>2. 1 \in 1..(Len(lru) + 1) /\ p[1] = k
    BY <1>2, <1>3
  <2>3. k \in ToSet(p)
    BY <1>4, <2>2 DEF ToSet
  <2>4. ASSUME NEW x \in ToSet(p) PROVE x \in m \cup {k}
    BY <1>2, <1>3, <1>4, <1>5, <2>4 DEF ToSet
  <2> QED BY <2>1, <2>3, <2>4
<1> QED BY <1>3, <1>6, <1>7 DEF Lists, PushFront, p

\* std::list::erase through the iterator that the map element holds.
LEMMA RemoveFirstLists ==
  ASSUME NEW S, NEW lru, NEW m, Lists(lru, m, S), NEW k
  PROVE  Lists(RemoveFirst(lru, k), m \ {k}, S)
<1>1. lru \in Seq(S) /\ Len(lru) \in Nat /\ DOMAIN lru = 1..Len(lru) /\ \A i \in 1..Len(lru) : lru[i] \in S
  BY LenProperties, ElementOfSeq DEF Lists
<1>2. CASE ~\E i \in 1..Len(lru) : lru[i] = k
  <2>1. RemoveFirst(lru, k) = lru
    BY <1>2 DEF RemoveFirst
  <2>2. k \notin m
    BY <1>1, <1>2 DEF Lists, ToSet
  <2> QED BY <2>1, <2>2 DEF Lists
<1>3. CASE \E i \in 1..Len(lru) : lru[i] = k
  <2>1. PICK i \in 1..Len(lru) : lru[i] = k
    BY <1>3
  <2>2. {j \in 1..Len(lru) : lru[j] = k} = {i}
    BY <1>1, <2>1 DEF Lists, IsInjective
  <2>3. SelectInSeq(lru, LAMBDA v : v = k) = i
    BY <2>1, <2>2 DEF SelectInSeq, Min
  <2> DEFINE a == SubSeq(lru, 1, i - 1)
             b == SubSeq(lru, i + 1, Len(lru))
             r == a \o b
  <2>4. RemoveFirst(lru, k) = r
    BY <1>3, <2>3 DEF RemoveFirst, RemoveAt
  <2>5. a \in Seq(S) /\ Len(a) = i - 1 /\ \A j \in 1..(i - 1) : a[j] = lru[j]
    <3>1. 1 \in Int /\ i - 1 \in Int /\ \A j \in 1..(i - 1) : lru[j] \in S
      BY <1>1, <2>1
    <3> QED BY <1>1, <2>1, <3>1, SubSeqProperties
  <2>6. b \in Seq(S) /\ Len(b) = Len(lru) - i /\ \A j \in 1..(Len(lru) - i) : b[j] = lru[i + j]
    <3>1. i + 1 \in Int /\ Len(lru) \in Int /\ \A j \in (i + 1)..Len(lru) : lru[j] \in S
      BY <1>1, <2>1
    <3>2. /\ b \in Seq(S) /\ Len(b) = IF i + 1 <= Len(lru) THEN Len(lru) - (i + 1) + 1 ELSE 0
          /\ \A j \in 1..(Len(lru) - (i + 1) + 1) : b[j] = lru[i + 1 + j - 1]
      BY <3>1, SubSeqProperties
    <3> HIDE DEF b
    <3>3. Len(b) = Len(lru) - i
      <4> DEFINE n == Len(lru)
                 l == Len(b)
      <4>1. n \in Nat /\ i \in 1..n
        BY <1>1, <2>1
      <4>2. l = IF i + 1 <= n THEN n - (i + 1) + 1 ELSE 0
        BY <3>2
      <4> HIDE DEF n, l
      <4>3. l = n - i
        BY <4>1, <4>2
      <4> QED BY <4>3 DEF n, l
    <3>4. ASSUME NEW j \in 1..(Len(lru) - i) PROVE b[j] = lru[i + j]
      <4>1. j \in 1..(Len(lru) - (i + 1) + 1) /\ i + 1 + j - 1 = i + j
        BY <1>1, <2>1
      <4> QED BY <3>2, <4>1
    <3> QED BY <3>2, <3>3, <3>4
  <2> HIDE DEF a, b
  <2>7. /\ r \in Seq(S) /\ Len(r) = Len(lru) - 1
        /\ \A j \in 1..(Len(lru) - 1) : r[j] = IF j < i THEN lru[j] ELSE lru[j + 1]
    <3>1. /\ r \in Seq(S) /\ Len(r) = Len(a) + Len(b)
          /\ \A j \in 1..(Len(a) + Len(b)) : r[j] = IF j <= Len(a) THEN a[j] ELSE b[j - Len(a)]
      BY <2>5, <2>6, ConcatProperties
    <3> HIDE DEF r
    <3>2. ASSUME NEW j \in 1..(Len(lru) - 1)
          PROVE  r[j] = IF j < i THEN lru[j] ELSE lru[j + 1]
      <4>0. j \in 1..(Len(a) + Len(b)) /\ Len(a) = i - 1 /\ i \in Nat /\ j \in Nat
        BY <1>1, <2>1, <2>5, <2>6
      <4>1. CASE j < i
        <5>1. j <= Len(a) /\ j \in 1..(i - 1)
          BY <4>0, <4>1
        <5>2. r[j] = a[j]
          BY <3>1, <4>0, <5>1
        <5> QED BY <2>5, <4>1, <5>1, <5>2
      <4>2. CASE ~(j < i)
        <5>1. ~(j <= Len(a)) /\ j - Len(a) \in 1..(Len(lru) - i) /\ i + (j - Len(a)) = j + 1
          BY <1>1, <2>1, <4>0, <4>2
        <5>2. r[j] = b[j - Len(a)]
          BY <3>1, <4>0, <5>1
        <5> QED BY <2>6, <4>2, <5>1, <5>2
      <4> QED BY <4>1, <4>2
    <3> QED BY <1>1, <2>1, <2>5, <2>6, <3>1, <3>2
  <2>8. DOMAIN r = 1..(Len(lru) - 1)
    BY <2>7, LenProperties
  <2> HIDE DEF r
  <2>9. IsInjective(r)
    <3> SUFFICES ASSUME NEW x \in 1..(Len(lru) - 1), NEW y \in 1..(Len(lru) - 1), r[x] = r[y]
                 PROVE  x = y
      BY <2>8 DEF IsInjective
    <3>1. \A u, v \in 1..Len(lru) : lru[u] = lru[v] => u = v
      BY <1>1 DEF Lists, IsInjective
    <3> QED BY <1>1, <2>1, <2>7, <3>1
  <2>10. ToSet(r) = m \ {k}
    <3>1. ASSUME NEW x \in ToSet(r) PROVE x \in m \ {k}
      <4>1. PICK j \in 1..(Len(lru) - 1) : r[j] = x
        BY <2>8, <3>1 DEF ToSet
      <4>2. PICK l \in 1..Len(lru) : l # i /\ x = lru[l]
        BY <1>1, <2>1, <2>7, <4>1
      <4> QED BY <1>1, <2>1, <4>2 DEF Lists, ToSet, IsInjective
    <3>2. ASSUME NEW x \in m \ {k} PROVE x \in ToSet(r)
      <4>1. PICK l \in 1..Len(lru) : lru[l] = x
        BY <1>1, <3>2 DEF Lists, ToSet
      <4>2. l # i
        BY <2>1, <3>2, <4>1
      <4>3. \E j \in 1..(Len(lru) - 1) : r[j] = x
        <5>1. CASE l < i
          BY <1>1, <2>1, <2>7, <4>1, <5>1
        <5>2. CASE l > i
          <6>1. l - 1 \in 1..(Len(lru) - 1) /\ ~(l - 1 < i) /\ (l - 1) + 1 = l
            BY <1>1, <2>1, <5>2
          <6> QED BY <2>7, <4>1, <6>1
        <5> QED BY <2>1, <4>1, <4>2, <5>1, <5>2
      <4> QED BY <2>8, <4>3 DEF ToSet
    <3> QED BY <3>1, <3>2
  <2> QED BY <2>4, <2>7, <2>9, <2>10 DEF Lists
<1> QED BY <1>2, <1>3

\* std::list::splice to the front keeps the keys.
LEMMA MoveToFrontLists ==
  ASSUME NEW S, NEW lru, NEW m, Lists(lru, m, S), NEW k \in m
  PROVE  Lists(MoveToFront(lru, k), m, S)
<1>1. Lists(RemoveFirst(lru, k), m \ {k}, S)
  BY RemoveFirstLists
<1>2. k \in S
  BY ListLength
<1>3. Lists(PushFront(RemoveFirst(lru, k), k), (m \ {k}) \cup {k}, S)
  BY <1>1, <1>2, PushFrontLists
<1>4. (m \ {k}) \cup {k} = m
  OBVIOUS
<1> QED BY <1>3, <1>4 DEF MoveToFront

\* std::list::pop_back takes exactly the key at the back.
LEMMA FrontLists ==
  ASSUME NEW S, NEW lru, NEW m, Lists(lru, m, S), m # {}
  PROVE  Last(lru) \in m /\ Lists(Front(lru), m \ {Last(lru)}, S)
<1>1. lru \in Seq(S) /\ Len(lru) \in Nat /\ DOMAIN lru = 1..Len(lru) /\ \A i \in 1..Len(lru) : lru[i] \in S
  BY LenProperties, ElementOfSeq DEF Lists
<1>2. Len(lru) \in 1..Len(lru)
  BY <1>1 DEF Lists, ToSet
<1> DEFINE n == Len(lru) - 1
           f == SubSeq(lru, 1, n)
<1>3. n \in Nat /\ n + 1 = Len(lru)
  BY <1>1, <1>2
<1>4. f \in Seq(S) /\ Len(f) = n /\ \A j \in 1..n : f[j] = lru[j]
  <2>1. 1 \in Int /\ n \in Int /\ \A j \in 1..n : lru[j] \in S
    BY <1>1, <1>3
  <2> HIDE DEF n
  <2>2. /\ f \in Seq(S) /\ Len(f) = IF 1 <= n THEN n - 1 + 1 ELSE 0
        /\ \A j \in 1..(n - 1 + 1) : f[j] = lru[1 + j - 1]
    BY <2>1, SubSeqProperties
  <2> HIDE DEF f
  <2> QED BY <1>3, <2>1, <2>2
<1>5. DOMAIN f = 1..n
  BY <1>4, LenProperties
<1>6. Front(lru) = f /\ Last(lru) = lru[n + 1]
  BY <1>3 DEF Front, Last
<1> HIDE DEF f, n
<1>7. IsInjective(f)
  BY <1>1, <1>3, <1>4, <1>5 DEF Lists, IsInjective
<1>8. ToSet(f) = m \ {lru[n + 1]}
  <2>1. \A u, v \in 1..Len(lru) : lru[u] = lru[v] => u = v
    BY <1>1 DEF Lists, IsInjective
  <2>2. ASSUME NEW x \in ToSet(f) PROVE x \in m \ {lru[n + 1]}
    <3>1. PICK j \in 1..n : f[j] = x
      BY <1>5, <2>2 DEF ToSet
    <3>2. j \in 1..Len(lru) /\ n + 1 \in 1..Len(lru) /\ j # n + 1 /\ lru[j] = x
      BY <1>1, <1>3, <1>4, <3>1
    <3> QED BY <1>1, <2>1, <3>2 DEF Lists, ToSet
  <2>3. ASSUME NEW x \in m \ {lru[n + 1]} PROVE x \in ToSet(f)
    <3>1. PICK j \in 1..Len(lru) : lru[j] = x
      BY <1>1, <2>3 DEF Lists, ToSet
    <3>2. j \in 1..n
      BY <1>1, <1>3, <2>3, <3>1
    <3> QED BY <1>4, <1>5, <3>1, <3>2 DEF ToSet
  <2> QED BY <2>2, <2>3
<1>9. Last(lru) \in m
  BY <1>1, <1>2, <1>3, <1>6 DEF Lists, ToSet
<1> QED BY <1>4, <1>6, <1>7, <1>8, <1>9 DEF Lists

(***************************************************************************)
(* Types and windows.                                                       *)
(***************************************************************************)
\* Updating a function at any argument keeps its type.
LEMMA FunctionUpdate ==
  ASSUME NEW S, NEW T, NEW f \in [S -> T], NEW v, NEW y \in T
  PROVE  [f EXCEPT ![v] = y] \in [S -> T]
  OBVIOUS

\* Touch and Store keep the types of the cache.
LEMMA CacheTypes ==
  ASSUME NEW d, DecisionsTypeOK(d), NEW k \in Tokens, NEW exp \in Nat, NEW now \in Nat
  PROVE  /\ DecisionsTypeOK(Touch(d, k, now))
         /\ DecisionsTypeOK(Store(d, k, exp, now))
<1>1. DecisionsTypeOK(Touch(d, k, now))
  BY DEF DecisionsTypeOK, Touch, Forget, NoDecision
<1>2. Ttl(exp, now) \in Int
  BY DecisionAssumption DEF Ttl
<1>3. Decision(exp, now) \in [exp : Int, expiresAt : Int]
  BY <1>2 DEF Decision
<1>4. ASSUME NEW e, DecisionsTypeOK(e)
      PROVE  DecisionsTypeOK(EvictOldest(e))
  <2>1. ASSUME NEW v, NEW rest
        PROVE  DecisionsTypeOK([e EXCEPT !.held = @ \ {v}, !.entry[v] = NoDecision, !.lru = rest])
    <3>1. [e.entry EXCEPT ![v] = NoDecision] \in [Tokens -> [exp : Int, expiresAt : Int]]
      <4>1. NoDecision \in [exp : Int, expiresAt : Int]
        BY DEF NoDecision
      <4>2. e.entry \in [Tokens -> [exp : Int, expiresAt : Int]]
        BY <1>4 DEF DecisionsTypeOK
      <4> QED BY <4>1, <4>2, FunctionUpdate
    <3> DEFINE f == [e EXCEPT !.held = @ \ {v}, !.entry[v] = NoDecision, !.lru = rest]
    <3>2. /\ DOMAIN f = {"held", "entry", "lru"} /\ f.held = e.held \ {v}
          /\ f.entry = [e.entry EXCEPT ![v] = NoDecision]
      BY <1>4 DEF DecisionsTypeOK
    <3> HIDE DEF f
    <3>3. DecisionsTypeOK(f)
      BY <1>4, <3>1, <3>2 DEF DecisionsTypeOK
    <3> QED BY <3>3 DEF f
  <2> QED BY <1>4, <2>1 DEF EvictOldest
<1>5. DecisionsTypeOK([d EXCEPT !.held = @ \cup {k}, !.entry[k] = Decision(exp, now),
                                !.lru = PushFront(@, k)])
  BY <1>3 DEF DecisionsTypeOK
<1>6. DecisionsTypeOK([d EXCEPT !.entry[k] = Decision(exp, now), !.lru = MoveToFront(@, k)])
  BY <1>3 DEF DecisionsTypeOK
<1> HIDE DEF DecisionsTypeOK
<1> QED BY <1>1, <1>4, <1>5, <1>6 DEF Store

\* Touch never extends a decision.
LEMMA TouchBound ==
  ASSUME NEW d, DecisionsTypeOK(d), NEW k \in Tokens, NEW now \in Nat,
         NEW j \in Touch(d, k, now).held
  PROVE  j \in d.held /\ Touch(d, k, now).entry[j] = d.entry[j]
  BY DEF DecisionsTypeOK, Touch, Forget

\* A window never exceeds the default lifetime.
LEMMA TtlBound ==
  ASSUME NEW exp \in Nat, NEW now \in Nat
  PROVE  Decision(exp, now).expiresAt <= now + DecisionTtlS
  BY DecisionAssumption DEF Decision, Ttl

\* Evicting leaves the other decisions alone.
LEMMA EvictKeeps ==
  ASSUME NEW d, DecisionsTypeOK(d), NEW j \in EvictOldest(d).held
  PROVE  j \in d.held /\ EvictOldest(d).entry[j] = d.entry[j]
  BY DEF DecisionsTypeOK, EvictOldest

\* Store gives its token the new window and leaves the other decisions alone.
LEMMA StoreBound ==
  ASSUME NEW d, DecisionsTypeOK(d), NEW k \in Tokens, NEW exp \in Nat, NEW now \in Nat,
         NEW j \in Store(d, k, exp, now).held
  PROVE  \/ j \in d.held /\ Store(d, k, exp, now).entry[j] = d.entry[j]
         \/ j = k /\ Store(d, k, exp, now).entry[j] = Decision(exp, now)
<1> DEFINE pushed == [d EXCEPT !.held = @ \cup {k}, !.entry[k] = Decision(exp, now),
                               !.lru = PushFront(@, k)]
           updated == [d EXCEPT !.entry[k] = Decision(exp, now), !.lru = MoveToFront(@, k)]
<1>0. /\ pushed.held = d.held \cup {k} /\ updated.held = d.held
      /\ pushed.entry = [d.entry EXCEPT ![k] = Decision(exp, now)]
      /\ updated.entry = [d.entry EXCEPT ![k] = Decision(exp, now)]
      /\ d.held \subseteq Tokens /\ DOMAIN d.entry = Tokens
  BY DEF DecisionsTypeOK
<1>1. ASSUME NEW i \in d.held \cup {k}
      PROVE  \/ i \in d.held /\ [d.entry EXCEPT ![k] = Decision(exp, now)][i] = d.entry[i]
             \/ i = k /\ [d.entry EXCEPT ![k] = Decision(exp, now)][i] = Decision(exp, now)
  <2>1. i \in Tokens
    BY <1>0, <1>1
  <2>2. DOMAIN d.entry = Tokens
    BY <1>0
  <2> QED BY <1>1, <2>1, <2>2
<1>3. DecisionsTypeOK(pushed)
  <2>1. Decision(exp, now) \in [exp : Int, expiresAt : Int]
    BY DecisionAssumption DEF Decision, Ttl
  <2> QED BY <2>1 DEF DecisionsTypeOK
<1>4. \/ Store(d, k, exp, now) = d
      \/ Store(d, k, exp, now) = updated
      \/ Store(d, k, exp, now) = EvictOldest(pushed)
  BY DEF Store
<1>5. CASE Store(d, k, exp, now) = EvictOldest(pushed)
  <2> HIDE DEF pushed
  <2> QED BY <1>5, <1>0, <1>1, <1>3, EvictKeeps
<1> HIDE DEF pushed, updated
<1> QED BY <1>0, <1>1, <1>4, <1>5

(***************************************************************************)
(* Index and list.                                                          *)
(***************************************************************************)
\* index_ and entries_ hold the same tokens, each once, within the bound, and
\* a token that is not held has no entry.
Sound(d) ==
  /\ Lists(d.lru, d.held, Tokens) /\ Len(d.lru) <= MaxDecisions
  /\ \A k \in Tokens \ d.held : d.entry[k] = NoDecision

\* The empty cache.
LEMMA EmptySound == Sound(EmptyDecisions)
<1>1. Lists(<<>>, {}, Tokens)
  BY EmptyList
<1> QED BY <1>1, DecisionAssumption DEF Sound, EmptyDecisions

\* Dropping a decision.
LEMMA ForgetSound ==
  ASSUME NEW d, DecisionsTypeOK(d), Sound(d), NEW k \in d.held
  PROVE  Sound(Forget(d, k))
<1> DEFINE f == Forget(d, k)
<1>1. /\ f.held = d.held \ {k} /\ f.lru = RemoveFirst(d.lru, k)
      /\ f.entry = [d.entry EXCEPT ![k] = NoDecision]
  BY DEF Forget, DecisionsTypeOK
<1> HIDE DEF f
<1>2. Lists(f.lru, f.held, Tokens)
  BY <1>1, RemoveFirstLists DEF Sound
<1>3. Len(f.lru) <= MaxDecisions
  <2>1. IsFiniteSet(d.held) /\ Cardinality(d.held) = Len(d.lru) /\ Cardinality(f.held) = Len(f.lru)
    BY <1>2, ListLength DEF Sound
  <2>2. Cardinality(f.held) = Cardinality(d.held) - 1
    BY <1>1, <2>1, FS_RemoveElement
  <2>3. Len(d.lru) \in Nat
    BY ListLength DEF Sound
  <2> QED BY <2>1, <2>2, <2>3, DecisionAssumption DEF Sound
<1>4. \A j \in Tokens \ f.held : f.entry[j] = NoDecision
  BY <1>1 DEF Sound, DecisionsTypeOK
<1> QED BY <1>2, <1>3, <1>4 DEF Sound, f

\* A change of order at most, and of the entry of a held token.
LEMMA ReorderedSound ==
  ASSUME NEW d, DecisionsTypeOK(d), Sound(d), NEW k \in d.held, NEW f,
         f.held = d.held, f.lru = MoveToFront(d.lru, k),
         \A j \in Tokens \ {k} : f.entry[j] = d.entry[j]
  PROVE  Sound(f)
<1>1. Lists(f.lru, f.held, Tokens)
  BY MoveToFrontLists DEF Sound
<1>2. Len(f.lru) = Len(d.lru)
  BY <1>1, ListLength DEF Sound
<1> QED BY <1>1, <1>2 DEF Sound

\* Lookup keeps index and list in agreement, also when it drops a decision.
LEMMA TouchSound ==
  ASSUME NEW d, DecisionsTypeOK(d), Sound(d), NEW k \in Tokens, NEW now \in Nat
  PROVE  Sound(Touch(d, k, now))
<1>1. CASE Covers(d, k, now)
  <2>1. k \in d.held /\ Touch(d, k, now) = [d EXCEPT !.lru = MoveToFront(@, k)]
    BY <1>1 DEF Covers, Touch
  <2> DEFINE f == [d EXCEPT !.lru = MoveToFront(@, k)]
  <2>2. f.held = d.held /\ f.lru = MoveToFront(d.lru, k) /\ f.entry = d.entry
    BY DEF DecisionsTypeOK
  <2> HIDE DEF f
  <2>3. Sound(f)
    BY <2>1, <2>2, ReorderedSound
  <2> QED BY <2>1, <2>3 DEF f
<1>2. CASE k \in d.held /\ ~Covers(d, k, now)
  BY <1>2, ForgetSound DEF Touch
<1>3. CASE k \notin d.held
  BY <1>3 DEF Touch, Covers
<1> QED BY <1>1, <1>2, <1>3

\* Store makes room by dropping the least recently used decision.
LEMMA StoreSound ==
  ASSUME NEW d, DecisionsTypeOK(d), Sound(d), NEW k \in Tokens, NEW exp \in Nat, NEW now \in Nat
  PROVE  Sound(Store(d, k, exp, now))
<1> DEFINE updated == [d EXCEPT !.entry[k] = Decision(exp, now), !.lru = MoveToFront(@, k)]
           pushed == [d EXCEPT !.held = @ \cup {k}, !.entry[k] = Decision(exp, now),
                               !.lru = PushFront(@, k)]
<1>1. CASE ~(Ttl(exp, now) > 0)
  <2>1. Ttl(exp, now) \in Int
    BY DecisionAssumption DEF Ttl
  <2> QED BY <1>1, <2>1 DEF Store
<1>2. CASE Ttl(exp, now) > 0 /\ k \in d.held
  <2>1. Store(d, k, exp, now) = updated
    <3>1. Ttl(exp, now) \in Int
      BY DecisionAssumption DEF Ttl
    <3> QED BY <1>2, <3>1 DEF Store
  <2>2. /\ updated.held = d.held /\ updated.lru = MoveToFront(d.lru, k)
        /\ \A j \in Tokens \ {k} : updated.entry[j] = d.entry[j]
    BY DEF DecisionsTypeOK
  <2> HIDE DEF updated
  <2> QED BY <1>2, <2>1, <2>2, ReorderedSound
<1>3. CASE Ttl(exp, now) > 0 /\ k \notin d.held
  <2>1. Store(d, k, exp, now) = EvictOldest(pushed)
    <3>1. Ttl(exp, now) \in Int
      BY DecisionAssumption DEF Ttl
    <3> QED BY <1>3, <3>1 DEF Store
  <2>2. /\ pushed.held = d.held \cup {k} /\ pushed.lru = PushFront(d.lru, k)
        /\ DOMAIN pushed = {"held", "entry", "lru"}
        /\ DOMAIN pushed.entry = Tokens /\ \A j \in Tokens \ {k} : pushed.entry[j] = d.entry[j]
    BY DEF DecisionsTypeOK
  <2> HIDE DEF pushed
  <2>3. Lists(pushed.lru, pushed.held, Tokens)
    BY <1>3, <2>2, PushFrontLists DEF Sound
  <2>4. /\ IsFiniteSet(d.held) /\ Cardinality(d.held) = Len(d.lru) /\ Len(d.lru) \in Nat
        /\ Cardinality(pushed.held) = Len(pushed.lru) /\ IsFiniteSet(pushed.held)
    BY <2>3, ListLength DEF Sound
  <2>5. Len(pushed.lru) = Len(d.lru) + 1
    BY <1>3, <2>2, <2>4, FS_AddElement
  <2>6. \A j \in Tokens \ pushed.held : pushed.entry[j] = NoDecision
    BY <2>2 DEF Sound
  <2>7. CASE Cardinality(pushed.held) > MaxDecisions
    <3> DEFINE v == Last(pushed.lru)
               e == [pushed EXCEPT !.held = @ \ {v}, !.entry[v] = NoDecision, !.lru = Front(@)]
    <3>1. EvictOldest(pushed) = e
      BY <2>7 DEF EvictOldest
    <3>2. v \in pushed.held /\ Lists(Front(pushed.lru), pushed.held \ {v}, Tokens)
      BY <2>2, <2>3, FrontLists
    <3> HIDE DEF v
    <3>3. /\ e.held = pushed.held \ {v} /\ e.lru = Front(pushed.lru)
          /\ e.entry = [pushed.entry EXCEPT ![v] = NoDecision]
      BY <2>2
    <3> HIDE DEF e
    <3>4. Cardinality(e.held) = Len(e.lru)
      BY <3>2, <3>3, ListLength
    <3>5. Cardinality(e.held) = Cardinality(pushed.held) - 1
      BY <2>4, <3>2, <3>3, FS_RemoveElement
    <3>6. Len(e.lru) <= MaxDecisions
      BY <2>4, <2>5, <3>4, <3>5, DecisionAssumption DEF Sound
    <3>7. \A j \in Tokens \ e.held : e.entry[j] = NoDecision
      BY <2>2, <2>6, <3>3
    <3> QED BY <2>1, <3>1, <3>2, <3>3, <3>6, <3>7 DEF Sound
  <2>8. CASE ~(Cardinality(pushed.held) > MaxDecisions)
    <3>1. Store(d, k, exp, now) = pushed
      BY <2>1, <2>8 DEF EvictOldest
    <3>2. Len(pushed.lru) <= MaxDecisions
      BY <2>4, <2>5, <2>8, DecisionAssumption
    <3> QED BY <2>3, <2>6, <3>1, <3>2 DEF Sound
  <2> QED BY <2>7, <2>8
<1> QED BY <1>1, <1>2, <1>3

\* A window ends no later than the expiry that the provider reported.
LEMMA ExpBound ==
  ASSUME NEW exp \in Nat \ {0}, NEW now \in Nat
  PROVE  Decision(exp, now).expiresAt <= exp
  BY DecisionAssumption DEF Decision, Ttl
==============================================================================
