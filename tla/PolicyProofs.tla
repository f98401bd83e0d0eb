----------------------------- MODULE PolicyProofs -----------------------------
(***************************************************************************)
(* What a policy decides, for every table and every request: the backtracking*)
(* walk of GlobMatch is matching as a pattern is read, and the first rule   *)
(* that matches, of a table in the order of its priorities, says what the   *)
(* rows that decide on a cell say by themselves.                            *)
(***************************************************************************)
EXTENDS Policy, SequenceTheorems, FiniteSetTheorems, TLAPS

\* Every set of naturals has a least element.  Proofs about lists of any length
\* go by it: of the counterexamples, take one with the least measure.
LEMMA NatMin ==
  ASSUME NEW T, T \subseteq Nat, T # {}
  PROVE  \E x \in T : \A y \in T : x <= y
<1> DEFINE R == StrictSubsetOrdering(Nat)
           D == {0..n : n \in T}
<1>1. \A n \in Nat : 0..n \in FiniteSubsetsOf(Nat)
  <2> TAKE n \in Nat
  <2>1. IsFiniteSet(0..n)
    BY FS_Interval
  <2>2. 0..n \subseteq Nat
    OBVIOUS
  <2> QED BY <2>1, <2>2 DEF FiniteSubsetsOf
<1>2. D \subseteq FiniteSubsetsOf(Nat) /\ D # {}
  BY <1>1
<1>3. IsWellFoundedOn(R, FiniteSubsetsOf(Nat))
  BY FS_StrictSubsetOrderingWellFounded
<1> HIDE DEF R
<1>4. PICK d \in D : \A e \in D : ~(<<e, d>> \in R)
  <2> HIDE DEF D
  <2> QED BY <1>2, <1>3, WFMin
<1>5. PICK x \in T : d = 0..x
  BY <1>4
<1>6. ASSUME NEW y \in T, y < x PROVE FALSE
  <2>1. x \in Nat /\ y \in Nat
    OBVIOUS
  <2>2. 0..y \subseteq 0..x /\ x \in 0..x /\ x \notin 0..y
    BY <1>6, <2>1
  <2>3. 0..y \in SUBSET Nat /\ 0..x \in SUBSET Nat /\ 0..y # 0..x
    BY <2>1, <2>2
  <2>4. <<0..y, 0..x>> \in R
    BY <2>2, <2>3 DEF R, StrictSubsetOrdering
  <2> QED BY <1>4, <1>5, <2>4
<1>7. \A y \in T : x <= y
  BY <1>6
<1> QED BY <1>7

\* A list by its elements.
LEMMA SeqByElements ==
  ASSUME NEW S, NEW n \in Nat, NEW s, DOMAIN s = 1..n, s = [i \in 1..n |-> s[i]],
         \A i \in 1..n : s[i] \in S
  PROVE  s \in Seq(S) /\ Len(s) = n
  OBVIOUS

(***************************************************************************)
(* Patterns.  GlobMatch's walk and the reference, Matches, are both given by*)
(* recursions; that these have solutions follows from a fixed point.        *)
(***************************************************************************)
\* A monotone map on the subsets of D has a fixed point.
LEMMA FixedPoint ==
  ASSUME NEW D, NEW Phi \in [SUBSET D -> SUBSET D],
         \A A, B \in SUBSET D : A \subseteq B => Phi[A] \subseteq Phi[B]
  PROVE  \E L \in SUBSET D : Phi[L] = L
<1> DEFINE Closed == {A \in SUBSET D : Phi[A] \subseteq A}
           L == {x \in D : \A A \in Closed : x \in A}
<1>1. L \in SUBSET D /\ \A A \in Closed : L \subseteq A
  OBVIOUS
<1>2. \A A \in Closed : Phi[L] \subseteq Phi[A] /\ Phi[A] \subseteq A
  BY <1>1
<1> HIDE DEF Closed
<1>3. Phi[L] \subseteq L
  <2>1. Phi[L] \subseteq D
    BY <1>1
  <2> QED BY <1>2, <2>1
<1>4. Phi[L] \in Closed
  <2>1. Phi[L] \in SUBSET D
    BY <1>1
  <2>2. Phi[Phi[L]] \subseteq Phi[L]
    BY <1>1, <1>3, <2>1
  <2> QED BY <2>1, <2>2 DEF Closed
<1>5. L \subseteq Phi[L]
  BY <1>1, <1>4
<1> QED BY <1>1, <1>3, <1>5

\* The body of GlobMatch's walk.
GlobCursors == [p : Nat, v : Nat, starP : Nat, starV : Nat]

GlobStep(pattern, value, walk, c) ==
  IF c.v > Len(value) THEN \A i \in c.p..Len(pattern) : pattern[i] = "*"
  ELSE IF c.p <= Len(pattern) /\ pattern[c.p] = "*" THEN walk[Cursors(c.p + 1, c.v, c.p, c.v)]
  ELSE IF c.p <= Len(pattern) /\ Lower(pattern[c.p]) = Lower(value[c.v])
       THEN walk[Cursors(c.p + 1, c.v + 1, c.starP, c.starV)]
  ELSE c.starP # 0 /\ walk[Cursors(c.starP + 1, c.starV + 1, c.starP, c.starV + 1)]

\* The cursors that each cursor goes on to.
LEMMA CursorTypes ==
  ASSUME NEW c \in GlobCursors
  PROVE  /\ Cursors(c.p + 1, c.v, c.p, c.v) \in GlobCursors
         /\ Cursors(c.p + 1, c.v + 1, c.starP, c.starV) \in GlobCursors
         /\ Cursors(c.starP + 1, c.starV + 1, c.starP, c.starV + 1) \in GlobCursors
<1>1. c.p \in Nat /\ c.v \in Nat /\ c.starP \in Nat /\ c.starV \in Nat
  BY DEF GlobCursors
<1>2. c.p + 1 \in Nat /\ c.v + 1 \in Nat /\ c.starP + 1 \in Nat /\ c.starV + 1 \in Nat
  BY <1>1
<1> QED BY <1>1, <1>2 DEF Cursors, GlobCursors

\* The recursion of the walk has a solution: one fixed point of the cursors it
\* says yes to.
LEMMA GlobExists ==
  ASSUME NEW pattern, NEW value
  PROVE  \E w : w = [c \in GlobCursors |-> GlobStep(pattern, value, w, c)]
<1> DEFINE D == GlobCursors
           S(A, c) == IF c.v > Len(value) THEN \A i \in c.p..Len(pattern) : pattern[i] = "*"
                      ELSE IF c.p <= Len(pattern) /\ pattern[c.p] = "*" THEN Cursors(c.p + 1, c.v, c.p, c.v) \in A
                      ELSE IF c.p <= Len(pattern) /\ Lower(pattern[c.p]) = Lower(value[c.v])
                           THEN Cursors(c.p + 1, c.v + 1, c.starP, c.starV) \in A
                      ELSE c.starP # 0 /\ Cursors(c.starP + 1, c.starV + 1, c.starP, c.starV + 1) \in A
           Phi == [A \in SUBSET D |-> {c \in D : S(A, c)}]
<1>1. Phi \in [SUBSET D -> SUBSET D]
  OBVIOUS
<1>2. \A A, B \in SUBSET D : A \subseteq B => Phi[A] \subseteq Phi[B]
  <2> SUFFICES ASSUME NEW A \in SUBSET D, NEW B \in SUBSET D, A \subseteq B, NEW c \in D, S(A, c) PROVE S(B, c)
    OBVIOUS
  <2> QED OBVIOUS
<1> HIDE DEF D, S
<1>3. PICK L \in SUBSET D : Phi[L] = L
  <2> HIDE DEF Phi
  <2> QED BY <1>1, <1>2, FixedPoint
<1>4. \A c \in D : S(L, c) = (c \in L)
  <2> TAKE c \in D
  <2>1. S(L, c) \in BOOLEAN
    <3> DEFINE T1 == \A i \in c.p..Len(pattern) : pattern[i] = "*"
               T2 == Cursors(c.p + 1, c.v, c.p, c.v) \in L
               T3 == Cursors(c.p + 1, c.v + 1, c.starP, c.starV) \in L
               T4 == c.starP # 0 /\ Cursors(c.starP + 1, c.starV + 1, c.starP, c.starV + 1) \in L
    <3>1. T1 \in BOOLEAN /\ T2 \in BOOLEAN /\ T3 \in BOOLEAN /\ T4 \in BOOLEAN
      OBVIOUS
    <3>2. S(L, c) = IF c.v > Len(value) THEN T1
                    ELSE IF c.p <= Len(pattern) /\ pattern[c.p] = "*" THEN T2
                    ELSE IF c.p <= Len(pattern) /\ Lower(pattern[c.p]) = Lower(value[c.v]) THEN T3
                    ELSE T4
      BY Zenon DEF S
    <3> HIDE DEF T1, T2, T3, T4
    <3> QED BY <3>1, <3>2
  <2>2. S(L, c) <=> c \in L
    BY <1>3
  <2> QED BY <2>1, <2>2
<1> DEFINE w == [c \in D |-> c \in L]
<1>5. ASSUME NEW c \in GlobCursors PROVE (c \in L) = GlobStep(pattern, value, w, c)
  <2> DEFINE c1 == Cursors(c.p + 1, c.v, c.p, c.v)
             c2 == Cursors(c.p + 1, c.v + 1, c.starP, c.starV)
             c3 == Cursors(c.starP + 1, c.starV + 1, c.starP, c.starV + 1)
  <2>1. c1 \in D /\ c2 \in D /\ c3 \in D
    BY CursorTypes DEF D
  <2>2. w[c1] = (c1 \in L) /\ w[c2] = (c2 \in L) /\ w[c3] = (c3 \in L)
    <3> HIDE DEF c1, c2, c3
    <3> QED BY <2>1
  <2>3. S(L, c) = (c \in L)
    BY <1>4 DEF D
  <2> HIDE DEF w
  <2>4. S(L, c) = GlobStep(pattern, value, w, c)
    BY <2>2, Zenon DEF S, GlobStep
  <2> QED BY <2>3, <2>4
<1>6. w = [c \in GlobCursors |-> GlobStep(pattern, value, w, c)]
  <2>1. w = [c \in GlobCursors |-> c \in L]
    BY DEF D
  <2> HIDE DEF w
  <2> QED BY <1>5, <2>1, Zenon
<1> HIDE DEF w
<1> QED BY <1>6

\* GlobMatch is the value of a function that satisfies the recursion.
LEMMA GlobMatchIs ==
  ASSUME NEW pattern, NEW value
  PROVE  \E w : /\ w = [c \in GlobCursors |-> GlobStep(pattern, value, w, c)]
                /\ GlobMatch(pattern, value) = w[Cursors(1, 1, 0, 1)]
<1> DEFINE w == CHOOSE w : w = [c \in GlobCursors |-> GlobStep(pattern, value, w, c)]
<1>1. \E x : x = [c \in GlobCursors |-> GlobStep(pattern, value, x, c)]
  BY GlobExists
<1>2. w = [c \in GlobCursors |-> GlobStep(pattern, value, w, c)]
  BY <1>1, Zenon
<1>3. GlobMatch(pattern, value) = w[Cursors(1, 1, 0, 1)]
  BY Zenon DEF GlobMatch, GlobCursors, GlobStep
<1> HIDE DEF w
<1> QED BY <1>2, <1>3

\* The body of Matches' fits.
FitsStep(pattern, value, fits, i) ==
  IF i > Len(pattern) THEN {Len(value) + 1}
  ELSE LET rest == fits[i + 1] IN
       IF pattern[i] = "*" THEN {j \in 1..(Len(value) + 1) : \E k \in rest : j <= k}
       ELSE {j \in 1..Len(value) : Lower(pattern[i]) = Lower(value[j]) /\ j + 1 \in rest}

\* That recursion has a solution too.
LEMMA FitsExist ==
  ASSUME NEW pattern, NEW value, Len(pattern) \in Nat, Len(value) \in Nat
  PROVE  \E f : f = [i \in 1..(Len(pattern) + 1) |-> FitsStep(pattern, value, f, i)]
<1> DEFINE m == Len(pattern)
           n == Len(value)
           I == 1..(m + 1)
           J == 1..(n + 1)
           D == I \X J
           S(A, i, j) == IF i > m THEN j = n + 1
                         ELSE IF pattern[i] = "*" THEN \E k \in J : <<i + 1, k>> \in A /\ j <= k
                         ELSE j \in 1..n /\ Lower(pattern[i]) = Lower(value[j]) /\ <<i + 1, j + 1>> \in A
           Phi == [A \in SUBSET D |-> {x \in D : S(A, x[1], x[2])}]
<1> HIDE DEF m, n
<1>0. m \in Nat /\ n \in Nat
  BY DEF m, n
<1>1. Phi \in [SUBSET D -> SUBSET D]
  OBVIOUS
<1>2. \A A, B \in SUBSET D : A \subseteq B => Phi[A] \subseteq Phi[B]
  <2> SUFFICES ASSUME NEW A \in SUBSET D, NEW B \in SUBSET D, A \subseteq B, NEW x \in D, S(A, x[1], x[2])
               PROVE S(B, x[1], x[2])
    OBVIOUS
  <2> DEFINE i == x[1] j == x[2]
  <2> SUFFICES ASSUME S(A, i, j) PROVE S(B, i, j)
    OBVIOUS
  <2> HIDE DEF i, j, D
  <2> QED BY Zenon
<1>3. PICK L \in SUBSET D : Phi[L] = L
  <2> HIDE DEF Phi, D
  <2> QED BY <1>1, <1>2, FixedPoint
<1> DEFINE f == [i \in I |-> {j \in J : <<i, j>> \in L}]
<1>4. ASSUME NEW i \in I PROVE f[i] = {j \in J : S(L, i, j)}
  <2>1. \A j \in J : <<i, j>> \in D
    OBVIOUS
  <2> HIDE DEF S
  <2>2. \A j \in J : <<i, j>> \in L <=> S(L, i, j)
    <3> TAKE j \in J
    <3> DEFINE x == <<i, j>>
    <3>1. x \in D /\ x[1] = i /\ x[2] = j
      BY <2>1
    <3> HIDE DEF x, D
    <3>2. x \in L <=> S(L, x[1], x[2])
      BY <1>3, <3>1
    <3> QED BY <3>1, <3>2 DEF x
  <2> QED BY <2>2
<1>5. ASSUME NEW i \in I PROVE f[i] = FitsStep(pattern, value, f, i)
  <2>1. CASE i > m
    <3>1. FitsStep(pattern, value, f, i) = {n + 1}
      BY <2>1, Zenon DEF FitsStep, m, n
    <3>2. f[i] = {j \in J : j = n + 1}
      BY <1>4, <2>1
    <3> HIDE DEF f
    <3> QED BY <3>1, <3>2, <1>0
  <2>2. CASE ~(i > m)
    <3>1. i + 1 \in I /\ i \in 1..m
      BY <2>2, <1>0
    <3>2. f[i + 1] = {j \in J : <<i + 1, j>> \in L}
      BY <3>1
    <3>3. FitsStep(pattern, value, f, i) =
            IF pattern[i] = "*" THEN {j \in 1..(n + 1) : \E k \in f[i + 1] : j <= k}
            ELSE {j \in 1..n : Lower(pattern[i]) = Lower(value[j]) /\ j + 1 \in f[i + 1]}
      BY <2>2, Zenon DEF FitsStep, m, n
    <3>4. f[i] = {j \in J : S(L, i, j)}
      BY <1>4
    <3> HIDE DEF f
    <3>5. CASE pattern[i] = "*"
      <4>1. f[i] = {j \in J : \E k \in J : <<i + 1, k>> \in L /\ j <= k}
        BY <3>4, <2>2, <3>5
      <4> QED BY <4>1, <3>2, <3>3, <3>5
    <3>6. CASE pattern[i] # "*"
      <4>1. f[i] = {j \in J : j \in 1..n /\ Lower(pattern[i]) = Lower(value[j]) /\ <<i + 1, j + 1>> \in L}
        BY <3>4, <2>2, <3>6
      <4>2. \A j \in 1..n : j + 1 \in J /\ j \in J
        BY <1>0
      <4> QED BY <4>1, <4>2, <3>2, <3>3, <3>6
    <3> QED BY <3>5, <3>6
  <2> QED BY <2>1, <2>2
<1>6. f = [i \in I |-> f[i]]
  OBVIOUS
<1>7. f = [i \in 1..(Len(pattern) + 1) |-> FitsStep(pattern, value, f, i)]
  <2> HIDE DEF f
  <2>1. f = [i \in I |-> FitsStep(pattern, value, f, i)]
    <3> HIDE DEF I
    <3> QED BY <1>5, <1>6, Zenon
  <2> QED BY <2>1 DEF m
<1> HIDE DEF f
<1> QED BY <1>7

\* Matches is the value of a function that satisfies the recursion.
LEMMA MatchesIs ==
  ASSUME NEW pattern, NEW value, Len(pattern) \in Nat, Len(value) \in Nat
  PROVE  \E f : /\ f = [i \in 1..(Len(pattern) + 1) |-> FitsStep(pattern, value, f, i)]
                /\ Matches(pattern, value) = (1 \in f[1])
<1> DEFINE f == CHOOSE f : f = [i \in 1..(Len(pattern) + 1) |-> FitsStep(pattern, value, f, i)]
<1>1. \E x : x = [i \in 1..(Len(pattern) + 1) |-> FitsStep(pattern, value, x, i)]
  BY FitsExist
<1>2. f = [i \in 1..(Len(pattern) + 1) |-> FitsStep(pattern, value, f, i)]
  BY <1>1, Zenon
<1>3. Matches(pattern, value) = (1 \in f[1])
  BY Zenon DEF Matches, FitsStep
<1> HIDE DEF f
<1> QED BY <1>2, <1>3

\* f says where the pattern, with stars at Star, fits the value: Eq are the
\* pairs of a character of the pattern and one of the value that agree.
Fits(f, m, n, Star, Eq) ==
  /\ f[m + 1] = {n + 1}
  /\ \A i \in 1..m : f[i] = IF i \in Star THEN {j \in 1..(n + 1) : \E k \in f[i + 1] : j <= k}
                            ELSE {j \in 1..n : <<i, j>> \in Eq /\ j + 1 \in f[i + 1]}

\* Positions are positions of the value, or the one behind its end.
LEMMA FitsType ==
  ASSUME NEW m \in Nat, NEW n \in Nat, NEW Star, NEW Eq, NEW f, Fits(f, m, n, Star, Eq)
  PROVE  \A i \in 1..(m + 1) : f[i] \subseteq 1..(n + 1)
<1> TAKE i \in 1..(m + 1)
<1>1. CASE i = m + 1
  BY <1>1 DEF Fits
<1>2. CASE i \in 1..m /\ i \in Star
  BY <1>2 DEF Fits
<1>3. CASE i \in 1..m /\ i \notin Star
  <2>1. f[i] = {j \in 1..n : <<i, j>> \in Eq /\ j + 1 \in f[i + 1]}
    BY <1>3 DEF Fits
  <2> QED BY <2>1
<1> QED BY <1>1, <1>2, <1>3

\* GlobAt the end of the value, stars fit and nothing else does.
LEMMA EndFits ==
  ASSUME NEW m \in Nat, NEW n \in Nat, NEW Star, NEW Eq, NEW f, Fits(f, m, n, Star, Eq)
  PROVE  \A i \in 1..(m + 1) : n + 1 \in f[i] <=> \A l \in i..m : l \in Star
<1> DEFINE Good(i) == n + 1 \in f[i] <=> \A l \in i..m : l \in Star
           T == {d \in 0..m : ~Good(m + 1 - d)}
<1>1. Good(m + 1)
  BY DEF Fits
<1>2. ASSUME NEW i \in 1..m, Good(i + 1) PROVE Good(i)
  <2>1. CASE i \in Star
    <3>1. f[i] = {j \in 1..(n + 1) : \E k \in f[i + 1] : j <= k}
      BY <2>1 DEF Fits
    <3>2. f[i + 1] \subseteq 1..(n + 1)
      <4>1. i + 1 \in 1..(m + 1)
        OBVIOUS
      <4>2. \A x \in 1..(m + 1) : f[x] \subseteq 1..(n + 1)
        BY FitsType
      <4> QED BY <4>1, <4>2
    <3>3. n + 1 \in f[i] <=> n + 1 \in f[i + 1]
      BY <3>1, <3>2
    <3>4. (\A l \in i..m : l \in Star) <=> (\A l \in (i + 1)..m : l \in Star)
      BY <2>1
    <3> QED BY <1>2, <3>3, <3>4
  <2>2. CASE i \notin Star
    <3>1. f[i] = {j \in 1..n : <<i, j>> \in Eq /\ j + 1 \in f[i + 1]}
      BY <2>2 DEF Fits
    <3>2. i \in i..m
      OBVIOUS
    <3> QED BY <2>2, <3>1, <3>2
  <2> QED BY <2>1, <2>2
<1> HIDE DEF Good
<1>3. T = {}
  <2> SUFFICES ASSUME T # {} PROVE FALSE
    OBVIOUS
  <2>1. T \subseteq Nat
    OBVIOUS
  <2> HIDE DEF T
  <2>2. PICK d \in T : \A e \in T : d <= e
    BY <2>1, NatMin
  <2> USE DEF T
  <2>3. d \in 0..m /\ ~Good(m + 1 - d)
    OBVIOUS
  <2>4. d # 0
    BY <2>3, <1>1
  <2>5. d - 1 \in 0..m /\ d - 1 \notin T
    BY <2>2, <2>3, <2>4
  <2>6. Good(m + 1 - (d - 1))
    BY <2>5
  <2>7. m + 1 - (d - 1) = (m + 1 - d) + 1 /\ m + 1 - d \in 1..m
    BY <2>3, <2>4
  <2> QED BY <1>2, <2>3, <2>6, <2>7
<1>4. \A i \in 1..(m + 1) : Good(i)
  <2> TAKE i \in 1..(m + 1)
  <2>1. m + 1 - i \in 0..m /\ m + 1 - (m + 1 - i) = i
    OBVIOUS
  <2> QED BY <1>3, <2>1
<1> QED BY <1>4 DEF Good

\* What fits at characters that are not stars is as long as they are, and the
\* rest of it fits behind them.
LEMMA LiteralRun ==
  ASSUME NEW m \in Nat, NEW n \in Nat, NEW Star, NEW Eq, NEW f, Fits(f, m, n, Star, Eq),
         NEW a \in 1..(m + 1), NEW p \in a..(m + 1), \A i \in a..(p - 1) : i \notin Star,
         NEW k \in f[a]
  PROVE  k + (p - a) \in f[p] /\ k + (p - a) <= n + 1
<1> DEFINE T == {d \in 0..(p - a) : k + d \notin f[a + d]}
<1>0. k \in 1..(n + 1)
  BY FitsType
<1>1. T = {}
  <2> SUFFICES ASSUME T # {} PROVE FALSE
    OBVIOUS
  <2>1. T \subseteq Nat
    OBVIOUS
  <2> HIDE DEF T
  <2>2. PICK d \in T : \A e \in T : d <= e
    BY <2>1, NatMin
  <2> USE DEF T
  <2>3. d \in 0..(p - a) /\ k + d \notin f[a + d]
    OBVIOUS
  <2>4. d # 0
    BY <1>0, <2>3
  <2>5. d - 1 \in 0..(p - a) /\ d - 1 \notin T
    BY <2>2, <2>3, <2>4
  <2> DEFINE i == a + (d - 1)
             j == k + (d - 1)
  <2>6. i \in a..(p - 1) /\ i \in 1..m /\ i + 1 = a + d /\ j + 1 = k + d
    BY <1>0, <2>3, <2>4
  <2>7. j \in f[i]
    BY <2>5
  <2> HIDE DEF i, j
  <2>8. f[i] = {x \in 1..n : <<i, x>> \in Eq /\ x + 1 \in f[i + 1]}
    BY <2>6 DEF Fits
  <2>9. j + 1 \in f[i + 1]
    BY <2>7, <2>8
  <2> QED BY <2>3, <2>6, <2>9
<1>2. p - a \in 0..(p - a) /\ a + (p - a) = p
  OBVIOUS
<1>3. k + (p - a) \in f[p]
  BY <1>1, <1>2
<1> QED BY <1>3, FitsType

\* The walk by its four cases, with pattern and value as in Fits.
GlobAt(w, p, v, a, b) == w[Cursors(p, v, a, b)]

GlobRun(w, m, n, Star, Eq) ==
  \A p, v \in Nat \ {0}, a, b \in Nat :
    /\ v > n => (GlobAt(w, p, v, a, b) <=> \A i \in p..m : i \in Star)
    /\ v <= n /\ p <= m /\ p \in Star => (GlobAt(w, p, v, a, b) <=> GlobAt(w, p + 1, v, p, v))
    /\ v <= n /\ p <= m /\ p \notin Star /\ <<p, v>> \in Eq => (GlobAt(w, p, v, a, b) <=> GlobAt(w, p + 1, v + 1, a, b))
    /\ v <= n /\ ~(p <= m /\ (p \in Star \/ <<p, v>> \in Eq)) =>
         (GlobAt(w, p, v, a, b) <=> a # 0 /\ GlobAt(w, a + 1, b + 1, a, b + 1))

\* The cursors the walk meets: between the last star and p lie as many
\* characters, none of them a star, as between b and v.
OnTrack(p, v, a, b, m, n, Star, Eq) ==
  /\ p \in 1..(m + 1) /\ v \in 1..(n + 1) /\ b \in 1..v /\ a \in 0..(p - 1)
  /\ a # 0 => /\ a \in Star /\ p - (a + 1) = v - b
              /\ \A i \in (a + 1)..(p - 1) : i \notin Star

\* The walk succeeds iff the rest fits here, or behind the last star with a
\* longer piece for it.
Claim(w, f, n, p, v, a, b) ==
  GlobAt(w, p, v, a, b) <=> v \in f[p] \/ (a # 0 /\ \E k \in (b + 1)..(n + 1) : k \in f[a + 1])

\* The claim for all cursors with a star further on, or the same one and p
\* further on.
ClaimBeyond(w, f, m, n, Star, Eq, p, b) ==
  \A p1, v1, a1, b1 \in Nat :
    OnTrack(p1, v1, a1, b1, m, n, Star, Eq) /\ (b1 > b \/ (b1 = b /\ p1 > p)) => Claim(w, f, n, p1, v1, a1, b1)

\* One step of the walk: the claim for the cursors that follow gives it for these.
LEMMA StepFits ==
  ASSUME NEW m \in Nat, NEW n \in Nat, NEW Star, NEW Eq, NEW f, NEW w,
         Fits(f, m, n, Star, Eq), GlobRun(w, m, n, Star, Eq),
         NEW p, NEW v, NEW a, NEW b, OnTrack(p, v, a, b, m, n, Star, Eq),
         ClaimBeyond(w, f, m, n, Star, Eq, p, b)
  PROVE  Claim(w, f, n, p, v, a, b)
<1> DEFINE Here == v \in f[p]
           Later == a # 0 /\ \E k \in (b + 1)..(n + 1) : k \in f[a + 1]
<1> SUFFICES GlobAt(w, p, v, a, b) <=> Here \/ Later
  BY DEF Claim
<1>1. /\ p \in 1..(m + 1) /\ v \in 1..(n + 1) /\ b \in 1..v /\ a \in 0..(p - 1)
      /\ p \in Nat \ {0} /\ v \in Nat \ {0} /\ a \in Nat /\ b \in Nat
      /\ p + 1 \in Nat /\ v + 1 \in Nat /\ a + 1 \in Nat /\ b + 1 \in Nat
  BY DEF OnTrack
\* What fits later lies behind v once the characters since the star are through.
<1>2. ASSUME Later PROVE \E k \in f[p] : v < k /\ k <= n + 1
  <2>1. PICK k \in (b + 1)..(n + 1) : k \in f[a + 1]
    BY <1>2
  <2>2. a # 0 /\ p - (a + 1) = v - b /\ \A i \in (a + 1)..(p - 1) : i \notin Star
    BY <1>2 DEF OnTrack
  <2>3. a + 1 \in 1..(m + 1) /\ p \in (a + 1)..(m + 1)
    BY <1>1, <2>2
  <2>4. k + (p - (a + 1)) \in f[p] /\ k + (p - (a + 1)) <= n + 1
    BY <2>1, <2>2, <2>3, LiteralRun
  <2>5. v < k + (p - (a + 1))
    BY <1>1, <2>1, <2>2
  <2> QED BY <2>4, <2>5
<1> HIDE DEF Here, Later
<1>3. CASE v > n
  <2>1. GlobAt(w, p, v, a, b) <=> \A i \in p..m : i \in Star
    BY <1>1, <1>3 DEF GlobRun
  <2>2. v = n + 1
    BY <1>1, <1>3
  <2>3. Here <=> \A i \in p..m : i \in Star
    BY <1>1, <2>2, EndFits DEF Here
  <2>4. ~Later
    <3> SUFFICES ASSUME Later PROVE FALSE
      OBVIOUS
    <3>1. PICK k \in f[p] : v < k /\ k <= n + 1
      BY <1>2
    <3>2. k \in 1..(n + 1)
      BY <1>1, FitsType
    <3> QED BY <2>2, <3>1, <3>2
  <2> QED BY <2>1, <2>3, <2>4
<1>4. CASE v <= n /\ p <= m /\ p \in Star
  <2>1. GlobAt(w, p, v, a, b) <=> GlobAt(w, p + 1, v, p, v)
    BY <1>1, <1>4 DEF GlobRun
  <2>2. OnTrack(p + 1, v, p, v, m, n, Star, Eq)
    BY <1>1, <1>4 DEF OnTrack
  <2>3. v > b \/ (v = b /\ p + 1 > p)
    BY <1>1
  <2>4. Claim(w, f, n, p + 1, v, p, v)
    BY <1>1, <2>2, <2>3 DEF ClaimBeyond
  <2>5. f[p] = {j \in 1..(n + 1) : \E k \in f[p + 1] : j <= k}
    <3>1. p \in 1..m
      BY <1>1, <1>4
    <3> QED BY <1>4, <3>1, Zenon DEF Fits
  <2>6. f[p + 1] \subseteq 1..(n + 1)
    <3>1. p + 1 \in 1..(m + 1)
      BY <1>1, <1>4
    <3>2. \A i \in 1..(m + 1) : f[i] \subseteq 1..(n + 1)
      BY FitsType
    <3> QED BY <3>1, <3>2
  <2>7. GlobAt(w, p + 1, v, p, v) <=> \E k \in f[p + 1] : v <= k
    <3>1. GlobAt(w, p + 1, v, p, v) <=> v \in f[p + 1] \/ (p # 0 /\ \E k \in (v + 1)..(n + 1) : k \in f[p + 1])
      BY <2>4 DEF Claim
    <3> QED BY <3>1, <1>1, <2>6
  <2>8. Here <=> \E k \in f[p + 1] : v <= k
    BY <1>1, <2>5 DEF Here
  <2>9. Later => Here
    <3> SUFFICES ASSUME Later PROVE Here
      OBVIOUS
    <3>1. PICK k \in f[p] : v < k
      BY <1>2
    <3>2. PICK l \in f[p + 1] : k <= l
      BY <2>5, <3>1
    <3>3. k \in 1..(n + 1) /\ l \in 1..(n + 1)
      BY <2>5, <2>6, <3>1, <3>2
    <3> QED BY <1>1, <2>8, <3>1, <3>2, <3>3
  <2> QED BY <2>1, <2>7, <2>8, <2>9
<1>5. CASE v <= n /\ p <= m /\ p \notin Star /\ <<p, v>> \in Eq
  <2>1. GlobAt(w, p, v, a, b) <=> GlobAt(w, p + 1, v + 1, a, b)
    BY <1>1, <1>5 DEF GlobRun
  <2>2. OnTrack(p + 1, v + 1, a, b, m, n, Star, Eq)
    <3>1. p + 1 \in 1..(m + 1) /\ v + 1 \in 1..(n + 1) /\ b \in 1..(v + 1) /\ a \in 0..((p + 1) - 1)
      BY <1>1, <1>5
    <3>2. ASSUME a # 0 PROVE /\ a \in Star /\ (p + 1) - (a + 1) = (v + 1) - b
                             /\ \A i \in (a + 1)..((p + 1) - 1) : i \notin Star
      <4>1. a \in Star /\ p - (a + 1) = v - b /\ \A i \in (a + 1)..(p - 1) : i \notin Star
        BY <3>2 DEF OnTrack
      <4>2. \A i \in (a + 1)..((p + 1) - 1) : i \in (a + 1)..(p - 1) \/ i = p
        BY <1>1
      <4> QED BY <1>1, <1>5, <4>1, <4>2
    <3> QED BY <3>1, <3>2 DEF OnTrack
  <2>3. Claim(w, f, n, p + 1, v + 1, a, b)
    BY <1>1, <2>2 DEF ClaimBeyond
  <2>4. f[p] = {j \in 1..n : <<p, j>> \in Eq /\ j + 1 \in f[p + 1]}
    <3>1. p \in 1..m
      BY <1>1, <1>5
    <3> QED BY <1>5, <3>1, Zenon DEF Fits
  <2>5. Here <=> v + 1 \in f[p + 1]
    BY <1>1, <1>5, <2>4 DEF Here
  <2> QED BY <2>1, <2>3, <2>5 DEF Claim, Later
<1>6. CASE v <= n /\ ~(p <= m /\ (p \in Star \/ <<p, v>> \in Eq))
  <2>1. GlobAt(w, p, v, a, b) <=> a # 0 /\ GlobAt(w, a + 1, b + 1, a, b + 1)
    BY <1>1, <1>6 DEF GlobRun
  <2>2. ~Here
    <3>1. CASE p <= m
      <4>1. f[p] = {j \in 1..n : <<p, j>> \in Eq /\ j + 1 \in f[p + 1]}
        <5>1. p \in 1..m /\ p \notin Star
          BY <1>1, <1>6, <3>1
        <5> QED BY <5>1, Zenon DEF Fits
      <4> QED BY <1>6, <3>1, <4>1 DEF Here
    <3>2. CASE ~(p <= m)
      <4>1. p = m + 1
        BY <1>1, <3>2
      <4>2. f[p] = {n + 1}
        BY <4>1 DEF Fits
      <4> QED BY <1>1, <1>6, <4>2 DEF Here
    <3> QED BY <3>1, <3>2
  <2>3. CASE a = 0
    BY <2>1, <2>2, <2>3 DEF Later
  <2>4. CASE a # 0
    <3>1. a \in Star /\ a + 1 \in 1..(m + 1)
      BY <1>1, <2>4 DEF OnTrack
    <3>2. OnTrack(a + 1, b + 1, a, b + 1, m, n, Star, Eq)
      <4>1. b + 1 \in 1..(n + 1) /\ b + 1 \in 1..(b + 1) /\ a \in 0..((a + 1) - 1)
        BY <1>1, <1>6
      <4>2. (a + 1) - (a + 1) = (b + 1) - (b + 1) /\ \A i \in (a + 1)..((a + 1) - 1) : i \notin Star
        BY <1>1
      <4> QED BY <3>1, <4>1, <4>2 DEF OnTrack
    <3>3. b + 1 > b
      BY <1>1
    <3>4. Claim(w, f, n, a + 1, b + 1, a, b + 1)
      BY <1>1, <3>2, <3>3 DEF ClaimBeyond
    <3>5. GlobAt(w, a + 1, b + 1, a, b + 1) <=>
            b + 1 \in f[a + 1] \/ (a # 0 /\ \E k \in ((b + 1) + 1)..(n + 1) : k \in f[a + 1])
      BY <3>4 DEF Claim
    <3>6. Later <=> b + 1 \in f[a + 1] \/ \E k \in ((b + 1) + 1)..(n + 1) : k \in f[a + 1]
      <4>1. b + 1 \in (b + 1)..(n + 1) /\ \A k \in (b + 1)..(n + 1) : k = b + 1 \/ k \in ((b + 1) + 1)..(n + 1)
        BY <1>1, <1>6
      <4>2. \A k \in ((b + 1) + 1)..(n + 1) : k \in (b + 1)..(n + 1)
        BY <1>1
      <4> QED BY <2>4, <4>1, <4>2 DEF Later
    <3> QED BY <2>1, <2>2, <2>4, <3>5, <3>6
  <2> QED BY <2>3, <2>4
<1> QED BY <1>1, <1>3, <1>4, <1>5, <1>6

\* The walk from the start succeeds iff the whole pattern fits the whole value:
\* of the cursors for which the claim failed, take one with the star furthest
\* on, and of those one furthest on in the pattern.
LEMMA GlobFits ==
  ASSUME NEW m \in Nat, NEW n \in Nat, NEW Star, NEW Eq, NEW f, NEW w,
         Fits(f, m, n, Star, Eq), GlobRun(w, m, n, Star, Eq)
  PROVE  GlobAt(w, 1, 1, 0, 1) <=> 1 \in f[1]
<1> DEFINE Bad(p, v, a, b) == OnTrack(p, v, a, b, m, n, Star, Eq) /\ ~Claim(w, f, n, p, v, a, b)
           T == {x \in Nat : \E p, v, a, b \in Nat : Bad(p, v, a, b) /\ x = n + 1 - b}
<1>1. T = {}
  <2> SUFFICES ASSUME T # {} PROVE FALSE
    OBVIOUS
  <2>1. PICK x \in T : \A y \in T : x <= y
    <3>1. T \subseteq Nat
      OBVIOUS
    <3> HIDE DEF T
    <3> QED BY <3>1, NatMin
  <2> DEFINE U == {y \in Nat : \E p, v, a, b \in Nat : Bad(p, v, a, b) /\ x = n + 1 - b /\ y = m + 1 - p}
  <2> HIDE DEF Bad
  <2>2. x \in Nat /\ U # {}
    <3>1. PICK p \in Nat, v \in Nat, a \in Nat, b \in Nat : Bad(p, v, a, b) /\ x = n + 1 - b
      BY <2>1
    <3>2. m + 1 - p \in Nat
      BY <3>1 DEF Bad, OnTrack
    <3> QED BY <3>1, <3>2
  <2>3. PICK y \in U : \A z \in U : y <= z
    <3>1. U \subseteq Nat
      OBVIOUS
    <3> HIDE DEF U, T
    <3> QED BY <2>2, <3>1, NatMin
  <2>4. PICK p \in Nat, v \in Nat, a \in Nat, b \in Nat : Bad(p, v, a, b) /\ x = n + 1 - b /\ y = m + 1 - p
    BY <2>3
  <2>5. ASSUME NEW p1 \in Nat, NEW v1 \in Nat, NEW a1 \in Nat, NEW b1 \in Nat,
               OnTrack(p1, v1, a1, b1, m, n, Star, Eq), b1 > b \/ (b1 = b /\ p1 > p)
        PROVE  Claim(w, f, n, p1, v1, a1, b1)
    <3> SUFFICES ASSUME ~Claim(w, f, n, p1, v1, a1, b1) PROVE FALSE
      OBVIOUS
    <3>1. Bad(p1, v1, a1, b1)
      BY <2>5 DEF Bad
    <3>2. p1 \in 1..(m + 1) /\ b1 \in 1..(n + 1)
      BY <2>5 DEF OnTrack
    <3>3. CASE b1 > b
      <4>1. n + 1 - b1 \in Nat /\ n + 1 - b1 < x
        BY <2>4, <3>2, <3>3
      <4>2. n + 1 - b1 \in T
        BY <3>1, <4>1
      <4> HIDE DEF T
      <4> QED BY <2>1, <2>2, <4>1, <4>2
    <3>4. CASE b1 = b /\ p1 > p
      <4>1. m + 1 - p1 \in Nat /\ m + 1 - p1 < y /\ x = n + 1 - b1
        BY <2>4, <3>2, <3>4
      <4>2. m + 1 - p1 \in U
        BY <3>1, <4>1
      <4>3. y \in Nat
        BY <2>3
      <4> HIDE DEF U
      <4> QED BY <2>3, <4>1, <4>2, <4>3
    <3> QED BY <2>5, <3>3, <3>4
  <2>6. OnTrack(p, v, a, b, m, n, Star, Eq) /\ ~Claim(w, f, n, p, v, a, b)
    BY <2>4 DEF Bad
  <2> HIDE DEF T, U
  <2>7. ClaimBeyond(w, f, m, n, Star, Eq, p, b)
    BY <2>5, Zenon DEF ClaimBeyond
  <2>8. Claim(w, f, n, p, v, a, b)
    BY <2>6, <2>7, StepFits
  <2> QED BY <2>6, <2>8
<1>2. OnTrack(1, 1, 0, 1, m, n, Star, Eq)
  BY DEF OnTrack
<1>3. Claim(w, f, n, 1, 1, 0, 1)
  <2> SUFFICES ASSUME ~Claim(w, f, n, 1, 1, 0, 1) PROVE FALSE
    OBVIOUS
  <2>1. Bad(1, 1, 0, 1) /\ n + 1 - 1 \in Nat
    BY <1>2
  <2> HIDE DEF Bad
  <2>2. n + 1 - 1 \in T
    BY <2>1
  <2> QED BY <1>1, <2>2
<1> QED BY <1>3 DEF Claim

\* The walk of GlobMatch is such a walk.
LEMMA GlobWalk ==
  ASSUME NEW pattern, NEW value, Len(pattern) \in Nat, Len(value) \in Nat,
         NEW Star, \A i \in 1..Len(pattern) : i \in Star <=> pattern[i] = "*",
         NEW Eq, \A i \in 1..Len(pattern), j \in 1..Len(value) :
                   <<i, j>> \in Eq <=> Lower(pattern[i]) = Lower(value[j]),
         NEW w, w = [c \in GlobCursors |-> GlobStep(pattern, value, w, c)]
  PROVE  GlobRun(w, Len(pattern), Len(value), Star, Eq)
<1> DEFINE m == Len(pattern)
           n == Len(value)
<1> HIDE DEF m, n
<1> SUFFICES GlobRun(w, m, n, Star, Eq)
  BY DEF m, n
<1> SUFFICES ASSUME NEW p \in Nat \ {0}, NEW v \in Nat \ {0}, NEW a \in Nat, NEW b \in Nat
             PROVE  /\ v > n => (GlobAt(w, p, v, a, b) <=> \A i \in p..m : i \in Star)
                    /\ v <= n /\ p <= m /\ p \in Star => (GlobAt(w, p, v, a, b) <=> GlobAt(w, p + 1, v, p, v))
                    /\ v <= n /\ p <= m /\ p \notin Star /\ <<p, v>> \in Eq =>
                         (GlobAt(w, p, v, a, b) <=> GlobAt(w, p + 1, v + 1, a, b))
                    /\ v <= n /\ ~(p <= m /\ (p \in Star \/ <<p, v>> \in Eq)) =>
                         (GlobAt(w, p, v, a, b) <=> a # 0 /\ GlobAt(w, a + 1, b + 1, a, b + 1))
  BY Zenon DEF GlobRun
<1> DEFINE c == Cursors(p, v, a, b)
<1>1. c \in GlobCursors /\ c.p = p /\ c.v = v /\ c.starP = a /\ c.starV = b
  BY DEF Cursors, GlobCursors
<1>2. w[c] = GlobStep(pattern, value, w, c)
  <2> HIDE DEF c
  <2>1. \A x \in GlobCursors : w[x] = GlobStep(pattern, value, w, x)
    BY Zenon
  <2> QED BY <1>1, <2>1
<1>3. GlobAt(w, p, v, a, b) = w[c]
  BY DEF GlobAt
<1> HIDE DEF c
<1>4. w[c] = IF v > n THEN \A i \in p..m : pattern[i] = "*"
             ELSE IF p <= m /\ pattern[p] = "*" THEN GlobAt(w, p + 1, v, p, v)
             ELSE IF p <= m /\ Lower(pattern[p]) = Lower(value[v]) THEN GlobAt(w, p + 1, v + 1, a, b)
             ELSE a # 0 /\ GlobAt(w, a + 1, b + 1, a, b + 1)
  BY <1>1, <1>2, Zenon DEF GlobStep, GlobAt, m, n
<1>5. (\A i \in p..m : pattern[i] = "*") <=> (\A i \in p..m : i \in Star)
  BY DEF m
<1>6. p <= m => (p \in Star <=> pattern[p] = "*")
  BY DEF m
<1>7. p <= m /\ v <= n => (<<p, v>> \in Eq <=> Lower(pattern[p]) = Lower(value[v]))
  <2>1. p <= m /\ v <= n => p \in 1..m /\ v \in 1..n
    BY DEF m, n
  <2> QED BY <2>1, Zenon DEF m, n
<1>8. m \in Nat /\ n \in Nat
  BY DEF m, n
<1>9. ASSUME v > n PROVE GlobAt(w, p, v, a, b) <=> \A i \in p..m : i \in Star
  BY <1>3, <1>4, <1>5, <1>9
<1>10. ASSUME v <= n PROVE ~(v > n)
  BY <1>8, <1>10
<1>11. ASSUME v <= n, p <= m, p \in Star PROVE GlobAt(w, p, v, a, b) <=> GlobAt(w, p + 1, v, p, v)
  BY <1>3, <1>4, <1>6, <1>10, <1>11, Zenon
<1>12. ASSUME v <= n, p <= m, p \notin Star, <<p, v>> \in Eq PROVE GlobAt(w, p, v, a, b) <=> GlobAt(w, p + 1, v + 1, a, b)
  BY <1>3, <1>4, <1>6, <1>7, <1>10, <1>12, Zenon
<1>13. ASSUME v <= n, ~(p <= m /\ (p \in Star \/ <<p, v>> \in Eq))
       PROVE  GlobAt(w, p, v, a, b) <=> a # 0 /\ GlobAt(w, a + 1, b + 1, a, b + 1)
  BY <1>3, <1>4, <1>6, <1>7, <1>10, <1>13, Zenon
<1> QED BY <1>9, <1>11, <1>12, <1>13, Zenon

\* Lower-casing moves no star and is done once.
LEMMA LowerTwice ==
  ASSUME NEW ch
  PROVE  (Lower(ch) = "*" <=> ch = "*") /\ Lower(Lower(ch)) = Lower(ch)
BY PolicyAssumption DEF Lower

\* GlobMatch on the pattern as it was loaded is matching as defined from the
\* end on the pattern as the table has it, for every pattern and every value.
THEOREM GlobMatchMatches ==
  ASSUME NEW S, NEW pattern \in Seq(S), NEW value \in Seq(S)
  PROVE  GlobMatch(NormalisePattern(pattern), value) <=> Matches(pattern, value)
<1> DEFINE Q == NormalisePattern(pattern)
           m == Len(pattern)
           n == Len(value)
           Star == {i \in 1..m : pattern[i] = "*"}
           Eq == {x \in (1..m) \X (1..n) : Lower(pattern[x[1]]) = Lower(value[x[2]])}
<1>1. m \in Nat /\ n \in Nat /\ DOMAIN pattern = 1..m
  OBVIOUS
<1>2. Len(Q) = m /\ \A i \in 1..m : Q[i] = Lower(pattern[i])
  <2>1. Q = [i \in 1..m |-> Lower(pattern[i])]
    BY <1>1, Zenon DEF NormalisePattern
  <2> HIDE DEF Q, m
  <2> QED BY <1>1, <2>1
<1> HIDE DEF Q
<1>3. \A i \in 1..m : i \in Star <=> Q[i] = "*"
  BY <1>2, LowerTwice
<1>4. ASSUME NEW i \in 1..m, NEW j \in 1..n PROVE <<i, j>> \in Eq <=> Lower(pattern[i]) = Lower(value[j])
  OBVIOUS
<1> HIDE DEF m, n, Star, Eq
<1>5. \A i \in 1..m, j \in 1..n : <<i, j>> \in Eq <=> Lower(Q[i]) = Lower(value[j])
  <2> TAKE i \in 1..m, j \in 1..n
  <2>1. Lower(Q[i]) = Lower(pattern[i])
    BY <1>2, LowerTwice
  <2> QED BY <1>4, <2>1
<1>6. PICK w : /\ w = [c \in GlobCursors |-> GlobStep(Q, value, w, c)]
               /\ GlobMatch(Q, value) = w[Cursors(1, 1, 0, 1)]
  BY GlobMatchIs
<1>7. GlobRun(w, m, n, Star, Eq)
  <2>1. w = [c \in GlobCursors |-> GlobStep(Q, value, w, c)]
    BY <1>6
  <2>2. Len(Q) \in Nat /\ Len(value) \in Nat
    BY <1>1, <1>2 DEF n
  <2>3. Len(Q) = m /\ Len(value) = n
    BY <1>2 DEF n
  <2>4. GlobRun(w, Len(Q), Len(value), Star, Eq)
    BY <1>3, <1>5, <2>1, <2>2, <2>3, GlobWalk, Zenon
  <2> QED BY <2>3, <2>4
<1>8. PICK f : /\ f = [i \in 1..(m + 1) |-> FitsStep(pattern, value, f, i)]
               /\ Matches(pattern, value) = (1 \in f[1])
  BY <1>1, MatchesIs DEF m, n
<1>9. Fits(f, m, n, Star, Eq)
  <2>1. \A i \in 1..(m + 1) : f[i] = FitsStep(pattern, value, f, i)
    BY <1>8, Zenon
  <2>2. f[m + 1] = {n + 1}
    <3>1. m + 1 \in 1..(m + 1) /\ m + 1 > m
      BY <1>1
    <3> QED BY <2>1, <3>1, Zenon DEF FitsStep, m, n
  <2>3. ASSUME NEW i \in 1..m
        PROVE  f[i] = IF i \in Star THEN {j \in 1..(n + 1) : \E k \in f[i + 1] : j <= k}
                      ELSE {j \in 1..n : <<i, j>> \in Eq /\ j + 1 \in f[i + 1]}
    <3>1. i \in 1..(m + 1) /\ ~(i > m)
      BY <1>1
    <3>2. f[i] = IF pattern[i] = "*" THEN {j \in 1..(n + 1) : \E k \in f[i + 1] : j <= k}
                 ELSE {j \in 1..n : Lower(pattern[i]) = Lower(value[j]) /\ j + 1 \in f[i + 1]}
      BY <2>1, <3>1, Zenon DEF FitsStep, m, n
    <3>3. i \in Star <=> pattern[i] = "*"
      BY DEF Star
    <3>4. {j \in 1..n : Lower(pattern[i]) = Lower(value[j]) /\ j + 1 \in f[i + 1]}
          = {j \in 1..n : <<i, j>> \in Eq /\ j + 1 \in f[i + 1]}
      BY <1>4
    <3> QED BY <3>2, <3>3, <3>4, Zenon
  <2> QED BY <2>2, <2>3, Zenon DEF Fits
<1>10. GlobAt(w, 1, 1, 0, 1) <=> 1 \in f[1]
  BY <1>1, <1>7, <1>9, GlobFits
<1>11. GlobMatch(Q, value) <=> Matches(pattern, value)
  BY <1>6, <1>8, <1>10, Zenon DEF GlobAt
<1> QED BY <1>11 DEF Q

(***************************************************************************)
(* Policies.  A pattern of a table is a text; a request may also have names *)
(* of other pieces, S.                                                      *)
(***************************************************************************)
\* A rule's constraint on a name is the row's.
LEMMA PatternApplies ==
  ASSUME NEW S, STRING \subseteq S, NEW pattern \in Seq(STRING), NEW value \in Seq(S), NEW has \in BOOLEAN
  PROVE  LET loaded == IF has THEN NormalisePattern(pattern) ELSE NoName IN
         (loaded # NoName => value # NoName /\ GlobMatch(loaded, value))
           <=> (has /\ pattern # NoName => value # NoName /\ Matches(pattern, value))
<1> DEFINE Q == NormalisePattern(pattern)
<1>1. Q # NoName <=> pattern # NoName
  <2>1. DOMAIN Q = DOMAIN pattern
    BY DEF NormalisePattern
  <2>2. ASSUME pattern = NoName PROVE Q = NoName
    BY <2>2 DEF NormalisePattern, NoName
  <2>3. ASSUME Q = NoName PROVE pattern = NoName
    <3>1. DOMAIN pattern = {}
      <4> HIDE DEF Q
      <4> QED BY <2>1, <2>3 DEF NoName
    <3> QED BY <3>1 DEF NoName
  <2> QED BY <2>2, <2>3
<1>2. GlobMatch(Q, value) <=> Matches(pattern, value)
  <2>1. pattern \in Seq(S)
    <3>1. Len(pattern) \in Nat /\ DOMAIN pattern = 1..Len(pattern)
      OBVIOUS
    <3>2. pattern = [i \in 1..Len(pattern) |-> pattern[i]]
      OBVIOUS
    <3>3. \A i \in 1..Len(pattern) : pattern[i] \in STRING
      OBVIOUS
    <3>4. \A i \in 1..Len(pattern) : pattern[i] \in S
      BY <3>3, Zenon
    <3> QED BY <3>1, <3>2, <3>4, SeqByElements
  <2> QED BY <2>1, GlobMatchMatches
<1> HIDE DEF Q
<1>3. CASE has
  BY <1>1, <1>2, <1>3, Zenon DEF Q
<1>4. CASE ~has
  BY <1>4, Zenon
<1> QED BY <1>3, <1>4

\* A rule matches iff its row applies.
LEMMA RuleMatchesApplies ==
  ASSUME NEW S, STRING \subseteq S, NEW tr, WellFormedRow(tr), NEW columns,
         NEW p, NEW action, NEW object \in Seq(S), NEW column \in Seq(S)
  PROVE  RuleMatches(Rule(tr, columns), p, action, object, column)
           <=> Applies(tr, columns, p, action, object, column)
<1> DEFINE r == Rule(tr, columns)
           O == IF "object_pattern" \in columns THEN NormalisePattern(tr.objectPattern) ELSE NoName
           C == IF "column_pattern" \in columns THEN NormalisePattern(tr.columnPattern) ELSE NoName
<1>1. /\ r.subject = tr.subject /\ r.anyScope = tr.anyScope /\ r.actions = tr.actions
      /\ r.objectPattern = O /\ r.columnPattern = C
  BY DEF Rule
<1> DEFINE RO == O # NoName => object # NoName /\ GlobMatch(O, object)
           RC == C # NoName => column # NoName /\ GlobMatch(C, column)
           AO == "object_pattern" \in columns /\ tr.objectPattern # NoName
                   => object # NoName /\ Matches(tr.objectPattern, object)
           AC == "column_pattern" \in columns /\ tr.columnPattern # NoName
                   => column # NoName /\ Matches(tr.columnPattern, column)
<1>2. /\ tr.objectPattern \in Seq(STRING) /\ tr.columnPattern \in Seq(STRING)
      /\ \A s, t \in tr.subject : s = t
  BY DEF WellFormedRow
<1>3. RO <=> AO
  <2>1. ("object_pattern" \in columns) \in BOOLEAN
    OBVIOUS
  <2> QED BY <1>2, <2>1, PatternApplies, Zenon
<1>4. RC <=> AC
  <2>1. ("column_pattern" \in columns) \in BOOLEAN
    OBVIOUS
  <2> QED BY <1>2, <2>1, PatternApplies, Zenon
<1>5. (tr.subject = {} \/ p.sub \in tr.subject) <=> tr.subject \subseteq {p.sub}
  BY <1>2
<1>6. PrincipalHasAnyScope(p, tr.anyScope) <=> (tr.anyScope # {} => \E s \in tr.anyScope : s \in p.scopes)
  BY DEF PrincipalHasAnyScope
<1>7. ActionMatches(action, tr.actions) <=> (tr.actions # {} => action \in tr.actions)
  BY DEF ActionMatches
<1> HIDE DEF r, O, C
<1>8. RuleMatches(r, p, action, object, column) <=>
        /\ tr.subject = {} \/ p.sub \in tr.subject
        /\ PrincipalHasAnyScope(p, tr.anyScope) /\ ActionMatches(action, tr.actions) /\ RO /\ RC
  BY <1>1, Zenon DEF RuleMatches
<1>9. Applies(tr, columns, p, action, object, column) <=>
        /\ tr.subject \subseteq {p.sub} /\ (tr.anyScope # {} => \E s \in tr.anyScope : s \in p.scopes)
        /\ (tr.actions # {} => action \in tr.actions) /\ AO /\ AC
  BY Zenon DEF Applies
<1> HIDE DEF RO, RC, AO, AC
<1>10. RuleMatches(r, p, action, object, column) <=> Applies(tr, columns, p, action, object, column)
  BY <1>3, <1>4, <1>5, <1>6, <1>7, <1>8, <1>9
<1> QED BY <1>10 DEF r

\* What loading a table that can be read gives.
LEMMA TableLoaded ==
  ASSUME NEW source, source.named, Readable(source), NEW policy \in LoadPolicy(source)
  PROVE  /\ policy # LoadFailed /\ policy # DefaultPolicy /\ policy.kind = "table"
         /\ policy.rules \in OrderedByPriority({Rule(tr, source.columns) : tr \in source.rows})
         /\ policy.defaultAllow = source.defaultAllow
<1> DEFINE rules == {Rule(tr, source.columns) : tr \in source.rows}
<1>1. LoadPolicyFromTable(source.columns, source.rows) =
        {[kind |-> "table", rules |-> s, defaultAllow |-> FALSE] : s \in OrderedByPriority(rules)}
  BY Zenon DEF LoadPolicyFromTable, Readable
<1>2. LoadPolicy(source) = {IF q = LoadFailed THEN q ELSE [q EXCEPT !.defaultAllow = source.defaultAllow] :
                              q \in LoadPolicyFromTable(source.columns, source.rows)}
  BY Zenon DEF LoadPolicy
<1>3. PICK q \in LoadPolicyFromTable(source.columns, source.rows) :
        policy = IF q = LoadFailed THEN q ELSE [q EXCEPT !.defaultAllow = source.defaultAllow]
  BY <1>2
<1>4. PICK s \in OrderedByPriority(rules) : q = [kind |-> "table", rules |-> s, defaultAllow |-> FALSE]
  BY <1>1, <1>3
<1>5. q # LoadFailed
  BY <1>4 DEF LoadFailed
<1>6. policy.kind = "table" /\ policy.rules = s /\ policy.defaultAllow = source.defaultAllow
  BY <1>3, <1>4, <1>5
<1>7. policy # LoadFailed /\ policy # DefaultPolicy
  BY <1>6 DEF LoadFailed, DefaultPolicy
<1> QED BY <1>6, <1>7

\* The first rule that matches, of a table in order, is a row that applies and
\* has the least priority of those.
LEMMA CellVerdict ==
  ASSUME NEW S, STRING \subseteq S, NEW source, WellFormedSource(source), source.named, Readable(source),
         NEW policy \in LoadPolicy(source), NEW p, NEW action, NEW object \in Seq(S), NEW column \in Seq(S)
  PROVE  EvaluateCell(policy, p, action, object, column) \in Verdicts(source, p, action, object, column)
<1> DEFINE rules == {Rule(tr, source.columns) : tr \in source.rows}
           Ap(tr) == Applies(tr, source.columns, p, action, object, column)
           hit == {r \in source.rows : Ap(r)}
           RM(r) == RuleMatches(r, p, action, object, column)
<1>1. PICK s \in OrderedByPriority(rules) : policy.rules = s /\ policy.defaultAllow = source.defaultAllow
  BY TableLoaded
<1>2. Cardinality(rules) \in Nat
  <2>1. IsFiniteSet(source.rows)
    BY DEF WellFormedSource
  <2>2. IsFiniteSet(rules)
    <3> DEFINE load == [tr \in source.rows |-> Rule(tr, source.columns)]
    <3>1. load \in Surjection(source.rows, rules)
      BY DEF Surjection
    <3> HIDE DEF load, rules
    <3> QED BY <2>1, <3>1, FS_Surjection
  <2> HIDE DEF rules
  <2> QED BY <2>2, FS_CardinalityType
<1> DEFINE N == Cardinality(rules)
<1>3. /\ DOMAIN s = 1..N /\ {s[i] : i \in 1..N} = rules
      /\ \A i, j \in 1..N : i < j => s[i].priority <= s[j].priority
  <2> HIDE DEF rules
  <2>1. DOMAIN s = 1..N
    BY <1>1 DEF OrderedByPriority
  <2> QED BY <2>1, Zenon DEF OrderedByPriority
<1> DEFINE hits == {i \in 1..N : RM(s[i])}
<1>4. EvaluateCell(policy, p, action, object, column) =
        IF hits = {} THEN source.defaultAllow ELSE s[CHOOSE i \in hits : \A j \in hits : i <= j].allow
  <2> HIDE DEF rules
  <2> DEFINE h == {i \in DOMAIN policy.rules : RuleMatches(policy.rules[i], p, action, object, column)}
  <2>1. h = hits
    BY <1>1, <1>3, Zenon
  <2>2. EvaluateCell(policy, p, action, object, column) =
          IF h = {} THEN policy.defaultAllow
          ELSE policy.rules[CHOOSE i \in h : \A j \in h : i <= j].allow
    BY Zenon DEF EvaluateCell
  <2> HIDE DEF h, hits
  <2> QED BY <1>1, <2>1, <2>2, Zenon
<1>5. \A tr \in source.rows : RM(Rule(tr, source.columns)) <=> Ap(tr)
  BY RuleMatchesApplies DEF WellFormedSource
<1>6. \A tr \in source.rows : \E i \in 1..N : s[i] = Rule(tr, source.columns)
  BY <1>3
<1>7. \A i \in 1..N : \E tr \in source.rows : s[i] = Rule(tr, source.columns)
  BY <1>3
<1>8. \A tr \in source.rows : /\ Rule(tr, source.columns).priority = tr.priority
                               /\ Rule(tr, source.columns).allow = (TRUE \in tr.allow)
                               /\ tr.priority \in Int /\ tr.allow \in {{TRUE}, {FALSE}}
  BY DEF Rule, WellFormedSource, WellFormedRow, Readable
<1> HIDE DEF rules, N, RM, Ap
<1>9. CASE hits = {}
  <2>1. hit = {}
    BY <1>5, <1>6, <1>9
  <2>2. Verdicts(source, p, action, object, column) = {source.defaultAllow}
    BY <2>1, Zenon DEF Verdicts, Ap
  <2> QED BY <1>4, <1>9, <2>2
<1>10. CASE hits # {}
  <2> DEFINE i == CHOOSE i \in hits : \A j \in hits : i <= j
  <2>1. i \in hits /\ \A j \in hits : i <= j
    <3>1. hits \subseteq Nat
      BY <1>2 DEF N
    <3> HIDE DEF hits
    <3>2. \E x \in hits : \A y \in hits : x <= y
      BY <1>10, <3>1, NatMin
    <3> QED BY <3>2, Zenon
  <2> HIDE DEF i
  <2>2. PICK x \in source.rows : s[i] = Rule(x, source.columns)
    BY <1>7, <2>1
  <2>3. x \in hit
    BY <1>5, <2>1, <2>2
  <2>4. ASSUME NEW y \in hit PROVE x.priority <= y.priority
    <3>1. PICK j \in 1..N : s[j] = Rule(y, source.columns)
      BY <1>6, <2>4
    <3>2. j \in hits
      BY <1>5, <2>4, <3>1
    <3>3. i <= j /\ i \in Int /\ j \in Int
      BY <1>2, <2>1, <3>2 DEF N
    <3>4. s[i].priority = x.priority /\ s[j].priority = y.priority /\ x.priority \in Int
      BY <1>8, <2>2, <2>4, <3>1
    <3>5. CASE i = j
      BY <3>4, <3>5
    <3>6. CASE i < j
      BY <1>3, <2>1, <3>1, <3>4, <3>6
    <3> QED BY <3>3, <3>5, <3>6
  <2>5. s[i].allow \in x.allow
    <3>1. s[i].allow = (TRUE \in x.allow) /\ x.allow \in {{TRUE}, {FALSE}}
      BY <1>8, <2>2
    <3>2. CASE x.allow = {TRUE}
      BY <3>1, <3>2, Zenon
    <3>3. CASE x.allow = {FALSE}
      <4>1. (TRUE \in x.allow) = FALSE
        BY <3>3
      <4> QED BY <3>1, <3>3, <4>1, Zenon
    <3> QED BY <3>1, <3>2, <3>3
  <2>6. Verdicts(source, p, action, object, column) =
          UNION {r.allow : r \in {x1 \in hit : \A y \in hit : x1.priority <= y.priority}}
    BY <2>3, Zenon DEF Verdicts, Ap
  <2>7. EvaluateCell(policy, p, action, object, column) = s[i].allow
    BY <1>4, <1>10, Zenon DEF i
  <2> HIDE DEF hit
  <2>8. x.allow \subseteq Verdicts(source, p, action, object, column)
    BY <2>3, <2>4, <2>6
  <2> QED BY <2>5, <2>7, <2>8
<1> QED BY <1>9, <1>10

\* A cell is allowed or denied.
LEMMA CellBoolean ==
  ASSUME NEW S, STRING \subseteq S, NEW source, WellFormedSource(source), source.named, Readable(source),
         NEW policy \in LoadPolicy(source), NEW p, NEW action, NEW object \in Seq(S), NEW column \in Seq(S)
  PROVE  EvaluateCell(policy, p, action, object, column) \in BOOLEAN
<1>1. EvaluateCell(policy, p, action, object, column) \in Verdicts(source, p, action, object, column)
  BY CellVerdict
<1>2. Verdicts(source, p, action, object, column) \subseteq BOOLEAN
  <2> DEFINE hit == {r \in source.rows : Applies(r, source.columns, p, action, object, column)}
  <2>1. \A r \in source.rows : r.allow \subseteq BOOLEAN
    <3> TAKE r \in source.rows
    <3>1. r.allow \in {{}, {TRUE}, {FALSE}}
      BY DEF WellFormedSource, WellFormedRow
    <3> QED BY <3>1, Zenon
  <2>2. Verdicts(source, p, action, object, column) =
          IF hit = {} THEN {source.defaultAllow}
          ELSE UNION {r.allow : r \in {x \in hit : \A y \in hit : x.priority <= y.priority}}
    BY Zenon DEF Verdicts
  <2>3. source.defaultAllow \in BOOLEAN
    BY DEF WellFormedSource
  <2>4. hit \subseteq source.rows
    OBVIOUS
  <2> HIDE DEF hit
  <2> QED BY <2>1, <2>2, <2>3, <2>4
<1> QED BY <1>1, <1>2

\* A request is allowed iff each of its cells is, and a cell is what the rows
\* that decide on it say.
LEMMA PolicyVerdicts ==
  ASSUME NEW S, STRING \subseteq S, NEW source, WellFormedSource(source), source.named, Readable(source),
         NEW policy \in LoadPolicy(source), NEW p, NEW request,
         request.objects \subseteq Seq(S), request.columns \subseteq Seq(S)
  PROVE  LET V(c) == Verdicts(source, p, request.action, c[1], c[2])
         IN  /\ EvaluatePolicy(policy, p, request) => \A c \in Cells(request) : TRUE \in V(c)
             /\ ~EvaluatePolicy(policy, p, request) => \E c \in Cells(request) : FALSE \in V(c)
<1> DEFINE Names == Seq(S)
           ev == EvaluatePolicy(policy, p, request)
           V(o, c) == Verdicts(source, p, request.action, o, c)
           E(o, c) == EvaluateCell(policy, p, request.action, o, c)
<1>1. \A o, c \in Names : E(o, c) \in V(o, c)
  BY CellVerdict
<1>2. \A o, c \in Names : E(o, c) \in BOOLEAN
  BY CellBoolean
<1>3. NoName \in Names
  BY DEF NoName
<1> HIDE DEF V, E, Names, ev
<1>4. Cells(request) \subseteq Names \X Names
  BY <1>3 DEF Cells, OrNone, Names
<1>5. ev <=> \A c \in Cells(request) : E(c[1], c[2])
  <2>1. CASE request.objects = {}
    <3>1. ev <=> E(NoName, NoName)
      BY <2>1, Zenon DEF ev, EvaluatePolicy, E
    <3>2. Cells(request) = {<<NoName, NoName>>}
      BY <2>1 DEF Cells
    <3>3. \A c \in Cells(request) : c[1] = NoName /\ c[2] = NoName
      BY <3>2
    <3>4. <<NoName, NoName>> \in Cells(request)
      BY <3>2
    <3> QED BY <3>1, <3>3, <3>4, Zenon
  <2>2. CASE request.objects # {}
    <3> DEFINE O == request.objects
               K == OrNone(request.columns)
    <3>1. ev <=> \A o \in O, c \in K : E(o, c)
      BY <2>2, Zenon DEF ev, EvaluatePolicy, E
    <3>2. Cells(request) = O \X K
      BY <2>2, Zenon DEF Cells
    <3> HIDE DEF O, K
    <3>3. \A c \in Cells(request) : c[1] \in O /\ c[2] \in K
      BY <3>2
    <3>4. \A o \in O, c \in K : <<o, c>> \in Cells(request) /\ <<o, c>>[1] = o /\ <<o, c>>[2] = c
      BY <3>2
    <3>5. ASSUME \A c \in Cells(request) : E(c[1], c[2]), NEW o \in O, NEW c \in K PROVE E(o, c)
      <4> DEFINE x == <<o, c>>
      <4>1. x \in Cells(request) /\ x[1] = o /\ x[2] = c
        BY <3>4
      <4> HIDE DEF x
      <4>2. E(x[1], x[2])
        BY <3>5, <4>1, Zenon
      <4> QED BY <4>1, <4>2, Zenon
    <3> QED BY <3>1, <3>3, <3>5, Zenon
  <2> QED BY <2>1, <2>2
<1>6. ASSUME NEW c \in Cells(request) PROVE /\ E(c[1], c[2]) => TRUE \in V(c[1], c[2])
                                            /\ ~E(c[1], c[2]) => FALSE \in V(c[1], c[2])
  <2> DEFINE o == c[1]
             k == c[2]
  <2>1. o \in Names /\ k \in Names
    BY <1>4
  <2> HIDE DEF o, k
  <2>2. E(o, k) \in V(o, k) /\ E(o, k) \in BOOLEAN
    BY <1>1, <1>2, <2>1
  <2>3. (E(o, k) => TRUE \in V(o, k)) /\ (~E(o, k) => FALSE \in V(o, k))
    <3>1. E(o, k) = TRUE \/ E(o, k) = FALSE
      BY <2>2
    <3> QED BY <2>2, <3>1, Zenon
  <2> QED BY <2>3, Zenon DEF o, k
<1>7. (ev => \A c \in Cells(request) : TRUE \in V(c[1], c[2]))
      /\ (~ev => \E c \in Cells(request) : FALSE \in V(c[1], c[2]))
  BY <1>5, <1>6, Zenon
<1> QED BY <1>7, Zenon DEF ev, V

\* A table that cannot be read is no policy.
LEMMA TableRefused ==
  ASSUME NEW source, source.named, ~Readable(source), NEW policy \in LoadPolicy(source)
  PROVE  policy = LoadFailed
<1>1. LoadPolicyFromTable(source.columns, source.rows) = {LoadFailed}
  BY Zenon DEF LoadPolicyFromTable, Readable
<1>2. LoadPolicy(source) = {IF q = LoadFailed THEN q ELSE [q EXCEPT !.defaultAllow = source.defaultAllow] :
                              q \in LoadPolicyFromTable(source.columns, source.rows)}
  BY Zenon DEF LoadPolicy
<1> HIDE DEF LoadFailed
<1> QED BY <1>1, <1>2
==============================================================================
