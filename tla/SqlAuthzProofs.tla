--------------------------- MODULE SqlAuthzProofs ---------------------------
(***************************************************************************)
(* Theorems about SqlAuthz, for any list of parse trees of any shape and    *)
(* depth, any policy table and any principal:                               *)
(*                                                                          *)
(*   RequestIsInvariant   Spec => []RequestInv                              *)
(*   NamesAreTrue         Spec => []NamesWhatItReaches                      *)
(*   ActionIsTrue         Spec => []DoesWhatItSays                          *)
(*   NothingOpaquePasses  Spec => []OpaqueIsUnsafe                          *)
(*   AllowedThroughout    Spec => []AllowedInEveryPart                      *)
(*                                                                          *)
(* The walk of the inspector and the trails of the reference go down a tree *)
(* side by side.  For each sort of node a lemma says that its part of the   *)
(* walk, unless unsafe, finds what the reference says of the node and calls *)
(* each child in the scope that the reference has there (PartRead); another *)
(* that the node does nothing but what the action says (NodeDoes).  LevelInv*)
(* carries this from each level to the next: the calls to be made at a level*)
(* are those of the trails that end there.  By the bound of the depth no    *)
(* trail is left (WalkReads), and RequestInv carries it over the statements.*)
(* DecisionInv adds what the table says of the request.                     *)
(***************************************************************************)
EXTENDS SqlAuthz, PolicyProofs

(***************************************************************************)
(* The rounds of the walk and the levels of the tree.                       *)
(***************************************************************************)
FirstRound(s) == [Nothing EXCEPT !.todo = {Visit(s, {})}]
NextRound(last, action) ==
  Both([last EXCEPT !.todo = {}], All({WalkPart(v.node, v.ctes, action) : v \in last.todo}))

FirstLevel(s) == [seen |-> {}, last |-> {[up |-> <<>>, end |-> s]}]
NextLevel(above) == [seen |-> above.seen \cup above.last, last |-> UNION {Longer(t) : t \in above.last}]

\* Both at once: round d is made at level d.
Pair(w, l) == [walk |-> w, tree |-> l]
FirstPair(s) == Pair(FirstRound(s), FirstLevel(s))
NextPair(p, action) == Pair(NextRound(p.walk, action), NextLevel(p.tree))

\* The recursion up to n.
Runs(g, s, action, n) == g = [d \in 0..n |-> IF d = 0 THEN FirstPair(s) ELSE NextPair(g[d - 1], action)]

\* What the recursion starts from and how each of its values follows from the
\* one before.
LEMMA RunsStep ==
  ASSUME NEW s, NEW action, NEW n \in Nat, NEW g, Runs(g, s, action, n)
  PROVE  /\ g[0] = FirstPair(s)
         /\ \A d \in 1..n : g[d] = NextPair(g[d - 1], action)
<1> DEFINE Body(d) == IF d = 0 THEN FirstPair(s) ELSE NextPair(g[d - 1], action)
<1>1. \A d \in 0..n : g[d] = Body(d)
  BY Zenon DEF Runs
<1>2. 0 \in 0..n /\ \A d \in 1..n : d \in 0..n /\ d # 0
  OBVIOUS
<1> QED BY <1>1, <1>2, Zenon

\* The recursion is defined up to any depth.
LEMMA RunsExist ==
  ASSUME NEW s, NEW action, NEW n \in Nat
  PROVE  \E g : Runs(g, s, action, n)
<1> DEFINE T == {k \in Nat : ~\E g : Runs(g, s, action, k)}
<1> SUFFICES ASSUME T # {} PROVE FALSE
  OBVIOUS
<1>1. PICK k \in T : \A y \in T : k <= y
  <2>1. T \subseteq Nat
    OBVIOUS
  <2> HIDE DEF T
  <2> QED BY <2>1, NatMin
<1>2. k \in Nat /\ ~\E g : Runs(g, s, action, k)
  OBVIOUS
<1>3. CASE k = 0
  <2> DEFINE g == [d \in 0..0 |-> FirstPair(s)]
  <2>1. \A d \in 0..0 : d = 0
    OBVIOUS
  <2>2. g = [d \in 0..0 |-> IF d = 0 THEN FirstPair(s) ELSE NextPair(g[d - 1], action)]
    BY <2>1, Zenon
  <2>3. Runs(g, s, action, k)
    BY <1>3, <2>2, Zenon DEF Runs
  <2> QED BY <1>2, <2>3, Zenon
<1>4. CASE k # 0
  <2>1. k - 1 \in Nat /\ k - 1 < k
    BY <1>2, <1>4
  <2>2. k - 1 \notin T
    BY <1>1, <1>2, <2>1
  <2>3. PICK h : Runs(h, s, action, k - 1)
    BY <2>1, <2>2
  <2> DEFINE g == [d \in 0..k |-> IF d = k THEN NextPair(h[k - 1], action) ELSE h[d]]
             Body(d) == IF d = 0 THEN FirstPair(s) ELSE NextPair(g[d - 1], action)
  <2>4. ASSUME NEW d \in 0..k PROVE g[d] = Body(d)
    <3>1. CASE d = 0
      <4>1. g[d] = h[0]
        BY <1>2, <1>4, <3>1
      <4> QED BY <2>1, <2>3, <3>1, <4>1, RunsStep
    <3>2. CASE d # 0 /\ d # k
      <4>1. d \in 1..(k - 1) /\ d - 1 \in 0..k /\ d - 1 # k
        BY <1>2, <3>2
      <4>2. h[d] = NextPair(h[d - 1], action)
        BY <2>1, <2>3, <4>1, RunsStep
      <4>3. g[d] = h[d] /\ g[d - 1] = h[d - 1]
        BY <3>2, <4>1
      <4> HIDE DEF g
      <4> QED BY <3>2, <4>2, <4>3, Zenon
    <3>3. CASE d = k
      <4>1. k - 1 \in 0..k /\ k - 1 # k
        BY <2>1, <1>2
      <4>2. g[d] = NextPair(h[k - 1], action) /\ g[k - 1] = h[k - 1]
        BY <3>3, <4>1
      <4> HIDE DEF g
      <4> QED BY <1>4, <3>3, <4>2, Zenon
    <3> QED BY <3>1, <3>2, <3>3
  <2>5. g = [d \in 0..k |-> g[d]]
    OBVIOUS
  <2>6. Runs(g, s, action, k)
    <3> HIDE DEF g
    <3> QED BY <2>4, <2>5, Zenon DEF Runs
  <2> QED BY <1>2, <2>6, Zenon
<1> QED BY <1>3, <1>4

\* A run is determined by its length, and goes on as a shorter one began.
LEMMA RunsAgree ==
  ASSUME NEW s, NEW action, NEW n \in Nat, NEW k \in Nat, n <= k,
         NEW g, Runs(g, s, action, n), NEW h, Runs(h, s, action, k)
  PROVE  \A d \in 0..n : g[d] = h[d]
<1> DEFINE T == {d \in 0..n : g[d] # h[d]}
<1> SUFFICES ASSUME T # {} PROVE FALSE
  OBVIOUS
<1>1. PICK d \in T : \A y \in T : d <= y
  <2>1. T \subseteq Nat
    OBVIOUS
  <2> HIDE DEF T
  <2> QED BY <2>1, NatMin
<1>2. d \in 0..n /\ g[d] # h[d]
  OBVIOUS
<1>3. d # 0
  <2>1. g[0] = FirstPair(s) /\ h[0] = FirstPair(s)
    BY RunsStep
  <2> QED BY <1>2, <2>1
<1>4. d \in 1..n /\ d \in 1..k /\ d - 1 \in 0..n /\ d - 1 < d
  BY <1>2, <1>3
<1>5. g[d - 1] = h[d - 1]
  BY <1>1, <1>4
<1>6. g[d] = NextPair(g[d - 1], action) /\ h[d] = NextPair(h[d - 1], action)
  BY <1>4, RunsStep
<1> QED BY <1>2, <1>5, <1>6, Zenon

\* The recursion has a solution.
LEMMA PairsExist ==
  ASSUME NEW s, NEW action
  PROVE  \E f : /\ DOMAIN f = Nat /\ f[0] = FirstPair(s)
                /\ \A d \in Nat : f[d + 1] = NextPair(f[d], action)
<1> DEFINE G(n) == CHOOSE g : Runs(g, s, action, n)
           f == [n \in Nat |-> G(n)[n]]
<1>1. \A n \in Nat : Runs(G(n), s, action, n)
  <2> TAKE n \in Nat
  <2>1. \E g : Runs(g, s, action, n)
    BY RunsExist
  <2> QED BY <2>1, Zenon
<1>2. f[0] = FirstPair(s)
  <2>1. 0 \in Nat /\ Runs(G(0), s, action, 0)
    BY <1>1
  <2>2. f[0] = G(0)[0]
    BY <2>1, Zenon
  <2> HIDE DEF G, f
  <2> QED BY <2>1, <2>2, RunsStep
<1>3. ASSUME NEW d \in Nat PROVE f[d + 1] = NextPair(f[d], action)
  <2>1. d + 1 \in Nat /\ d <= d + 1 /\ d \in 0..d /\ d + 1 \in 1..(d + 1) /\ (d + 1) - 1 = d
    OBVIOUS
  <2>2. f[d] = G(d)[d] /\ f[d + 1] = G(d + 1)[d + 1]
    <3>1. \A n \in Nat : f[n] = G(n)[n]
      BY Zenon
    <3> HIDE DEF f, G
    <3> QED BY <2>1, <3>1, Zenon
  <2>3. Runs(G(d), s, action, d) /\ Runs(G(d + 1), s, action, d + 1)
    BY <1>1, <2>1
  <2> DEFINE a == G(d)
             b == G(d + 1)
  <2> HIDE DEF G, f
  <2>4. Runs(a, s, action, d) /\ Runs(b, s, action, d + 1)
    BY <2>3
  <2>5. f[d] = a[d] /\ f[d + 1] = b[d + 1]
    BY <2>2
  <2> HIDE DEF a, b
  <2>6. a[d] = b[d]
    BY <2>1, <2>4, RunsAgree
  <2>7. \A e \in 1..(d + 1) : b[e] = NextPair(b[e - 1], action)
    <3> DEFINE k == d + 1
    <3>1. k \in Nat /\ Runs(b, s, action, k)
      BY <2>1, <2>4
    <3> HIDE DEF k
    <3>2. \A e \in 1..k : b[e] = NextPair(b[e - 1], action)
      BY <3>1, RunsStep
    <3> QED BY <3>2 DEF k
  <2>8. b[d + 1] = NextPair(b[d], action)
    BY <2>1, <2>7
  <2> QED BY <2>5, <2>6, <2>8
<1>4. DOMAIN f = Nat
  OBVIOUS
<1> HIDE DEF f
<1> QED BY <1>2, <1>3, <1>4

\* f goes through the tree of s as Walk and Trails do.
Descends(f, s, action) ==
  /\ DOMAIN f = Nat /\ f[0] = FirstPair(s)
  /\ \A d \in Nat : f[d + 1] = NextPair(f[d], action)

\* One recursion to the bound yields both what the walk found and the trails
\* that the reference goes by.
LEMMA WalkAndTrails ==
  ASSUME NEW s, NEW action
  PROVE  \E f : /\ Descends(f, s, action)
                /\ Walk(s, action) = f[MaxDepth + 1].walk
                /\ Trails(s) = f[MaxDepth + 1].tree.seen
<1>1. PICK f : Descends(f, s, action)
  <2>1. \E f : /\ DOMAIN f = Nat /\ f[0] = FirstPair(s)
               /\ \A d \in Nat : f[d + 1] = NextPair(f[d], action)
    BY PairsExist
  <2> QED BY <2>1, Zenon DEF Descends
<1> DEFINE W(r, d) == IF d = 0 THEN FirstRound(s) ELSE NextRound(r[d - 1], action)
           L(l, d) == IF d = 0 THEN FirstLevel(s) ELSE NextLevel(l[d - 1])
           w == CHOOSE r : r = [d \in Nat |-> W(r, d)]
           v == CHOOSE l : l = [d \in Nat |-> L(l, d)]
<1>2. /\ f[0].walk = FirstRound(s) /\ f[0].tree = FirstLevel(s)
      /\ \A d \in Nat : /\ f[d + 1].walk = NextRound(f[d].walk, action)
                        /\ f[d + 1].tree = NextLevel(f[d].tree)
  <2>1. \A a, b : Pair(a, b).walk = a /\ Pair(a, b).tree = b
    BY DEF Pair
  <2>2. f[0] = Pair(FirstRound(s), FirstLevel(s))
    BY <1>1, Zenon DEF Descends, FirstPair
  <2>3. \A d \in Nat : f[d + 1] = Pair(NextRound(f[d].walk, action), NextLevel(f[d].tree))
    BY <1>1, Zenon DEF Descends, NextPair
  <2>4. f[0].walk = FirstRound(s) /\ f[0].tree = FirstLevel(s)
    BY <2>1, <2>2
  <2>5. ASSUME NEW d \in Nat
        PROVE  f[d + 1].walk = NextRound(f[d].walk, action) /\ f[d + 1].tree = NextLevel(f[d].tree)
    <3> DEFINE a == NextRound(f[d].walk, action)
               b == NextLevel(f[d].tree)
    <3>1. f[d + 1] = Pair(a, b)
      BY <2>3
    <3> HIDE DEF a, b
    <3>2. f[d + 1].walk = a /\ f[d + 1].tree = b
      BY <2>1, <3>1
    <3> QED BY <3>2 DEF a, b
  <2> QED BY <2>4, <2>5
<1>3. \A d \in Nat : d # 0 => d - 1 \in Nat /\ (d - 1) + 1 = d
  OBVIOUS
<1>4. w = [d \in Nat |-> W(w, d)]
  <2> DEFINE r == [d \in Nat |-> f[d].walk]
  <2>1. \A d \in Nat : r[d] = f[d].walk
    OBVIOUS
  <2>2. \A d \in Nat : r[d] = W(r, d)
    <3> TAKE d \in Nat
    <3> HIDE DEF r
    <3>1. CASE d = 0
      BY <1>2, <2>1, <3>1, Zenon
    <3>2. CASE d # 0
      <4>1. f[d].walk = NextRound(f[d - 1].walk, action)
        BY <1>2, <1>3, <3>2
      <4>2. r[d] = f[d].walk /\ r[d - 1] = f[d - 1].walk
        BY <1>3, <2>1, <3>2, Zenon
      <4> QED BY <3>2, <4>1, <4>2, Zenon
    <3> QED BY <3>1, <3>2
  <2>3. r = [d \in Nat |-> r[d]]
    OBVIOUS
  <2> HIDE DEF r, W
  <2>4. r = [d \in Nat |-> W(r, d)]
    BY <2>2, <2>3, Zenon
  <2> QED BY <2>4, Zenon
<1>5. v = [d \in Nat |-> L(v, d)]
  <2> DEFINE r == [d \in Nat |-> f[d].tree]
  <2>1. \A d \in Nat : r[d] = f[d].tree
    OBVIOUS
  <2>2. \A d \in Nat : r[d] = L(r, d)
    <3> TAKE d \in Nat
    <3> HIDE DEF r
    <3>1. CASE d = 0
      BY <1>2, <2>1, <3>1, Zenon
    <3>2. CASE d # 0
      <4>1. f[d].tree = NextLevel(f[d - 1].tree)
        BY <1>2, <1>3, <3>2
      <4>2. r[d] = f[d].tree /\ r[d - 1] = f[d - 1].tree
        BY <1>3, <2>1, <3>2, Zenon
      <4> QED BY <3>2, <4>1, <4>2, Zenon
    <3> QED BY <3>1, <3>2
  <2>3. r = [d \in Nat |-> r[d]]
    OBVIOUS
  <2> HIDE DEF r, L
  <2>4. r = [d \in Nat |-> L(r, d)]
    BY <2>2, <2>3, Zenon
  <2> QED BY <2>4, Zenon
<1>6. Walk(s, action) = w[MaxDepth + 1]
  BY Zenon DEF Walk, FirstRound, NextRound
<1>7. Trails(s) = v[MaxDepth + 1].seen
  BY Zenon DEF Trails, FirstLevel, NextLevel
<1> HIDE DEF w, v
<1>8. \A d \in Nat : w[d] = W(w, d) /\ v[d] = L(v, d)
  <2> HIDE DEF W, L
  <2> QED BY <1>4, <1>5, Zenon
<1>9. \A d \in Nat : w[d] = f[d].walk /\ v[d] = f[d].tree
  <2> DEFINE T == {d \in Nat : ~(w[d] = f[d].walk /\ v[d] = f[d].tree)}
  <2> SUFFICES ASSUME T # {} PROVE FALSE
    OBVIOUS
  <2>1. PICK d \in T : \A y \in T : d <= y
    <3>1. T \subseteq Nat
      OBVIOUS
    <3> HIDE DEF T
    <3> QED BY <3>1, NatMin
  <2>2. d \in Nat /\ ~(w[d] = f[d].walk /\ v[d] = f[d].tree)
    OBVIOUS
  <2>3. CASE d = 0
    BY <1>2, <1>8, <2>2, <2>3, Zenon
  <2>4. CASE d # 0
    <3>1. d - 1 \in Nat /\ (d - 1) + 1 = d /\ d - 1 < d
      BY <2>2, <2>4
    <3>2. w[d - 1] = f[d - 1].walk /\ v[d - 1] = f[d - 1].tree
      BY <2>1, <3>1
    <3>3. f[d].walk = NextRound(f[d - 1].walk, action) /\ f[d].tree = NextLevel(f[d - 1].tree)
      BY <1>2, <3>1
    <3>4. w[d] = NextRound(w[d - 1], action) /\ v[d] = NextLevel(v[d - 1])
      BY <1>8, <2>2, <2>4, Zenon
    <3> QED BY <2>2, <3>2, <3>3, <3>4, Zenon
  <2> QED BY <2>3, <2>4
<1>10. MaxDepth + 1 \in Nat
  BY DepthAssumption
<1> QED BY <1>1, <1>6, <1>7, <1>9, <1>10

(***************************************************************************)
(* What the calls of a node find.                                           *)
(***************************************************************************)
\* The calls on the nodes under some members.
CallsUnder(n, m, ctes) == {Visit(At(n, m)[i], ctes) : i \in {j \in DOMAIN At(n, m) : At(n, m)[j] # Null}}
Calls(n, members, ctes) == UNION {CallsUnder(n, m, ctes) : m \in members}

\* WalkEach finds nothing itself, and leaves its calls to be made.
LEMMA EachFound ==
  ASSUME NEW n, NEW members, NEW ctes
  PROVE  /\ WalkEach(n, members, ctes).objects = {} /\ WalkEach(n, members, ctes).columns = {}
         /\ WalkEach(n, members, ctes).unsafe = FALSE
         /\ WalkEach(n, members, ctes).todo = Calls(n, members, ctes)
<1> DEFINE C == Calls(n, members, ctes)
<1>1. WalkEach(n, members, ctes) = [Nothing EXCEPT !.todo = C]
  BY Zenon DEF WalkEach, Calls, CallsUnder
<1> HIDE DEF C
<1>2. /\ [Nothing EXCEPT !.todo = C].objects = {} /\ [Nothing EXCEPT !.todo = C].columns = {}
      /\ [Nothing EXCEPT !.todo = C].unsafe = FALSE /\ [Nothing EXCEPT !.todo = C].todo = C
  BY DEF Nothing
<1> QED BY <1>1, <1>2 DEF C

\* UnsafeIf finds nothing; it only says whether the request is unsafe.
LEMMA UnsafeIfFound ==
  ASSUME NEW b
  PROVE  /\ UnsafeIf(b).objects = {} /\ UnsafeIf(b).columns = {} /\ UnsafeIf(b).todo = {}
         /\ UnsafeIf(b).unsafe = b
BY DEF UnsafeIf, Nothing

\* Two findings together name what either names and ask for what either asks.
LEMMA BothFound ==
  ASSUME NEW f, NEW g
  PROVE  /\ Both(f, g).objects = f.objects \cup g.objects /\ Both(f, g).columns = f.columns \cup g.columns
         /\ Both(f, g).todo = f.todo \cup g.todo
BY DEF Both

\* An unsafe finding stays unsafe whatever is added to it.
LEMMA BothUnsafe ==
  ASSUME NEW f, NEW g, ~Both(f, g).unsafe
  PROVE  ~f.unsafe /\ ~g.unsafe
BY DEF Both

\* Any number of findings name what one of them names,
LEMMA AllFound ==
  ASSUME NEW found
  PROVE  /\ All(found).objects = UNION {f.objects : f \in found}
         /\ All(found).columns = UNION {f.columns : f \in found}
         /\ All(found).todo = UNION {f.todo : f \in found}
BY DEF All

\* and are unsafe if one of them is.
LEMMA AllUnsafe ==
  ASSUME NEW found, ~All(found).unsafe, NEW f \in found
  PROVE  ~f.unsafe
BY DEF All

\* WalkRequired makes the same calls.
LEMMA RequiredFound ==
  ASSUME NEW n, NEW members, NEW ctes
  PROVE  /\ WalkRequired(n, members, ctes).objects = {} /\ WalkRequired(n, members, ctes).columns = {}
         /\ WalkRequired(n, members, ctes).todo = Calls(n, members, ctes)
<1> DEFINE f == WalkEach(n, members, ctes)
           b == \E m \in members : \E i \in DOMAIN At(n, m) : At(n, m)[i] = Null
           g == UnsafeIf(b)
           C == Calls(n, members, ctes)
<1>1. WalkRequired(n, members, ctes) = Both(f, g)
  BY Zenon DEF WalkRequired
<1>2. f.objects = {} /\ f.columns = {} /\ f.todo = C
  BY EachFound
<1>3. g.objects = {} /\ g.columns = {} /\ g.todo = {}
  <2> HIDE DEF b
  <2> QED BY UnsafeIfFound
<1> HIDE DEF f, g, C, b
<1>4. /\ Both(f, g).objects = f.objects \cup g.objects /\ Both(f, g).columns = f.columns \cup g.columns
      /\ Both(f, g).todo = f.todo \cup g.todo
  BY BothFound, Zenon
<1>5. Both(f, g).objects = {} /\ Both(f, g).columns = {} /\ Both(f, g).todo = C
  BY <1>2, <1>3, <1>4
<1> QED BY <1>1, <1>5 DEF C

\* AllFound for the three findings of a node that is read in three parts.
LEMMA AllOfThree ==
  ASSUME NEW f, NEW g, NEW h
  PROVE  /\ All({f, g, h}).objects = f.objects \cup g.objects \cup h.objects
         /\ All({f, g, h}).columns = f.columns \cup g.columns \cup h.columns
         /\ All({f, g, h}).todo = f.todo \cup g.todo \cup h.todo
<1>1. UNION {x.objects : x \in {f, g, h}} = f.objects \cup g.objects \cup h.objects
  OBVIOUS
<1>2. UNION {x.columns : x \in {f, g, h}} = f.columns \cup g.columns \cup h.columns
  OBVIOUS
<1>3. UNION {x.todo : x \in {f, g, h}} = f.todo \cup g.todo \cup h.todo
  OBVIOUS
<1> QED BY <1>1, <1>2, <1>3, AllFound

\* Calls under members that a node lacks are none.
LEMMA CallsMember ==
  ASSUME NEW n, NEW members, NEW ctes, NEW v
  PROVE  v \in Calls(n, members, ctes) <=>
         \E m \in members \cap DOMAIN n.kids : \E i \in DOMAIN n.kids[m] :
           n.kids[m][i] # Null /\ v = Visit(n.kids[m][i], ctes)
<1>1. \A m : m \notin DOMAIN n.kids => DOMAIN At(n, m) = {}
  BY DEF At
<1>2. \A m \in DOMAIN n.kids : At(n, m) = n.kids[m]
  BY DEF At
<1>3. ASSUME NEW m PROVE v \in CallsUnder(n, m, ctes) <=>
        \E i \in DOMAIN At(n, m) : At(n, m)[i] # Null /\ v = Visit(At(n, m)[i], ctes)
  BY DEF CallsUnder
<1>4. v \in Calls(n, members, ctes) <=> \E m \in members : v \in CallsUnder(n, m, ctes)
  BY DEF Calls
<1> QED BY <1>1, <1>2, <1>3, <1>4, Zenon

\* The calls under two sets of members are those under both together.
LEMMA CallsUnion ==
  ASSUME NEW n, NEW A, NEW B, NEW ctes
  PROVE  Calls(n, A, ctes) \cup Calls(n, B, ctes) = Calls(n, A \cup B, ctes)
BY DEF Calls

\* Members that a node does not have add no call.
LEMMA CallsAll ==
  ASSUME NEW n, NEW members, NEW ctes, DOMAIN n.kids \subseteq members
  PROVE  Calls(n, members, ctes) = Calls(n, DOMAIN n.kids, ctes)
<1> DEFINE D == DOMAIN n.kids
<1>1. \A m : m \notin D => CallsUnder(n, m, ctes) = {}
  BY DEF At, CallsUnder
<1> HIDE DEF D
<1>2. Calls(n, members, ctes) = Calls(n, D, ctes)
  <2>1. D \subseteq members
    BY DEF D
  <2> QED BY <1>1, <2>1 DEF Calls
<1> QED BY <1>2 DEF D

(***************************************************************************)
(* Names.                                                                   *)
(***************************************************************************)
\* What a name is made of; the provers do not know that a literal is a string.
Pieces == STRING \cup {"main", ".", "information_schema", "tables", "fn:", "schema:", "catalog:",
                       "duckdb_tables", "duckdb_columns", "*"}
Names == Seq(Pieces)

\* A name of one piece.
LEMMA OnePiece ==
  ASSUME NEW S, NEW x \in S
  PROVE  <<x>> \in Seq(S) /\ Len(<<x>>) = 1 /\ <<x>>[1] = x /\ <<x>> # <<>>
  OBVIOUS

\* A name with one piece appended.
LEMMA Joined ==
  ASSUME NEW S, NEW a \in Seq(S), NEW x \in S
  PROVE  /\ a \o <<x>> \in Seq(S) /\ Len(a \o <<x>>) = Len(a) + 1 /\ (a \o <<x>>)[Len(a) + 1] = x
         /\ \A i \in 1..Len(a) : (a \o <<x>>)[i] = a[i]
<1> DEFINE y == <<x>>
<1>1. y \in Seq(S) /\ Len(y) = 1 /\ y[1] = x
  BY OnePiece
<1>2. Len(a) \in Nat
  BY LenProperties
<1> HIDE DEF y
<1>3. /\ a \o y \in Seq(S) /\ Len(a \o y) = Len(a) + Len(y)
      /\ \A i \in 1..(Len(a) + Len(y)) : (a \o y)[i] = IF i <= Len(a) THEN a[i] ELSE y[i - Len(a)]
  BY <1>1, ConcatProperties
<1> DEFINE k == Len(a)
           c == a \o y
<1>4. k \in Nat /\ c \in Seq(S) /\ Len(c) = k + 1 /\ \A i \in 1..(k + 1) : c[i] = IF i <= k THEN a[i] ELSE y[i - k]
  BY <1>1, <1>2, <1>3
<1> HIDE DEF k, c
<1>5. k + 1 \in 1..(k + 1) /\ ~(k + 1 <= k) /\ (k + 1) - k = 1 /\ \A i \in 1..k : i \in 1..(k + 1) /\ i <= k
  BY <1>4
<1>6. c[k + 1] = x /\ \A i \in 1..k : c[i] = a[i]
  BY <1>1, <1>4, <1>5
<1> QED BY <1>4, <1>6 DEF k, c, y

\* A name put together from three pieces.
LEMMA ThreeJoined ==
  ASSUME NEW S, NEW x \in S, NEW y \in S, NEW z \in S
  PROVE  <<x>> \o <<y>> \o <<z>> = <<x, y, z>>
<1> DEFINE a == <<x>>
           b == a \o <<y>>
           c == b \o <<z>>
           t == <<x, y, z>>
<1>1. a \in Seq(S) /\ Len(a) = 1 /\ a[1] = x
  BY OnePiece
<1> HIDE DEF a
<1>2. b \in Seq(S) /\ Len(b) = 2 /\ b[1] = x /\ b[2] = y
  <2>1. /\ b \in Seq(S) /\ Len(b) = Len(a) + 1 /\ b[Len(a) + 1] = y /\ \A i \in 1..Len(a) : b[i] = a[i]
    <3>1. a \in Seq(S)
      BY <1>1
    <3> QED BY <3>1, Joined
  <2> HIDE DEF b
  <2> QED BY <1>1, <2>1
<1> HIDE DEF b
<1>3. c \in Seq(S) /\ Len(c) = 3 /\ c[1] = x /\ c[2] = y /\ c[3] = z
  <2>1. /\ c \in Seq(S) /\ Len(c) = Len(b) + 1 /\ c[Len(b) + 1] = z /\ \A i \in 1..Len(b) : c[i] = b[i]
    <3>1. b \in Seq(S)
      BY <1>2
    <3> QED BY <3>1, Joined
  <2> HIDE DEF c
  <2> QED BY <1>2, <2>1
<1>4. t \in Seq(S) /\ Len(t) = 3 /\ t[1] = x /\ t[2] = y /\ t[3] = z
  OBVIOUS
<1> HIDE DEF c, t
<1>5. \A i \in 1..3 : i = 1 \/ i = 2 \/ i = 3
  OBVIOUS
<1>6. \A i \in 1..Len(c) : c[i] = t[i]
  BY <1>3, <1>4, <1>5
<1>7. c = t
  BY <1>3, <1>4, <1>6, SeqEqual
<1> QED BY <1>7 DEF a, b, c, t

\* Lower case keeps the length of a name, and the empty name empty.
LEMMA Lowered ==
  ASSUME NEW name \in Names
  PROVE  /\ LowerAscii(name) \in Names /\ Len(LowerAscii(name)) = Len(name)
         /\ (LowerAscii(name) = <<>> <=> name = <<>>)
<1>1. \A ch \in Pieces : Lower(ch) \in Pieces
  BY PoliciesAssumption DEF Lower, Pieces
<1>2. LowerAscii(name) = [i \in 1..Len(name) |-> Lower(name[i])]
  BY LenProperties DEF LowerAscii, Names
<1>3. \A i \in 1..Len(name) : Lower(name[i]) \in Pieces
  BY <1>1, ElementOfSeq DEF Names
<1>4. LowerAscii(name) \in Names /\ Len(LowerAscii(name)) = Len(name)
  <2> DEFINE low == LowerAscii(name)
             k == Len(name)
  <2>1. k \in Nat /\ DOMAIN low = 1..k /\ low = [i \in 1..k |-> low[i]] /\ \A i \in 1..k : low[i] \in Pieces
    BY <1>2, <1>3, LenProperties DEF Names
  <2> HIDE DEF low, k
  <2>2. low \in Seq(Pieces) /\ Len(low) = k
    BY <2>1, SeqByElements
  <2> QED BY <2>2 DEF low, k, Names
<1>5. LowerAscii(name) = <<>> <=> Len(LowerAscii(name)) = 0
  BY <1>4, EmptySeq DEF Names
<1>6. name = <<>> <=> Len(name) = 0
  BY EmptySeq DEF Names
<1> QED BY <1>4, <1>5, <1>6

\* A list over a set is one over any larger set.
LEMMA SeqSubset ==
  ASSUME NEW S, NEW T, S \subseteq T
  PROVE  Seq(S) \subseteq Seq(T)
  OBVIOUS

\* What the parse tree names is a list of pieces.
LEMMA StringNames == Seq(STRING) \subseteq Names
<1>1. STRING \subseteq Pieces
  BY DEF Pieces
<1> QED BY <1>1, SeqSubset, Zenon DEF Names

\* A name of two parts is that of the open view only if its schema is.
LEMMA ThreePieces ==
  ASSUME NEW S, NEW a \in Seq(S), NEW b \in Seq(S), a # <<>>, b # <<>>, NEW x \in S, NEW y \in S, NEW z \in S,
         a \o <<x>> \o b = <<y, x, z>>
  PROVE  a = <<y>>
<1> DEFINE c == a \o <<x>>
           whole == c \o b
           i == Len(a)
           j == Len(b)
<1>1. c \in Seq(S) /\ Len(c) = i + 1 /\ \A k \in 1..i : c[k] = a[k]
  BY Joined
<1>2. i \in Nat \ {0} /\ j \in Nat \ {0}
  BY EmptySeq
<1> HIDE DEF c
<1>3. /\ Len(whole) = Len(c) + j
      /\ \A k \in 1..(Len(c) + j) : whole[k] = IF k <= Len(c) THEN c[k] ELSE b[k - Len(c)]
  BY <1>1, ConcatProperties
<1>4. whole = <<y, x, z>>
  BY DEF c
<1> HIDE DEF whole
<1>5. Len(whole) = 3 /\ whole[1] = y
  BY <1>4
<1> HIDE DEF i, j
<1>6. i = 1
  <2>1. 3 = (i + 1) + j
    BY <1>1, <1>3, <1>5, Zenon
  <2> QED BY <1>2, <2>1
<1>7. whole[1] = c[1] /\ c[1] = a[1]
  BY <1>1, <1>2, <1>3, <1>6
<1>8. Len(a) = 1 /\ a[1] = y
  BY <1>5, <1>6, <1>7 DEF i
<1> HIDE DEF i
<1>9. <<y>> \in Seq(S) /\ Len(<<y>>) = 1 /\ <<y>>[1] = y
  BY OnePiece
<1>10. \A k \in 1..Len(a) : a[k] = <<y>>[k]
  <2>1. \A k \in 1..1 : k = 1
    OBVIOUS
  <2> QED BY <1>8, <1>9, <2>1
<1> QED BY <1>8, <1>9, <1>10, SeqEqual

\* A table that is named without objection goes by its name in a policy.
LEMMA ObjectAdded ==
  ASSUME NEW target \in Targets, ~AddObject(target).unsafe
  PROVE  AddObject(target).objects = PolicyName(target)
<1> DEFINE schema   == IF target[2] = NoName THEN <<"main">> ELSE LowerAscii(target[2])
           table    == LowerAscii(target[3])
           system   == schema \in Words({"information_schema", "pg_catalog"})
           reserved == schema = <<"main">> /\ LooksLikeUnqualifiedSystemView(table)
           allowed  == IsAllowedSystemView(schema, table)
           object   == schema \o <<".">> \o table
<1>1. target[1] \in Names /\ target[2] \in Names /\ target[3] \in Names
  BY StringNames DEF Targets
<1>2. schema \in Names /\ schema # <<>>
  <2>1. "main" \in Pieces
    BY DEF Pieces
  <2>2. <<"main">> \in Names /\ <<"main">> # <<>>
    BY <2>1, OnePiece DEF Names
  <2> QED BY <1>1, <2>2, Lowered, Zenon DEF NoName
<1>3. table \in Names /\ (target[3] # NoName => table # <<>>)
  BY <1>1, Lowered DEF NoName
<1>4. target[3] # NoName =>
        AddObject(target) = [ objects |-> IF system \/ reserved THEN {} ELSE {object}, columns |-> {}, todo |-> {},
                              unsafe |-> target[1] # NoName \/ reserved \/ (system /\ ~allowed) ]
  BY Zenon DEF AddObject
<1>5. PolicyName(target) = IF target[3] = NoName \/ object = <<"information_schema", ".", "tables">> THEN {} ELSE {object}
  BY Zenon DEF PolicyName
<1>6. allowed => object = <<"information_schema", ".", "tables">>
  <2>1. "information_schema" \in Pieces /\ "." \in Pieces /\ "tables" \in Pieces
    BY DEF Pieces
  <2>2. <<"information_schema">> \o <<".">> \o <<"tables">> = <<"information_schema", ".", "tables">>
    BY <2>1, ThreeJoined
  <2> QED BY <2>2, Zenon DEF IsAllowedSystemView
<1>7. table # <<>> /\ object = <<"information_schema", ".", "tables">> => schema = <<"information_schema">>
  <2>1. "information_schema" \in Pieces /\ "." \in Pieces /\ "tables" \in Pieces
    BY DEF Pieces
  <2> DEFINE y == "information_schema"
             x == "."
             z == "tables"
  <2>2. y \in Pieces /\ x \in Pieces /\ z \in Pieces
    BY <2>1
  <2>3. object = schema \o <<x>> \o table
    OBVIOUS
  <2> HIDE DEF schema, table, object, x, y, z
  <2>4. ASSUME table # <<>>, object = <<y, x, z>> PROVE schema = <<y>>
    <3>1. schema \in Seq(Pieces) /\ table \in Seq(Pieces) /\ schema # <<>>
      BY <1>2, <1>3 DEF Names
    <3>2. schema \o <<x>> \o table = <<y, x, z>>
      BY <2>3, <2>4
    <3> QED BY <2>2, <2>4, <3>1, <3>2, ThreePieces
  <2> QED BY <2>4 DEF x, y, z
<1>8. schema = <<"information_schema">> => system
  BY DEF Words
<1>9. target[3] = NoName => AddObject(target).objects = {}
  BY DEF AddObject, Nothing
<1> HIDE DEF schema, table, system, reserved, allowed, object
<1>10. CASE target[3] = NoName
  BY <1>5, <1>9, <1>10
<1>11. CASE target[3] # NoName
  <2>1. AddObject(target).objects = (IF system \/ reserved THEN {} ELSE {object})
    BY <1>4, <1>11
  <2>2. ~reserved /\ (system => allowed)
    <3>1. AddObject(target).unsafe = (target[1] # NoName \/ reserved \/ (system /\ ~allowed))
      BY <1>4, <1>11
    <3> QED BY <3>1, Zenon
  <2> QED BY <1>3, <1>5, <1>6, <1>7, <1>8, <1>11, <2>1, <2>2, Zenon
<1> QED BY <1>10, <1>11

\* ... and that name is one that a policy can match.
LEMMA PolicyNames ==
  ASSUME NEW target \in Targets
  PROVE  PolicyName(target) \subseteq Names
<1> DEFINE schema == IF target[2] = NoName THEN <<"main">> ELSE LowerAscii(target[2])
           table  == LowerAscii(target[3])
           dot    == <<".">>
           object == schema \o dot \o table
<1>1. target[2] \in Names /\ target[3] \in Names
  BY StringNames DEF Targets
<1>2. "main" \in Pieces /\ "." \in Pieces
  BY DEF Pieces
<1>3. <<"main">> \in Names /\ dot \in Names
  BY <1>2, OnePiece DEF Names
<1>4. schema \in Names /\ table \in Names
  BY <1>1, <1>3, Lowered, Zenon
<1>5. PolicyName(target) \subseteq {object}
  BY DEF PolicyName
<1> HIDE DEF schema, table, dot
<1>6. schema \o dot \in Names
  BY <1>3, <1>4, ConcatProperties DEF Names
<1>7. object \in Names
  BY <1>4, <1>6, ConcatProperties DEF Names
<1> QED BY <1>5, <1>7

\* Nothing else is found with it.
LEMMA ObjectOnly ==
  ASSUME NEW target
  PROVE  AddObject(target).columns = {} /\ AddObject(target).todo = {}
BY DEF AddObject, Nothing

\* AddNamedObject finds the object and nothing else.
LEMMA NamedObject ==
  ASSUME NEW name
  PROVE  /\ AddNamedObject(name).objects = {name} /\ AddNamedObject(name).columns = {}
         /\ AddNamedObject(name).todo = {} /\ AddNamedObject(name).unsafe = FALSE
BY DEF AddNamedObject, Nothing

\* The fields of the two constant findings.
LEMMA NothingFound ==
  /\ Nothing.objects = {} /\ Nothing.columns = {} /\ Nothing.todo = {} /\ Nothing.unsafe = FALSE
  /\ Unsafe.objects = {} /\ Unsafe.columns = {} /\ Unsafe.todo = {} /\ Unsafe.unsafe = TRUE
BY DEF Nothing, Unsafe, UnsafeIf

(***************************************************************************)
(* What the reference says of a node, apart from where it is.               *)
(***************************************************************************)
ObjectsOf(n, bound) ==
  CASE \/ n.sort = "ref" /\ n.kind = "BASE_TABLE"
       \/ n.sort = "ref" /\ n.kind = "SHOW_REF" /\ "query" \notin DOMAIN n.kids
                         /\ n.name[3] \notin Words({"\"databases\"", "\"schemas\"", "\"tables\"", "__show_tables_expanded"}) ->
         IF bound THEN {} ELSE PolicyName(n.name)
    [] n.sort = "ref" /\ n.kind = "TABLE_FUNCTION" ->
         {<<"fn:">> \o LowerAscii(n.kids.function[i].name) : i \in DOMAIN n.kids.function}
           \ {<<"fn:", "duckdb_tables">>, <<"fn:", "duckdb_columns">>}
    [] n.sort \in {"create", "drop", "alter", "copy"} ->
         IF n.sort = "create" /\ n.kind = "SCHEMA_ENTRY" THEN {<<"schema:">> \o LowerAscii(n.name[2])}
         ELSE PolicyName(n.name)
    [] n.sort \in {"query", "body"} /\ n.kind = "INSERT" -> PolicyName(n.name)
    [] n.sort = "detach" -> {<<"catalog:">> \o LowerAscii(n.name)}
    [] OTHER -> {}

ColumnsOf(n) ==
  CASE n.sort = "expression" /\ n.kind = "COLUMN_REF" -> {LowerAscii(n.name)}
    [] n.sort = "expression" /\ n.kind = "STAR"       -> {<<"*">>}
    [] OTHER -> {}

Opaque(n) ==
  \/ n.kind = "UNKNOWN" \/ n.kind \in {"MACRO_ENTRY", "TABLE_MACRO_ENTRY"}
  \/ \E i \in DOMAIN At(n, "function") : LowerAscii(n.kids.function[i].name) \in Words({"query", "query_table"})

KidsParsed(n) ==
  \A m \in DOMAIN n.kids : \A i \in DOMAIN n.kids[m] : n.kids[m][i] # Null => ParsedNode(n.kids[m][i])

\* The walk of a node finds what is there, and calls on all nodes below.
Reads(n, ctes, found) ==
  /\ found.todo = Calls(n, DOMAIN n.kids, ctes)
  /\ found.objects = ObjectsOf(n, IsCte(n.name, ctes))
  /\ found.columns = ColumnsOf(n)
  /\ ~Opaque(n)

\* A pair of the grammar that Under writes is of one of its members.
LEMMA UnderIn ==
  ASSUME NEW members, NEW sort, NEW p \in Under(members, sort)
  PROVE  p[1] \in members /\ p[2] = sort
BY DEF Under

\* A node of a kind that is known has only the parts that the parser gives it.
LEMMA KnownParts ==
  ASSUME NEW n, ParsedNode(n), n.kind # "UNKNOWN"
  PROVE  \A m \in DOMAIN n.kids : \E p \in Parts(n) : m = p[1]
BY DEF ParsedNode

\* A node that calls no function by name is opaque only by its kind.
LEMMA NoFunction ==
  ASSUME NEW n, n.kind \notin {"UNKNOWN", "MACRO_ENTRY", "TABLE_MACRO_ENTRY"}, "function" \notin DOMAIN n.kids
  PROVE  ~Opaque(n)
BY DEF Opaque, At

(***************************************************************************)
(* The walk of each sort of node.                                           *)
(***************************************************************************)
LEMMA ExpressionRead ==
  ASSUME NEW n, ParsedNode(n), n.sort = "expression", NEW ctes, ~WalkExpression(n, ctes).unsafe
  PROVE  Reads(n, ctes, WalkExpression(n, ctes))
<1> DEFINE f == CASE n.kind = "COLUMN_REF" -> AddColumn(n.name)
                  [] n.kind = "STAR"       -> AddColumn(<<"*">>)
                  [] n.kind = "SUBQUERY"   -> WalkRequired(n, {"subquery"}, ctes)
                  [] n.kind = "FUNCTION"   -> UnsafeIf(LowerAscii(n.name) \in
                                                Words({"current_setting", "getvariable", "nextval", "currval"}))
                  [] OTHER                 -> Nothing
           g == WalkEach(n, {"children"}, ctes)
           M == IF n.kind = "SUBQUERY" THEN {"subquery", "children"} ELSE {"children"}
<1>1. WalkExpression(n, ctes) = Both(f, g)
  BY Zenon DEF WalkExpression
<1>2. g.objects = {} /\ g.columns = {} /\ g.todo = Calls(n, {"children"}, ctes)
  BY EachFound
<1>3. f.objects = {} /\ f.columns = ColumnsOf(n)
  <2>1. LowerAscii(<<"*">>) = <<"*">>
    BY PolicyAssumption DEF LowerAscii, Lower
  <2>2. n.kind = "COLUMN_REF" => n.name # NoName
    BY DEF ParsedNode
  <2>3. CASE n.kind = "SUBQUERY"
    BY <2>3, RequiredFound DEF ColumnsOf
  <2>4. CASE n.kind # "SUBQUERY"
    BY <2>1, <2>2, <2>4 DEF ColumnsOf, AddColumn, UnsafeIf, Nothing, NoName
  <2> QED BY <2>3, <2>4
<1>4. f.todo = IF n.kind = "SUBQUERY" THEN Calls(n, {"subquery"}, ctes) ELSE {}
  <2>1. CASE n.kind = "SUBQUERY"
    BY <2>1, RequiredFound
  <2>2. CASE n.kind # "SUBQUERY"
    BY <2>2 DEF AddColumn, UnsafeIf, Nothing
  <2> QED BY <2>1, <2>2
<1>5. n.kind \notin {"UNKNOWN", "MACRO_ENTRY", "TABLE_MACRO_ENTRY"}
  BY DEF ParsedNode, OpenSorts
<1>6. DOMAIN n.kids \subseteq M
  <2>1. \A m \in DOMAIN n.kids : \E p \in Parts(n) : m = p[1]
    BY <1>5, KnownParts
  <2>2. Parts(n) = Under({"children"}, "expression") \cup Under(IF n.kind = "SUBQUERY" THEN {"subquery"} ELSE {}, "query")
    BY DEF Parts
  <2> QED BY <2>1, <2>2, UnderIn
<1> HIDE DEF f, g
<1>11. /\ Both(f, g).objects = f.objects \cup g.objects /\ Both(f, g).columns = f.columns \cup g.columns
       /\ Both(f, g).todo = f.todo \cup g.todo
  BY BothFound, Zenon
<1>7. Both(f, g).todo = Calls(n, DOMAIN n.kids, ctes)
  <2>1. Both(f, g).todo = Calls(n, M, ctes)
    <3>1. Calls(n, {"subquery"}, ctes) \cup Calls(n, {"children"}, ctes) = Calls(n, {"subquery"} \cup {"children"}, ctes)
      BY CallsUnion
    <3>2. {"subquery"} \cup {"children"} = {"subquery", "children"}
      OBVIOUS
    <3> QED BY <1>2, <1>4, <3>1, <3>2, <1>11
  <2> QED BY <1>6, <2>1, CallsAll
<1>8. Both(f, g).objects = {} /\ Both(f, g).columns = ColumnsOf(n)
  BY <1>2, <1>3, <1>11
<1>9. ObjectsOf(n, IsCte(n.name, ctes)) = {}
  BY DEF ObjectsOf
<1>10. ~Opaque(n)
  BY <1>5, <1>6, NoFunction
<1> QED BY <1>1, <1>7, <1>8, <1>9, <1>10 DEF Reads

\* A node whose parts are all called on, and that names no columns.
LEMMA PlainRead ==
  ASSUME NEW n, NEW ctes, NEW found, NEW members, n.sort # "expression", DOMAIN n.kids \subseteq members,
         "function" \notin members, n.kind \notin {"UNKNOWN", "MACRO_ENTRY", "TABLE_MACRO_ENTRY"},
         found.todo = Calls(n, members, ctes), found.columns = {},
         found.objects = ObjectsOf(n, IsCte(n.name, ctes))
  PROVE  Reads(n, ctes, found)
<1>1. found.todo = Calls(n, DOMAIN n.kids, ctes)
  BY CallsAll
<1>2. ColumnsOf(n) = {}
  BY DEF ColumnsOf
<1>3. ~Opaque(n)
  BY NoFunction
<1> QED BY <1>1, <1>2, <1>3 DEF Reads

\* The sorts of which the inspector knows every kind.
LEMMA ClosedKind ==
  ASSUME NEW n, ParsedNode(n), n.sort \notin OpenSorts
  PROVE  n.kind \notin {"UNKNOWN", "MACRO_ENTRY", "TABLE_MACRO_ENTRY"}
BY DEF ParsedNode

\* Nodes of these sorts name nothing themselves.
LEMMA NamesNothing ==
  ASSUME NEW n, NEW b, n.sort \notin {"ref", "create", "drop", "alter", "copy", "query", "body", "detach"}
  PROVE  ObjectsOf(n, b) = {}
BY DEF ObjectsOf

\* WalkCte reads the query of a definition.
LEMMA CteRead ==
  ASSUME NEW n, ParsedNode(n), n.sort = "cte", NEW ctes
  PROVE  Reads(n, ctes, WalkCte(n, ctes))
<1> DEFINE M == {"query"}
           found == WalkCte(n, ctes)
<1>1. n.kind \notin {"UNKNOWN", "MACRO_ENTRY", "TABLE_MACRO_ENTRY"}
  BY ClosedKind DEF OpenSorts
<1>2. DOMAIN n.kids \subseteq M
  <2>1. Parts(n) = Under(M, "query")
    BY DEF Parts
  <2> QED BY <1>1, <2>1, KnownParts, UnderIn
<1>3. found.objects = {} /\ found.columns = {} /\ found.todo = Calls(n, M, ctes)
  BY RequiredFound DEF WalkCte
<1>4. found.objects = ObjectsOf(n, IsCte(n.name, ctes))
  BY <1>3, NamesNothing
<1> HIDE DEF found
<1>5. "function" \notin M
  OBVIOUS
<1> HIDE DEF M
<1>6. Reads(n, ctes, found)
  BY <1>1, <1>2, <1>3, <1>4, <1>5, PlainRead
<1> QED BY <1>6 DEF found

\* WalkModifier reads ORDER BY, LIMIT and DISTINCT, or calls them unsafe.
LEMMA ModifierRead ==
  ASSUME NEW n, ParsedNode(n), n.sort = "modifier", NEW ctes, ~WalkModifier(n, ctes).unsafe
  PROVE  Reads(n, ctes, WalkModifier(n, ctes))
<1> DEFINE M == CASE n.kind = "ORDER_MODIFIER" -> {"orders"}
                  [] n.kind = "DISTINCT_MODIFIER" -> {"distinct_on_targets"}
                  [] OTHER -> {"limit", "offset"}
           found == WalkModifier(n, ctes)
<1>1. n.kind \in {"ORDER_MODIFIER", "LIMIT_MODIFIER", "LIMIT_PERCENT_MODIFIER", "DISTINCT_MODIFIER"}
  BY NothingFound DEF WalkModifier
<1>2. DOMAIN n.kids \subseteq M
  <2>1. Parts(n) = Under(M, "expression")
    BY DEF Parts
  <2> HIDE DEF M
  <2> QED BY <1>1, <2>1, KnownParts, UnderIn
<1>3. found.objects = {} /\ found.columns = {} /\ found.todo = Calls(n, M, ctes)
  <2>1. found = WalkRequired(n, M, ctes) \/ found = WalkEach(n, M, ctes)
    BY <1>1 DEF WalkModifier
  <2> HIDE DEF found, M
  <2>2. CASE found = WalkRequired(n, M, ctes)
    BY <2>2, RequiredFound
  <2>3. CASE found = WalkEach(n, M, ctes)
    BY <2>3, EachFound
  <2> QED BY <2>1, <2>2, <2>3
<1>4. found.objects = ObjectsOf(n, IsCte(n.name, ctes))
  BY <1>3, NamesNothing
<1>5. "function" \notin M /\ n.kind \notin {"UNKNOWN", "MACRO_ENTRY", "TABLE_MACRO_ENTRY"}
  BY <1>1
<1> HIDE DEF found, M
<1>6. Reads(n, ctes, found)
  BY <1>2, <1>3, <1>4, <1>5, PlainRead
<1> QED BY <1>6 DEF found

\* WalkSetInfo reads the expressions and the condition of an UPDATE's SET.
LEMMA SetInfoRead ==
  ASSUME NEW n, ParsedNode(n), n.sort = "set_info", NEW ctes
  PROVE  Reads(n, ctes, WalkSetInfo(n, ctes))
<1> DEFINE M == {"expressions", "condition"}
           found == WalkSetInfo(n, ctes)
<1>1. n.kind \notin {"UNKNOWN", "MACRO_ENTRY", "TABLE_MACRO_ENTRY"}
  BY ClosedKind DEF OpenSorts
<1>2. DOMAIN n.kids \subseteq M
  <2>1. Parts(n) = Under(M, "expression")
    BY DEF Parts
  <2> QED BY <1>1, <2>1, KnownParts, UnderIn
<1>3. found.objects = {} /\ found.columns = {} /\ found.todo = Calls(n, M, ctes)
  BY EachFound DEF WalkSetInfo
<1>4. found.objects = ObjectsOf(n, IsCte(n.name, ctes))
  BY <1>3, NamesNothing
<1>5. "function" \notin M
  OBVIOUS
<1> HIDE DEF found, M
<1>6. Reads(n, ctes, found)
  BY <1>1, <1>2, <1>3, <1>4, <1>5, PlainRead
<1> QED BY <1>6 DEF found

\* WalkMergeAction reads all an action of MERGE is made of.
LEMMA MergeActionRead ==
  ASSUME NEW n, ParsedNode(n), n.sort = "merge_action", NEW ctes
  PROVE  Reads(n, ctes, WalkMergeAction(n, ctes))
<1> DEFINE M == {"condition", "update_info", "expressions"}
           found == WalkMergeAction(n, ctes)
<1>1. n.kind \notin {"UNKNOWN", "MACRO_ENTRY", "TABLE_MACRO_ENTRY"}
  BY ClosedKind DEF OpenSorts
<1>2. DOMAIN n.kids \subseteq M
  <2>1. Parts(n) = Under({"condition", "expressions"}, "expression") \cup Under({"update_info"}, "set_info")
    BY DEF Parts
  <2> QED BY <1>1, <2>1, KnownParts, UnderIn
<1>3. found.objects = {} /\ found.columns = {} /\ found.todo = Calls(n, M, ctes)
  BY EachFound DEF WalkMergeAction
<1>4. found.objects = ObjectsOf(n, IsCte(n.name, ctes))
  BY <1>3, NamesNothing
<1>5. "function" \notin M
  OBVIOUS
<1> HIDE DEF found, M
<1>6. Reads(n, ctes, found)
  BY <1>1, <1>2, <1>3, <1>4, <1>5, PlainRead
<1> QED BY <1>6 DEF found

\* WalkPivot reads the expressions and the subquery of a PIVOT column.
LEMMA PivotRead ==
  ASSUME NEW n, ParsedNode(n), n.sort = "pivot", NEW ctes
  PROVE  Reads(n, ctes, WalkPivot(n, ctes))
<1> DEFINE M == {"pivot_expressions", "subquery", "entries"}
           found == WalkPivot(n, ctes)
<1>1. n.kind \notin {"UNKNOWN", "MACRO_ENTRY", "TABLE_MACRO_ENTRY"}
  BY ClosedKind DEF OpenSorts
<1>2. DOMAIN n.kids \subseteq M
  <2>1. Parts(n) = Under({"pivot_expressions", "entries"}, "expression") \cup Under({"subquery"}, "query")
    BY DEF Parts
  <2> QED BY <1>1, <2>1, KnownParts, UnderIn
<1>3. found.objects = {} /\ found.columns = {} /\ found.todo = Calls(n, M, ctes)
  BY EachFound DEF WalkPivot
<1>4. found.objects = ObjectsOf(n, IsCte(n.name, ctes))
  BY <1>3, NamesNothing
<1>5. "function" \notin M
  OBVIOUS
<1> HIDE DEF found, M
<1>6. Reads(n, ctes, found)
  BY <1>1, <1>2, <1>3, <1>4, <1>5, PlainRead
<1> QED BY <1>6 DEF found

\* WalkConstraint reads the expression of CHECK; other constraints have none.
LEMMA ConstraintRead ==
  ASSUME NEW n, ParsedNode(n), n.sort = "constraint", NEW ctes, ~WalkConstraint(n, ctes).unsafe
  PROVE  Reads(n, ctes, WalkConstraint(n, ctes))
<1> DEFINE M == IF n.kind = "CHECK" THEN {"expression"} ELSE {}
           found == WalkConstraint(n, ctes)
<1>1. n.kind \in {"CHECK", "NOT_NULL", "UNIQUE", "FOREIGN_KEY"}
  BY NothingFound DEF WalkConstraint
<1>2. DOMAIN n.kids \subseteq M
  <2>1. Parts(n) = Under(M, "expression")
    BY DEF Parts
  <2> HIDE DEF M
  <2> QED BY <1>1, <2>1, KnownParts, UnderIn
<1>3. found.objects = {} /\ found.columns = {} /\ found.todo = Calls(n, M, ctes)
  <2>1. CASE n.kind = "CHECK"
    BY <2>1, RequiredFound DEF WalkConstraint
  <2>2. CASE n.kind # "CHECK"
    <3>1. found = Nothing /\ M = {}
      BY <1>1, <2>2 DEF WalkConstraint
    <3>2. Calls(n, {}, ctes) = {}
      BY DEF Calls
    <3> QED BY <3>1, <3>2, NothingFound
  <2> QED BY <2>1, <2>2
<1>4. found.objects = ObjectsOf(n, IsCte(n.name, ctes))
  BY <1>3, NamesNothing
<1>5. "function" \notin M /\ n.kind \notin {"UNKNOWN", "MACRO_ENTRY", "TABLE_MACRO_ENTRY"}
  BY <1>1
<1> HIDE DEF found, M
<1>6. Reads(n, ctes, found)
  BY <1>2, <1>3, <1>4, <1>5, PlainRead
<1> QED BY <1>6 DEF found

\* WalkPragma reads the parameters of a PRAGMA.
LEMMA PragmaRead ==
  ASSUME NEW n, ParsedNode(n), n.sort = "pragma", NEW ctes
  PROVE  Reads(n, ctes, WalkPragma(n, ctes))
<1> DEFINE M == {"parameters"} \cup {"named_parameters"}
           found == WalkPragma(n, ctes)
           f == WalkEach(n, {"parameters"}, ctes)
           g == WalkRequired(n, {"named_parameters"}, ctes)
<1>1. n.kind \notin {"UNKNOWN", "MACRO_ENTRY", "TABLE_MACRO_ENTRY"}
  BY ClosedKind DEF OpenSorts
<1>2. DOMAIN n.kids \subseteq M
  <2>1. Parts(n) = Under({"parameters", "named_parameters"}, "expression")
    BY DEF Parts
  <2> QED BY <1>1, <2>1, KnownParts, UnderIn
<1>3. found.objects = {} /\ found.columns = {} /\ found.todo = Calls(n, M, ctes)
  <2>1. found = Both(f, g)
    BY DEF WalkPragma
  <2>2. f.objects = {} /\ f.columns = {} /\ f.todo = Calls(n, {"parameters"}, ctes)
    BY EachFound
  <2>3. g.objects = {} /\ g.columns = {} /\ g.todo = Calls(n, {"named_parameters"}, ctes)
    BY RequiredFound
  <2>4. Calls(n, {"parameters"}, ctes) \cup Calls(n, {"named_parameters"}, ctes) = Calls(n, M, ctes)
    BY CallsUnion
  <2> HIDE DEF found, f, g, M
  <2>5. /\ Both(f, g).objects = f.objects \cup g.objects /\ Both(f, g).columns = f.columns \cup g.columns
        /\ Both(f, g).todo = f.todo \cup g.todo
    BY BothFound, Zenon
  <2> QED BY <2>1, <2>2, <2>3, <2>4, <2>5
<1>4. found.objects = ObjectsOf(n, IsCte(n.name, ctes))
  BY <1>3, NamesNothing
<1>5. "function" \notin M
  OBVIOUS
<1> HIDE DEF found, M
<1>6. Reads(n, ctes, found)
  BY <1>1, <1>2, <1>3, <1>4, <1>5, PlainRead
<1> QED BY <1>6 DEF found

\* WalkAttach reads the options of an ATTACH.
LEMMA AttachRead ==
  ASSUME NEW n, ParsedNode(n), n.sort = "attach", NEW ctes
  PROVE  Reads(n, ctes, WalkAttach(n, ctes))
<1> DEFINE M == {"parsed_options"}
           found == WalkAttach(n, ctes)
<1>1. n.kind \notin {"UNKNOWN", "MACRO_ENTRY", "TABLE_MACRO_ENTRY"}
  BY ClosedKind DEF OpenSorts
<1>2. DOMAIN n.kids \subseteq M
  <2>1. Parts(n) = Under(M, "expression")
    BY DEF Parts
  <2> QED BY <1>1, <2>1, KnownParts, UnderIn
<1>3. found.objects = {} /\ found.columns = {} /\ found.todo = Calls(n, M, ctes)
  BY RequiredFound DEF WalkAttach
<1>4. found.objects = ObjectsOf(n, IsCte(n.name, ctes))
  BY <1>3, NamesNothing
<1>5. "function" \notin M
  OBVIOUS
<1> HIDE DEF found, M
<1>6. Reads(n, ctes, found)
  BY <1>1, <1>2, <1>3, <1>4, <1>5, PlainRead
<1> QED BY <1>6 DEF found

\* WalkDetach names the catalog that DETACH takes away.
LEMMA DetachRead ==
  ASSUME NEW n, ParsedNode(n), n.sort = "detach", NEW ctes, ~WalkDetach(n).unsafe
  PROVE  Reads(n, ctes, WalkDetach(n))
<1> DEFINE M == {}
           found == WalkDetach(n)
<1>1. n.kind \notin {"UNKNOWN", "MACRO_ENTRY", "TABLE_MACRO_ENTRY"}
  BY ClosedKind DEF OpenSorts
<1>2. DOMAIN n.kids \subseteq M
  <2>1. Parts(n) = {}
    BY DEF Parts
  <2> QED BY <1>1, <2>1, KnownParts
<1>3. found = AddNamedObject(<<"catalog:">> \o LowerAscii(n.name))
  BY NothingFound DEF WalkDetach
<1>4. found.columns = {} /\ found.todo = Calls(n, M, ctes)
  BY <1>3, NamedObject DEF Calls
<1>5. found.objects = ObjectsOf(n, IsCte(n.name, ctes))
  BY <1>3, NamedObject DEF ObjectsOf
<1>6. "function" \notin M
  OBVIOUS
<1> HIDE DEF found, M
<1>7. Reads(n, ctes, found)
  BY <1>1, <1>2, <1>4, <1>5, <1>6, PlainRead
<1> QED BY <1>7 DEF found

\* The name of a node with a target.
LEMMA TargetName ==
  ASSUME NEW n, ParsedNode(n), HasTarget(n)
  PROVE  n.name \in Targets
BY DEF ParsedNode

\* WalkDrop names what DROP removes, or calls it unsafe.
LEMMA DropRead ==
  ASSUME NEW n, ParsedNode(n), n.sort = "drop", NEW ctes, ~WalkDrop(n).unsafe
  PROVE  Reads(n, ctes, WalkDrop(n))
<1> DEFINE M == {}
           found == WalkDrop(n)
           f == UnsafeIf(n.kind \notin {"TABLE_ENTRY", "VIEW_ENTRY"})
           g == UnsafeIf(n.name[3] = NoName)
           h == AddObject(n.name)
<1>1. found = All({f, g, h})
  BY Zenon DEF WalkDrop
<1>2. ~f.unsafe /\ ~h.unsafe
  BY <1>1, AllUnsafe
<1>3. n.kind \in {"TABLE_ENTRY", "VIEW_ENTRY"}
  BY <1>2 DEF UnsafeIf, Nothing
<1>4. DOMAIN n.kids \subseteq M
  <2>1. Parts(n) = {}
    BY DEF Parts
  <2> QED BY <1>3, <2>1, KnownParts
<1>5. f.objects = {} /\ f.columns = {} /\ f.todo = {} /\ g.objects = {} /\ g.columns = {} /\ g.todo = {}
  BY DEF UnsafeIf, Nothing
<1>6. h.objects = PolicyName(n.name) /\ h.columns = {} /\ h.todo = {}
  BY <1>2, TargetName, ObjectAdded, ObjectOnly DEF HasTarget
<1> HIDE DEF f, g, h
<1>7. /\ All({f, g, h}).objects = f.objects \cup g.objects \cup h.objects
      /\ All({f, g, h}).columns = f.columns \cup g.columns \cup h.columns
      /\ All({f, g, h}).todo = f.todo \cup g.todo \cup h.todo
  BY AllOfThree
<1>8. found.objects = PolicyName(n.name) /\ found.columns = {} /\ found.todo = {}
  BY <1>1, <1>5, <1>6, <1>7
<1>9. found.todo = Calls(n, M, ctes)
  BY <1>8 DEF Calls
<1>10. found.objects = ObjectsOf(n, IsCte(n.name, ctes))
  BY <1>8 DEF ObjectsOf
<1>11. "function" \notin M /\ n.kind \notin {"UNKNOWN", "MACRO_ENTRY", "TABLE_MACRO_ENTRY"}
  BY <1>3
<1> HIDE DEF found, M
<1>12. Reads(n, ctes, found)
  BY <1>4, <1>8, <1>9, <1>10, <1>11, PlainRead
<1> QED BY <1>12 DEF found

\* WalkCopyInfo names the table of a COPY and reads its query, path and options.
LEMMA CopyRead ==
  ASSUME NEW n, ParsedNode(n), n.sort = "copy", NEW ctes, ~WalkCopyInfo(n, ctes).unsafe
  PROVE  Reads(n, ctes, WalkCopyInfo(n, ctes))
<1> DEFINE A == {"select_statement", "file_path_expression"}
           B == {"parsed_options"}
           M == A \cup B
           found == WalkCopyInfo(n, ctes)
           f == AddObject(n.name)
           g == WalkEach(n, A, ctes)
           h == WalkRequired(n, B, ctes)
<1>1. found = All({f, g, h})
  BY Zenon DEF WalkCopyInfo
<1>2. ~f.unsafe
  BY <1>1, AllUnsafe
<1>3. n.kind \notin {"UNKNOWN", "MACRO_ENTRY", "TABLE_MACRO_ENTRY"}
  BY ClosedKind DEF OpenSorts
<1>4. DOMAIN n.kids \subseteq M
  <2>1. Parts(n) = Under({"select_statement"}, "query") \cup Under({"file_path_expression", "parsed_options"}, "expression")
    BY DEF Parts
  <2> QED BY <1>3, <2>1, KnownParts, UnderIn
<1>5. g.objects = {} /\ g.columns = {} /\ g.todo = Calls(n, A, ctes)
  <2> HIDE DEF A
  <2> QED BY EachFound
<1>6. h.objects = {} /\ h.columns = {} /\ h.todo = Calls(n, B, ctes)
  BY RequiredFound
<1>7. f.objects = PolicyName(n.name) /\ f.columns = {} /\ f.todo = {}
  BY <1>2, TargetName, ObjectAdded, ObjectOnly DEF HasTarget
<1>8. Calls(n, A, ctes) \cup Calls(n, B, ctes) = Calls(n, M, ctes)
  BY CallsUnion
<1>9. "function" \notin M
  OBVIOUS
<1> HIDE DEF f, g, h, A, B, M
<1>10. /\ All({f, g, h}).objects = f.objects \cup g.objects \cup h.objects
       /\ All({f, g, h}).columns = f.columns \cup g.columns \cup h.columns
       /\ All({f, g, h}).todo = f.todo \cup g.todo \cup h.todo
  BY AllOfThree
<1>11. found.objects = PolicyName(n.name) /\ found.columns = {} /\ found.todo = Calls(n, M, ctes)
  BY <1>1, <1>5, <1>6, <1>7, <1>8, <1>10
<1>12. found.objects = ObjectsOf(n, IsCte(n.name, ctes))
  BY <1>11 DEF ObjectsOf
<1> HIDE DEF found
<1>13. Reads(n, ctes, found)
  BY <1>3, <1>4, <1>9, <1>11, <1>12, PlainRead
<1> QED BY <1>13 DEF found

\* WalkAlter names the table and reads every expression of the change.
LEMMA AlterRead ==
  ASSUME NEW n, ParsedNode(n), n.sort = "alter", NEW ctes, ~WalkAlter(n, ctes).unsafe
  PROVE  Reads(n, ctes, WalkAlter(n, ctes))
<1> DEFINE M == IF n.kind \in {"ALTER_COLUMN_TYPE", "SET_DEFAULT", "ADD_COLUMN"} THEN {"expression"} ELSE {}
           found == WalkAlter(n, ctes)
           f == UnsafeIf(n.name[3] = NoName)
           g == AddObject(n.name)
           h == CASE n.kind \in {"RENAME_COLUMN", "RENAME_TABLE", "REMOVE_COLUMN", "SET_NOT_NULL", "DROP_NOT_NULL"} ->
                       Nothing
                  [] n.kind = "ALTER_COLUMN_TYPE"             -> WalkRequired(n, {"expression"}, ctes)
                  [] n.kind \in {"SET_DEFAULT", "ADD_COLUMN"} -> WalkEach(n, {"expression"}, ctes)
                  [] OTHER -> Unsafe
<1>1. found = All({f, g, h})
  BY Zenon DEF WalkAlter
<1>2. ~g.unsafe /\ ~h.unsafe
  <2> HIDE DEF f, g, h
  <2> QED BY <1>1, AllUnsafe
<1>3. n.kind \in {"RENAME_COLUMN", "RENAME_TABLE", "REMOVE_COLUMN", "SET_NOT_NULL", "DROP_NOT_NULL",
                  "ALTER_COLUMN_TYPE", "SET_DEFAULT", "ADD_COLUMN"}
  BY <1>2, NothingFound
<1>4. DOMAIN n.kids \subseteq M
  <2>1. Parts(n) = Under(M, "expression")
    BY DEF Parts, AlterParts
  <2> HIDE DEF M
  <2> QED BY <1>3, <2>1, KnownParts, UnderIn
<1>5. f.objects = {} /\ f.columns = {} /\ f.todo = {}
  BY DEF UnsafeIf, Nothing
<1>6. g.objects = PolicyName(n.name) /\ g.columns = {} /\ g.todo = {}
  BY <1>2, TargetName, ObjectAdded, ObjectOnly DEF HasTarget
<1>7. h.objects = {} /\ h.columns = {} /\ h.todo = Calls(n, M, ctes)
  <2>1. CASE n.kind = "ALTER_COLUMN_TYPE"
    BY <2>1, RequiredFound
  <2>2. CASE n.kind \in {"SET_DEFAULT", "ADD_COLUMN"}
    BY <2>2, EachFound
  <2>3. CASE n.kind \in {"RENAME_COLUMN", "RENAME_TABLE", "REMOVE_COLUMN", "SET_NOT_NULL", "DROP_NOT_NULL"}
    <3>1. Calls(n, {}, ctes) = {}
      BY DEF Calls
    <3> QED BY <2>3, <3>1, NothingFound
  <2> QED BY <1>3, <2>1, <2>2, <2>3
<1>8. "function" \notin M /\ n.kind \notin {"UNKNOWN", "MACRO_ENTRY", "TABLE_MACRO_ENTRY"}
  BY <1>3
<1> HIDE DEF f, g, h, M
<1>9. /\ All({f, g, h}).objects = f.objects \cup g.objects \cup h.objects
      /\ All({f, g, h}).columns = f.columns \cup g.columns \cup h.columns
      /\ All({f, g, h}).todo = f.todo \cup g.todo \cup h.todo
  BY AllOfThree
<1>10. found.objects = PolicyName(n.name) /\ found.columns = {} /\ found.todo = Calls(n, M, ctes)
  BY <1>1, <1>5, <1>6, <1>7, <1>9
<1>11. found.objects = ObjectsOf(n, IsCte(n.name, ctes))
  BY <1>10 DEF ObjectsOf
<1> HIDE DEF found
<1>12. Reads(n, ctes, found)
  BY <1>4, <1>8, <1>10, <1>11, PlainRead
<1> QED BY <1>12 DEF found

\* WalkCreate on CREATE TABLE: the table, its columns, constraints and query.
LEMMA CreateTableRead ==
  ASSUME NEW n, ParsedNode(n), n.sort = "create", n.kind = "TABLE_ENTRY", NEW ctes, ~WalkCreate(n, ctes).unsafe
  PROVE  Reads(n, ctes, WalkCreate(n, ctes))
<1> DEFINE A == {"columns", "partition_keys", "sort_keys"}
           B == {"query", "constraints", "options"}
           M == A \cup B
           found == WalkCreate(n, ctes)
           f == AddObject(n.name)
           g == WalkEach(n, A, ctes)
           h == WalkRequired(n, B, ctes)
<1>1. found = All({f, g, h})
  BY DEF WalkCreate
<1>2. ~f.unsafe
  BY <1>1, AllUnsafe
<1>4. DOMAIN n.kids \subseteq M
  <2>1. Parts(n) = Under({"query"}, "query") \cup Under({"constraints"}, "constraint")
                     \cup Under({"columns", "partition_keys", "sort_keys", "options"}, "expression")
    BY DEF Parts, CreateParts
  <2> QED BY <2>1, KnownParts, UnderIn
<1>5. g.objects = {} /\ g.columns = {} /\ g.todo = Calls(n, A, ctes)
  <2> HIDE DEF A
  <2> QED BY EachFound
<1>6. h.objects = {} /\ h.columns = {} /\ h.todo = Calls(n, B, ctes)
  BY RequiredFound
<1>7. f.objects = PolicyName(n.name) /\ f.columns = {} /\ f.todo = {}
  BY <1>2, TargetName, ObjectAdded, ObjectOnly DEF HasTarget
<1>8. Calls(n, A, ctes) \cup Calls(n, B, ctes) = Calls(n, M, ctes)
  BY CallsUnion
<1>9. "function" \notin M /\ n.kind \notin {"UNKNOWN", "MACRO_ENTRY", "TABLE_MACRO_ENTRY"}
  OBVIOUS
<1> HIDE DEF f, g, h, A, B, M
<1>10. /\ All({f, g, h}).objects = f.objects \cup g.objects \cup h.objects
       /\ All({f, g, h}).columns = f.columns \cup g.columns \cup h.columns
       /\ All({f, g, h}).todo = f.todo \cup g.todo \cup h.todo
  BY AllOfThree
<1>11. found.objects = PolicyName(n.name) /\ found.columns = {} /\ found.todo = Calls(n, M, ctes)
  BY <1>1, <1>5, <1>6, <1>7, <1>8, <1>10
<1>12. found.objects = ObjectsOf(n, IsCte(n.name, ctes))
  BY <1>11 DEF ObjectsOf
<1> HIDE DEF found
<1>13. Reads(n, ctes, found)
  BY <1>4, <1>9, <1>11, <1>12, PlainRead
<1> QED BY <1>13 DEF found

\* WalkCreate on a view or a type: the name and the query.
LEMMA CreateOtherRead ==
  ASSUME NEW n, ParsedNode(n), n.sort = "create", n.kind \in {"VIEW_ENTRY", "TYPE_ENTRY"}, NEW ctes,
         ~WalkCreate(n, ctes).unsafe
  PROVE  Reads(n, ctes, WalkCreate(n, ctes))
<1> DEFINE M == {"query"}
           found == WalkCreate(n, ctes)
           f == AddObject(n.name)
           g == IF n.kind = "VIEW_ENTRY" THEN WalkRequired(n, M, ctes) ELSE WalkEach(n, M, ctes)
<1>1. found = Both(f, g)
  BY DEF WalkCreate
<1>2. ~f.unsafe
  <2> HIDE DEF f, g
  <2> QED BY <1>1, BothUnsafe
<1>4. DOMAIN n.kids \subseteq M
  <2>1. Parts(n) = Under(M, "query") \/ Parts(n) = Under(M, "statement")
    BY DEF Parts, CreateParts
  <2> QED BY <2>1, KnownParts, UnderIn
<1>5. g.objects = {} /\ g.columns = {} /\ g.todo = Calls(n, M, ctes)
  <2> HIDE DEF M
  <2>1. CASE n.kind = "VIEW_ENTRY"
    BY <2>1, RequiredFound
  <2>2. CASE n.kind # "VIEW_ENTRY"
    BY <2>2, EachFound
  <2> QED BY <2>1, <2>2
<1>7. f.objects = PolicyName(n.name) /\ f.columns = {} /\ f.todo = {}
  BY <1>2, TargetName, ObjectAdded, ObjectOnly DEF HasTarget
<1>9. "function" \notin M /\ n.kind \notin {"UNKNOWN", "MACRO_ENTRY", "TABLE_MACRO_ENTRY"}
  OBVIOUS
<1> HIDE DEF f, g, M
<1>10. /\ Both(f, g).objects = f.objects \cup g.objects /\ Both(f, g).columns = f.columns \cup g.columns
       /\ Both(f, g).todo = f.todo \cup g.todo
  BY BothFound, Zenon
<1>11. found.objects = PolicyName(n.name) /\ found.columns = {} /\ found.todo = Calls(n, M, ctes)
  BY <1>1, <1>5, <1>7, <1>10
<1>12. found.objects = ObjectsOf(n, IsCte(n.name, ctes))
  BY <1>11 DEF ObjectsOf
<1> HIDE DEF found
<1>13. Reads(n, ctes, found)
  BY <1>4, <1>9, <1>11, <1>12, PlainRead
<1> QED BY <1>13 DEF found

\* WalkCreate on a schema: the schema's name.
LEMMA CreateSchemaRead ==
  ASSUME NEW n, ParsedNode(n), n.sort = "create", n.kind = "SCHEMA_ENTRY", NEW ctes, ~WalkCreate(n, ctes).unsafe
  PROVE  Reads(n, ctes, WalkCreate(n, ctes))
<1> DEFINE M == {"options"}
           object == <<"schema:">> \o LowerAscii(n.name[2])
           b == n.name[1] # NoName \/ n.name[2] = NoName
           found == WalkCreate(n, ctes)
           f == UnsafeIf(b)
           g == IF n.name[2] = NoName THEN Nothing ELSE AddNamedObject(object)
           h == WalkRequired(n, M, ctes)
<1>1. found = All({f, g, h})
  BY DEF WalkCreate
<1>2. ~f.unsafe
  <2> HIDE DEF f, g, h
  <2> QED BY <1>1, AllUnsafe
<1>3. n.name[2] # NoName
  BY <1>2, UnsafeIfFound
<1>4. DOMAIN n.kids \subseteq M
  <2>1. Parts(n) = Under(M, "expression")
    BY DEF Parts, CreateParts
  <2> QED BY <2>1, KnownParts, UnderIn
<1>5. f.objects = {} /\ f.columns = {} /\ f.todo = {}
  BY DEF UnsafeIf, Nothing
<1>6. h.objects = {} /\ h.columns = {} /\ h.todo = Calls(n, M, ctes)
  BY RequiredFound
<1>7. g.objects = {object} /\ g.columns = {} /\ g.todo = {}
  <2> HIDE DEF object
  <2> QED BY <1>3, NamedObject
<1>9. "function" \notin M /\ n.kind \notin {"UNKNOWN", "MACRO_ENTRY", "TABLE_MACRO_ENTRY"}
  OBVIOUS
<1>8. ObjectsOf(n, IsCte(n.name, ctes)) = {object}
  BY DEF ObjectsOf
<1> HIDE DEF f, g, h, M, object, b
<1>10. /\ All({f, g, h}).objects = f.objects \cup g.objects \cup h.objects
       /\ All({f, g, h}).columns = f.columns \cup g.columns \cup h.columns
       /\ All({f, g, h}).todo = f.todo \cup g.todo \cup h.todo
  BY AllOfThree
<1>11. found.objects = {object} /\ found.columns = {} /\ found.todo = Calls(n, M, ctes)
  BY <1>1, <1>5, <1>6, <1>7, <1>10
<1>12. found.objects = ObjectsOf(n, IsCte(n.name, ctes))
  BY <1>8, <1>11
<1> HIDE DEF found
<1>13. Reads(n, ctes, found)
  BY <1>4, <1>9, <1>11, <1>12, PlainRead
<1> QED BY <1>13 DEF found

\* WalkCreate reads every CREATE that it does not call unsafe.
LEMMA CreateRead ==
  ASSUME NEW n, ParsedNode(n), n.sort = "create", NEW ctes, ~WalkCreate(n, ctes).unsafe
  PROVE  Reads(n, ctes, WalkCreate(n, ctes))
<1>1. CASE n.kind \in {"TABLE_ENTRY", "VIEW_ENTRY", "TYPE_ENTRY", "SCHEMA_ENTRY"}
  BY <1>1, CreateTableRead, CreateOtherRead, CreateSchemaRead
<1>2. CASE n.kind \in {"MACRO_ENTRY", "TABLE_MACRO_ENTRY"}
  <2>1. WalkCreate(n, ctes) = Both(AddObject(n.name), Unsafe)
    BY <1>2 DEF WalkCreate
  <2>2. ~Unsafe.unsafe
    BY <2>1, BothUnsafe
  <2> QED BY <2>2, NothingFound
<1>3. CASE n.kind \notin {"TABLE_ENTRY", "VIEW_ENTRY", "TYPE_ENTRY", "SCHEMA_ENTRY", "MACRO_ENTRY", "TABLE_MACRO_ENTRY"}
  <2>1. WalkCreate(n, ctes) = Unsafe
    BY <1>3 DEF WalkCreate
  <2> QED BY <2>1, NothingFound
<1> QED BY <1>1, <1>2, <1>3

\* The calls under no member.
LEMMA NoCalls == ASSUME NEW n, NEW ctes PROVE Calls(n, {}, ctes) = {}
BY DEF Calls

\* WalkTableRef on a table: the name, unless an alias in scope stands for it.
LEMMA BaseTableRead ==
  ASSUME NEW n, ParsedNode(n), n.sort = "ref", n.kind = "BASE_TABLE", NEW ctes, ~WalkTableRef(n, ctes).unsafe
  PROVE  Reads(n, ctes, WalkTableRef(n, ctes))
<1> DEFINE M == {"at_clause"}
           b == IsCte(n.name, ctes)
           found == WalkTableRef(n, ctes)
           f == WalkRequired(n, M, ctes)
           g == IF b THEN Nothing ELSE IF IsReplacementScanName(n.name) THEN Unsafe ELSE AddObject(n.name)
<1>1. found = Both(f, g)
  BY DEF WalkTableRef
<1>2. ~g.unsafe
  <2> HIDE DEF f, g
  <2> QED BY <1>1, BothUnsafe
<1>3. DOMAIN n.kids \subseteq M
  <2>1. Parts(n) = Under(M, "expression")
    BY DEF Parts, RefParts
  <2> QED BY <2>1, KnownParts, UnderIn
<1>4. f.objects = {} /\ f.columns = {} /\ f.todo = Calls(n, M, ctes)
  BY RequiredFound
<1>5. n.name \in Targets
  BY TargetName DEF HasTarget
<1>6. g.objects = (IF b THEN {} ELSE PolicyName(n.name)) /\ g.columns = {} /\ g.todo = {}
  <2> HIDE DEF b
  <2>1. CASE b
    BY <2>1, NothingFound
  <2>2. CASE ~b
    <3>1. g = AddObject(n.name)
      BY <1>2, <2>2, NothingFound
    <3>2. ~AddObject(n.name).unsafe
      BY <1>2, <3>1
    <3>3. AddObject(n.name).objects = PolicyName(n.name)
      BY <1>5, <3>2, ObjectAdded
    <3> QED BY <2>2, <3>1, <3>3, ObjectOnly
  <2> QED BY <2>1, <2>2
<1>7. "function" \notin M /\ n.kind \notin {"UNKNOWN", "MACRO_ENTRY", "TABLE_MACRO_ENTRY"}
  OBVIOUS
<1>8. ObjectsOf(n, b) = IF b THEN {} ELSE PolicyName(n.name)
  <2> HIDE DEF b
  <2> QED BY DEF ObjectsOf
<1> HIDE DEF f, g, M, b
<1>9. /\ Both(f, g).objects = f.objects \cup g.objects /\ Both(f, g).columns = f.columns \cup g.columns
      /\ Both(f, g).todo = f.todo \cup g.todo
  BY BothFound, Zenon
<1>10. found.objects = ObjectsOf(n, b) /\ found.columns = {} /\ found.todo = Calls(n, M, ctes)
  BY <1>1, <1>4, <1>6, <1>8, <1>9
<1>11. found.objects = ObjectsOf(n, IsCte(n.name, ctes))
  BY <1>10 DEF b
<1> HIDE DEF found
<1>12. Reads(n, ctes, found)
  BY <1>3, <1>7, <1>10, <1>11, PlainRead
<1> QED BY <1>12 DEF found

\* References that only hold others.
LEMMA PlainRefRead ==
  ASSUME NEW n, ParsedNode(n), n.sort = "ref", n.kind \in {"JOIN", "SUBQUERY", "PIVOT", "EXPRESSION_LIST"}, NEW ctes
  PROVE  Reads(n, ctes, WalkTableRef(n, ctes))
<1> DEFINE M == CASE n.kind = "JOIN" -> {"left", "right", "condition"}
                  [] n.kind = "SUBQUERY" -> {"subquery"}
                  [] n.kind = "PIVOT" -> {"source", "aggregates", "pivots"}
                  [] n.kind = "EXPRESSION_LIST" -> {"values"}
           found == WalkTableRef(n, ctes)
<1>1. DOMAIN n.kids \subseteq M
  <2>1. CASE n.kind = "JOIN"
    <3>1. Parts(n) = Under({"left", "right"}, "ref") \cup Under({"condition"}, "expression")
      BY <2>1 DEF Parts, RefParts
    <3> QED BY <2>1, <3>1, KnownParts, UnderIn
  <2>2. CASE n.kind = "SUBQUERY"
    <3>1. Parts(n) = Under({"subquery"}, "query")
      BY <2>2 DEF Parts, RefParts
    <3> QED BY <2>2, <3>1, KnownParts, UnderIn
  <2>3. CASE n.kind = "PIVOT"
    <3>1. Parts(n) = Under({"source"}, "ref") \cup Under({"aggregates"}, "expression") \cup Under({"pivots"}, "pivot")
      BY <2>3 DEF Parts, RefParts
    <3> QED BY <2>3, <3>1, KnownParts, UnderIn
  <2>4. CASE n.kind = "EXPRESSION_LIST"
    <3>1. Parts(n) = Under({"values"}, "expression")
      BY <2>4 DEF Parts, RefParts
    <3> QED BY <2>4, <3>1, KnownParts, UnderIn
  <2> QED BY <2>1, <2>2, <2>3, <2>4
<1>2. found = IF n.kind = "SUBQUERY" THEN WalkRequired(n, M, ctes) ELSE WalkEach(n, M, ctes)
  BY DEF WalkTableRef
<1>3. "function" \notin M /\ n.kind \notin {"UNKNOWN", "MACRO_ENTRY", "TABLE_MACRO_ENTRY"}
  OBVIOUS
<1> HIDE DEF found, M
<1>4. found.objects = {} /\ found.columns = {} /\ found.todo = Calls(n, M, ctes)
  <2>1. CASE n.kind = "SUBQUERY"
    BY <1>2, <2>1, RequiredFound
  <2>2. CASE n.kind # "SUBQUERY"
    BY <1>2, <2>2, EachFound
  <2> QED BY <2>1, <2>2
<1>5. ObjectsOf(n, IsCte(n.name, ctes)) = {}
  BY DEF ObjectsOf
<1>6. Reads(n, ctes, found)
  BY <1>1, <1>3, <1>4, <1>5, PlainRead
<1> QED BY <1>6 DEF found

\* WalkTableRef on a reference that names nothing finds nothing.
LEMMA LeafRefRead ==
  ASSUME NEW n, ParsedNode(n), n.sort = "ref", NEW ctes,
         n.kind \in {"EMPTY_FROM", "CTE", "COLUMN_DATA", "DELIM_GET", "BOUND_TABLE_REF", "INVALID"}
  PROVE  Reads(n, ctes, WalkTableRef(n, ctes))
<1> DEFINE M == {}
           found == WalkTableRef(n, ctes)
<1>1. DOMAIN n.kids \subseteq M
  <2>1. Parts(n) = {}
    BY DEF Parts, RefParts
  <2> QED BY <2>1, KnownParts
<1>2. found = Nothing
  BY DEF WalkTableRef
<1>3. "function" \notin M /\ n.kind \notin {"UNKNOWN", "MACRO_ENTRY", "TABLE_MACRO_ENTRY"}
  OBVIOUS
<1>4. found.objects = {} /\ found.columns = {} /\ found.todo = Calls(n, M, ctes)
  BY <1>2, NothingFound, NoCalls
<1>5. ObjectsOf(n, IsCte(n.name, ctes)) = {}
  BY DEF ObjectsOf
<1> HIDE DEF found, M
<1>6. Reads(n, ctes, found)
  BY <1>1, <1>3, <1>4, <1>5, PlainRead
<1> QED BY <1>6 DEF found

\* The name of a call is that of an exempt function if and only if its object is.
LEMMA FunctionNames ==
  ASSUME NEW name \in Names, NEW x \in Pieces, <<"fn:">> \o name = <<"fn:", x>>
  PROVE  name = <<x>>
<1> DEFINE p == <<"fn:">>
           q == <<x>>
           c == p \o name
<1>1. "fn:" \in Pieces
  BY DEF Pieces
<1>2. p \in Seq(Pieces) /\ Len(p) = 1 /\ q \in Seq(Pieces) /\ Len(q) = 1 /\ q[1] = x
  BY <1>1, OnePiece
<1>3. c = <<"fn:", x>>
  OBVIOUS
<1> HIDE DEF p, q
<1>4. name \in Seq(Pieces) /\ Len(name) \in Nat
  BY LenProperties DEF Names
<1>5. Len(c) = Len(p) + Len(name) /\ \A i \in 1..(Len(p) + Len(name)) : c[i] = IF i <= Len(p) THEN p[i] ELSE name[i - Len(p)]
  BY <1>2, <1>4, ConcatProperties
<1> HIDE DEF c
<1>6. Len(c) = 2 /\ c[2] = x
  BY <1>3
<1>7. Len(name) = 1
  BY <1>2, <1>4, <1>5, <1>6
<1>8. name[1] = x
  <2>1. 2 \in 1..(1 + 1) /\ ~(2 <= 1) /\ 2 - 1 = 1
    OBVIOUS
  <2> QED BY <1>2, <1>5, <1>6, <1>7, <2>1
<1>9. \A i \in 1..Len(name) : name[i] = q[i]
  <2>1. \A i \in 1..1 : i = 1
    OBVIOUS
  <2> QED BY <1>2, <1>7, <1>8, <2>1
<1>10. name = q
  BY <1>2, <1>4, <1>7, <1>9, SeqEqual
<1> QED BY <1>10 DEF q

\* AddFunctionObject names the function, but for the two that list the catalog.
LEMMA FunctionAdded ==
  ASSUME NEW name \in Names
  PROVE  AddFunctionObject(name).objects =
           {<<"fn:">> \o LowerAscii(name)} \ {<<"fn:", "duckdb_tables">>, <<"fn:", "duckdb_columns">>}
<1> DEFINE low == LowerAscii(name)
<1>1. low \in Names
  BY Lowered
<1>2. "duckdb_tables" \in Pieces /\ "duckdb_columns" \in Pieces /\ "fn:" \in Pieces
  BY DEF Pieces
<1>3. AddFunctionObject(name) = IF IsExemptFunction(low) THEN Nothing ELSE AddNamedObject(<<"fn:">> \o low)
  BY Zenon DEF AddFunctionObject
<1>4. IsExemptFunction(low) <=> low = <<"duckdb_tables">> \/ low = <<"duckdb_columns">>
  BY DEF IsExemptFunction, Words
<1> HIDE DEF low
<1>5. \A x \in Pieces : low = <<x>> => <<"fn:">> \o low = <<"fn:", x>>
  <2> TAKE x \in Pieces
  <2> DEFINE a == "fn:"
  <2>1. a \in Pieces
    BY <1>2
  <2> HIDE DEF a
  <2>2. <<a>> \o <<x>> = <<a, x>>
    <3> DEFINE p == <<a>>
               c == p \o <<x>>
               t == <<a, x>>
    <3>1. p \in Seq(Pieces) /\ Len(p) = 1 /\ p[1] = a
      BY <2>1, OnePiece
    <3> HIDE DEF p
    <3>2. c \in Seq(Pieces) /\ Len(c) = Len(p) + 1 /\ c[Len(p) + 1] = x /\ \A i \in 1..Len(p) : c[i] = p[i]
      BY <3>1, Joined
    <3>3. t \in Seq(Pieces) /\ Len(t) = 2 /\ t[1] = a /\ t[2] = x
      BY <2>1
    <3> HIDE DEF c, t
    <3>4. Len(c) = 2 /\ c[1] = a /\ c[2] = x
      BY <3>1, <3>2
    <3>5. \A i \in 1..2 : i = 1 \/ i = 2
      OBVIOUS
    <3>6. \A i \in 1..Len(c) : c[i] = t[i]
      BY <3>3, <3>4, <3>5
    <3>7. c = t
      BY <3>2, <3>3, <3>4, <3>6, SeqEqual
    <3> QED BY <3>7 DEF p, c, t
  <2> QED BY <2>2 DEF a
<1>6. \A x \in Pieces : <<"fn:">> \o low = <<"fn:", x>> => low = <<x>>
  BY <1>1, FunctionNames
<1> DEFINE object == <<"fn:">> \o low
           t == <<"fn:", "duckdb_tables">>
           u == <<"fn:", "duckdb_columns">>
<1>7. IsExemptFunction(low) <=> object = t \/ object = u
  BY <1>2, <1>4, <1>5, <1>6
<1>8. AddNamedObject(object).objects = {object} /\ Nothing.objects = {}
  BY NamedObject, NothingFound, Zenon
<1>9. AddFunctionObject(name) = IF IsExemptFunction(low) THEN Nothing ELSE AddNamedObject(object)
  BY <1>3
<1> HIDE DEF object, t, u
<1>10. AddFunctionObject(name).objects = {object} \ {t, u}
  BY <1>7, <1>8, <1>9
<1> QED BY <1>10 DEF object, t, u, low

\* AddFunctionObject names no column and asks for no call.
LEMMA FunctionOnly ==
  ASSUME NEW name
  PROVE  AddFunctionObject(name).columns = {} /\ AddFunctionObject(name).todo = {}
<1>1. AddFunctionObject(name) = Nothing \/ AddFunctionObject(name) = AddNamedObject(<<"fn:">> \o LowerAscii(name))
  BY Zenon DEF AddFunctionObject
<1> DEFINE object == <<"fn:">> \o LowerAscii(name)
<1> HIDE DEF object
<1>2. AddFunctionObject(name) = Nothing \/ AddFunctionObject(name) = AddNamedObject(object)
  BY <1>1 DEF object
<1> QED BY <1>2, NothingFound, NamedObject

\* A table function that is walked without objection is called by its name.
LEMMA CallRead ==
  ASSUME NEW n, ParsedNode(n), KidsParsed(n), n.sort = "ref", n.kind = "TABLE_FUNCTION", NEW ctes,
         ~WalkTableRef(n, ctes).unsafe
  PROVE  /\ "function" \in DOMAIN n.kids /\ DOMAIN n.kids.function = {1}
         /\ n.kids.function[1] # Null /\ FunctionName(n) = n.kids.function[1].name
         /\ FunctionName(n) # NoName /\ FunctionName(n) \in Names
         /\ LowerAscii(FunctionName(n)) \notin Words({"query", "query_table"})
<1> DEFINE A == {"function"}
           B == {"subquery"}
           name == FunctionName(n)
           f == IF name = NoName THEN Unsafe ELSE AddFunctionObject(name)
           b == LowerAscii(name) \in Words({"query", "query_table"})
           g == UnsafeIf(b)
           h == WalkEach(n, A, ctes)
           k == WalkRequired(n, B, ctes)
           call == n.kids.function[1]
<1>1. WalkTableRef(n, ctes) = All({f, g, h, k})
  BY DEF WalkTableRef
<1>2. ~f.unsafe /\ ~g.unsafe
  <2> HIDE DEF f, g, h, k
  <2> QED BY <1>1, AllUnsafe
<1>3. name # NoName /\ ~b
  <2> HIDE DEF b, name
  <2> QED BY <1>2, NothingFound, UnsafeIfFound
<1>4. "function" \in DOMAIN n.kids /\ Len(n.kids.function) = 1 /\ DOMAIN n.kids.function = {1}
  <2>1. "function" \in DOMAIN n.kids /\ Len(n.kids["function"]) = 1
    BY DEF ParsedNode
  <2>2. DOMAIN n.kids["function"] = 1..Len(n.kids["function"])
    BY <2>1 DEF ParsedNode
  <2> QED BY <2>1, <2>2
<1>5. call # Null /\ name = call.name
  <2>1. At(n, "function") = n.kids.function
    BY <1>4 DEF At
  <2> DEFINE q == n.kids.function
             calls == {i \in DOMAIN q : q[i] # Null /\ q[i].kind = "FUNCTION"}
  <2>2. name = IF calls = {} THEN NoName ELSE q[1].name
    BY <2>1, Zenon DEF FunctionName
  <2>3. calls # {}
    BY <1>3, <2>2, Zenon
  <2>4. name = q[1].name
    BY <2>2, <2>3, Zenon
  <2>5. DOMAIN q = {1}
    BY <1>4
  <2>6. q[1] # Null
    BY <2>3, <2>5, Zenon
  <2> QED BY <2>4, <2>6
<1>6. name \in Names
  <2>1. ParsedNode(call)
    BY <1>4, <1>5 DEF KidsParsed
  <2>2. call.sort = "expression"
    <3>1. PICK p \in Parts(n) : "function" = p[1] /\ \A i \in DOMAIN n.kids["function"] :
                                  n.kids["function"][i] # Null => n.kids["function"][i].sort = p[2]
      BY <1>4 DEF ParsedNode
    <3>2. Parts(n) = Under(A, "expression") \cup Under(B, "query")
      BY DEF Parts, RefParts
    <3>3. p[2] = "expression"
      BY <3>1, <3>2, UnderIn
    <3> QED BY <1>4, <1>5, <3>1, <3>3
  <2>3. call.name \in Seq(STRING)
    BY <2>1, <2>2 DEF ParsedNode, HasTarget
  <2> QED BY <1>5, <2>3, StringNames
<1> QED BY <1>3, <1>4, <1>5, <1>6

\* The walk of a table function.
LEMMA TableFunctionRead ==
  ASSUME NEW n, ParsedNode(n), KidsParsed(n), n.sort = "ref", n.kind = "TABLE_FUNCTION", NEW ctes,
         ~WalkTableRef(n, ctes).unsafe
  PROVE  Reads(n, ctes, WalkTableRef(n, ctes))
<1> DEFINE A == {"function"}
           B == {"subquery"}
           M == A \cup B
           found == WalkTableRef(n, ctes)
           name == FunctionName(n)
           f == IF name = NoName THEN Unsafe ELSE AddFunctionObject(name)
           b == LowerAscii(name) \in Words({"query", "query_table"})
           g == UnsafeIf(b)
           h == WalkEach(n, A, ctes)
           k == WalkRequired(n, B, ctes)
           call == n.kids.function[1]
<1>1. found = All({f, g, h, k})
  BY DEF WalkTableRef
<1>2. /\ "function" \in DOMAIN n.kids /\ DOMAIN n.kids.function = {1}
      /\ name = call.name /\ name # NoName /\ name \in Names /\ ~b
  BY CallRead
<1>7. f.objects = {<<"fn:">> \o LowerAscii(name)} \ {<<"fn:", "duckdb_tables">>, <<"fn:", "duckdb_columns">>}
      /\ f.columns = {} /\ f.todo = {}
  <2>1. f = AddFunctionObject(name)
    BY <1>2
  <2> HIDE DEF f, name
  <2> QED BY <1>2, <2>1, FunctionAdded, FunctionOnly
<1>8. g.objects = {} /\ g.columns = {} /\ g.todo = {}
  <2> HIDE DEF b
  <2> QED BY UnsafeIfFound
<1>9. h.objects = {} /\ h.columns = {} /\ h.todo = Calls(n, A, ctes)
  <2> HIDE DEF A
  <2> QED BY EachFound
<1>10. k.objects = {} /\ k.columns = {} /\ k.todo = Calls(n, B, ctes)
  BY RequiredFound
<1>11. Calls(n, A, ctes) \cup Calls(n, B, ctes) = Calls(n, M, ctes)
  BY CallsUnion
<1>12. DOMAIN n.kids \subseteq M
  <2>1. Parts(n) = Under(A, "expression") \cup Under(B, "query")
    BY DEF Parts, RefParts
  <2> QED BY <2>1, KnownParts, UnderIn
<1>13. ObjectsOf(n, IsCte(n.name, ctes)) = f.objects
  <2> DEFINE c == IsCte(n.name, ctes)
             q == n.kids.function
  <2>1. ObjectsOf(n, c) = {<<"fn:">> \o LowerAscii(q[i].name) : i \in DOMAIN q}
                            \ {<<"fn:", "duckdb_tables">>, <<"fn:", "duckdb_columns">>}
    <3> HIDE DEF c
    <3> QED BY DEF ObjectsOf
  <2>2. DOMAIN q = {1} /\ q[1].name = name
    BY <1>2
  <2> HIDE DEF q, f, name
  <2>3. {<<"fn:">> \o LowerAscii(q[i].name) : i \in DOMAIN q} = {<<"fn:">> \o LowerAscii(name)}
    BY <2>2
  <2> QED BY <1>7, <2>1, <2>3
<1>14. ~Opaque(n)
  <2>1. At(n, "function") = n.kids.function
    BY <1>2 DEF At
  <2>2. \A i \in DOMAIN At(n, "function") : n.kids.function[i].name = name
    BY <1>2, <2>1
  <2>3. \A i \in DOMAIN At(n, "function") : LowerAscii(n.kids.function[i].name) \notin Words({"query", "query_table"})
    BY <1>2, <2>2
  <2> QED BY <2>3 DEF Opaque
<1>15. ColumnsOf(n) = {}
  BY DEF ColumnsOf
<1> HIDE DEF f, g, h, k, A, B, M, name, b
<1>16. /\ All({f, g, h, k}).objects = f.objects \cup g.objects \cup h.objects \cup k.objects
       /\ All({f, g, h, k}).columns = f.columns \cup g.columns \cup h.columns \cup k.columns
       /\ All({f, g, h, k}).todo = f.todo \cup g.todo \cup h.todo \cup k.todo
  <2> DEFINE S == {f, g, h, k}
  <2>1. /\ UNION {x.objects : x \in S} = f.objects \cup g.objects \cup h.objects \cup k.objects
        /\ UNION {x.columns : x \in S} = f.columns \cup g.columns \cup h.columns \cup k.columns
        /\ UNION {x.todo : x \in S} = f.todo \cup g.todo \cup h.todo \cup k.todo
    OBVIOUS
  <2> HIDE DEF S
  <2>2. /\ All(S).objects = UNION {x.objects : x \in S} /\ All(S).columns = UNION {x.columns : x \in S}
        /\ All(S).todo = UNION {x.todo : x \in S}
    BY AllFound
  <2> QED BY <2>1, <2>2, Zenon DEF S
<1> DEFINE r == f.objects
<1>17. r = f.objects
  OBVIOUS
<1> HIDE DEF r
<1>18. found.objects = r /\ found.columns = {} /\ found.todo = Calls(n, M, ctes)
  <2>1. f.columns = {} /\ f.todo = {}
    BY <1>7
  <2> QED BY <1>1, <1>8, <1>9, <1>10, <1>11, <1>16, <1>17, <2>1
<1>19. found.todo = Calls(n, DOMAIN n.kids, ctes)
  BY <1>12, <1>18, CallsAll
<1> QED BY <1>13, <1>14, <1>15, <1>17, <1>18, <1>19 DEF Reads

\* WalkTableRef on SHOW and DESCRIBE: the query, or the table if it is one.
LEMMA ShowRead ==
  ASSUME NEW n, ParsedNode(n), n.sort = "ref", n.kind = "SHOW_REF", NEW ctes, ~WalkTableRef(n, ctes).unsafe
  PROVE  Reads(n, ctes, WalkTableRef(n, ctes))
<1> DEFINE M == {"query"}
           found == WalkTableRef(n, ctes)
           listed == n.name[3] \in Words({"\"databases\"", "\"schemas\"", "\"tables\"", "__show_tables_expanded"})
           b == IsCte(n.name, ctes)
<1>1. DOMAIN n.kids \subseteq M
  <2>1. Parts(n) = Under(M, "query")
    BY DEF Parts, RefParts
  <2> QED BY <2>1, KnownParts, UnderIn
<1>2. "function" \notin M /\ n.kind \notin {"UNKNOWN", "MACRO_ENTRY", "TABLE_MACRO_ENTRY"}
  OBVIOUS
<1>3. n.name \in Targets
  BY TargetName DEF HasTarget
<1>4. CASE "query" \in DOMAIN n.kids
  <2>1. At(n, "query") # <<>>
    BY <1>4 DEF At, ParsedNode
  <2>2. found = WalkEach(n, M, ctes)
    BY <2>1 DEF WalkTableRef
  <2> HIDE DEF found, M
  <2>3. found.objects = {} /\ found.columns = {} /\ found.todo = Calls(n, M, ctes)
    BY <2>2, EachFound
  <2>4. ObjectsOf(n, IsCte(n.name, ctes)) = {}
    BY <1>4 DEF ObjectsOf
  <2>5. Reads(n, ctes, found)
    BY <1>1, <1>2, <2>3, <2>4, PlainRead
  <2> QED BY <2>5 DEF found
<1>5. CASE "query" \notin DOMAIN n.kids
  <2> DEFINE scan == n.name[3] \in {<<"\"variables\"">>, NoName} \/ IsReplacementScanName(n.name)
  <2>1. At(n, "query") = <<>>
    BY <1>5 DEF At
  <2>2. found = WalkShowName(n.name, ctes)
    BY <2>1 DEF WalkTableRef
  <2>3. found = IF listed THEN Nothing ELSE IF scan THEN Unsafe ELSE IF b THEN Nothing ELSE AddObject(n.name)
    BY <2>2, Zenon DEF WalkShowName
  <2>4. ObjectsOf(n, b) = IF listed THEN {} ELSE IF b THEN {} ELSE PolicyName(n.name)
    <3> HIDE DEF b
    <3> QED BY <1>5 DEF ObjectsOf
  <2>5. DOMAIN n.kids \subseteq {}
    BY <1>1, <1>5
  <2>6. ~found.unsafe
    OBVIOUS
  <2> HIDE DEF listed, b, scan, found
  <2>7. found.objects = ObjectsOf(n, b) /\ found.columns = {} /\ found.todo = {}
    <3>1. CASE listed \/ (~scan /\ b)
      <4>1. found = Nothing /\ ObjectsOf(n, b) = {}
        BY <2>3, <2>4, <3>1, Zenon
      <4> QED BY <4>1, NothingFound
    <3>2. CASE ~listed /\ scan
      <4>1. found = Unsafe
        BY <2>3, <3>2, Zenon
      <4> QED BY <2>6, <4>1, NothingFound
    <3>3. CASE ~listed /\ ~scan /\ ~b
      <4>1. found = AddObject(n.name) /\ ObjectsOf(n, b) = PolicyName(n.name)
        BY <2>3, <2>4, <3>3, Zenon
      <4>2. AddObject(n.name).objects = PolicyName(n.name)
        BY <1>3, <2>6, <4>1, ObjectAdded
      <4> QED BY <4>1, <4>2, ObjectOnly
    <3> QED BY <3>1, <3>2, <3>3, Zenon
  <2>8. found.todo = Calls(n, {}, ctes)
    BY <2>7, NoCalls
  <2>9. found.objects = ObjectsOf(n, IsCte(n.name, ctes))
    BY <2>7 DEF b
  <2>10. Reads(n, ctes, found)
    BY <1>2, <2>5, <2>7, <2>8, <2>9, PlainRead
  <2> QED BY <2>10 DEF found
<1> QED BY <1>4, <1>5

\* WalkTableRef reads every reference that it does not call unsafe: tables,
\* functions, subqueries, joins, value lists, pivots.
LEMMA TableRefRead ==
  ASSUME NEW n, ParsedNode(n), KidsParsed(n), n.sort = "ref", NEW ctes, ~WalkTableRef(n, ctes).unsafe
  PROVE  Reads(n, ctes, WalkTableRef(n, ctes))
<1> DEFINE leaves == {"EMPTY_FROM", "CTE", "COLUMN_DATA", "DELIM_GET", "BOUND_TABLE_REF", "INVALID"}
<1>1. CASE n.kind \in {"BASE_TABLE", "TABLE_FUNCTION", "SHOW_REF"}
  BY <1>1, BaseTableRead, TableFunctionRead, ShowRead
<1>2. CASE n.kind \in {"JOIN", "SUBQUERY", "PIVOT", "EXPRESSION_LIST"}
  BY <1>2, PlainRefRead
<1>3. CASE n.kind \in leaves
  BY <1>3, LeafRefRead
<1>4. CASE n.kind \notin {"BASE_TABLE", "TABLE_FUNCTION", "SHOW_REF", "JOIN", "SUBQUERY", "PIVOT", "EXPRESSION_LIST"} \cup leaves
  <2>1. WalkTableRef(n, ctes) = Unsafe
    BY <1>4 DEF WalkTableRef
  <2> QED BY <2>1, NothingFound
<1> QED BY <1>1, <1>2, <1>3, <1>4

\* A statement names nothing itself.
LEMMA PlainStatementRead ==
  ASSUME NEW n, ParsedNode(n), n.sort = "statement", NEW ctes,
         n.kind \in {"SELECT", "INSERT", "UPDATE", "DELETE", "MERGE_INTO",
                     "COPY", "CREATE", "DROP", "ALTER", "PRAGMA", "ATTACH", "DETACH"}
  PROVE  Reads(n, ctes, WalkStatement(n, ctes))
<1> DEFINE writes == {"SELECT", "INSERT", "UPDATE", "DELETE", "MERGE_INTO"}
           M == IF n.kind \in writes THEN {"node"} ELSE {"info"}
           found == WalkStatement(n, ctes)
<1>1. DOMAIN n.kids \subseteq M
  <2>1. ASSUME NEW p \in Parts(n) PROVE p[1] \in M
    <3>1. p \in StatementParts(n.kind)
      BY DEF Parts
    <3>2. CASE n.kind \in writes
      <4>1. p \in Under({"node"}, "query") \/ p \in Under({"node"}, "body")
        BY <3>1, <3>2 DEF StatementParts
      <4> QED BY <3>2, <4>1, UnderIn
    <3>3. CASE n.kind \notin writes
      <4>1. PICK sort \in {"copy", "create", "drop", "alter", "pragma", "attach", "detach"} : p \in Under({"info"}, sort)
        BY <3>1, <3>3 DEF StatementParts
      <4> QED BY <3>3, <4>1, UnderIn
    <3> QED BY <3>2, <3>3
  <2> HIDE DEF M
  <2> QED BY <2>1, KnownParts
<1>2. found = IF n.kind \in writes THEN WalkEach(n, M, ctes) ELSE WalkRequired(n, M, ctes)
  BY DEF WalkStatement
<1>3. "function" \notin M /\ n.kind \notin {"UNKNOWN", "MACRO_ENTRY", "TABLE_MACRO_ENTRY"}
  OBVIOUS
<1> HIDE DEF found, M
<1>4. found.objects = {} /\ found.columns = {} /\ found.todo = Calls(n, M, ctes)
  <2>1. CASE n.kind \in writes
    BY <1>2, <2>1, EachFound
  <2>2. CASE n.kind \notin writes
    BY <1>2, <2>2, RequiredFound
  <2> QED BY <2>1, <2>2
<1>5. found.objects = ObjectsOf(n, IsCte(n.name, ctes))
  BY <1>4, NamesNothing
<1>6. Reads(n, ctes, found)
  BY <1>1, <1>3, <1>4, <1>5, PlainRead
<1> QED BY <1>6 DEF found

\* WalkStatement on EXPLAIN goes on to the statement explained.
LEMMA ExplainRead ==
  ASSUME NEW n, ParsedNode(n), n.sort = "statement", n.kind = "EXPLAIN", NEW ctes
  PROVE  Reads(n, ctes, WalkStatement(n, ctes))
<1> DEFINE M == {"stmt"}
           found == WalkStatement(n, ctes)
           a == "ANALYZE" \in n.opts
           b == n.kids.stmt[1] # Null /\ ClassifyStatement(n.kids.stmt[1]).unsafe
           f == UnsafeIf(a)
           g == WalkRequired(n, M, ctes)
           h == UnsafeIf(b)
<1>1. DOMAIN n.kids \subseteq M
  <2>1. Parts(n) = Under(M, "statement")
    BY DEF Parts, StatementParts
  <2> QED BY <2>1, KnownParts, UnderIn
<1>2. found = All({f, g, h})
  <2>1. found = WalkExplain(n, ctes)
    BY DEF WalkStatement
  <2> QED BY <2>1, Zenon DEF WalkExplain
<1>3. "function" \notin M /\ n.kind \notin {"UNKNOWN", "MACRO_ENTRY", "TABLE_MACRO_ENTRY"}
  OBVIOUS
<1>4. f.objects = {} /\ f.columns = {} /\ f.todo = {}
  <2> HIDE DEF a
  <2> QED BY UnsafeIfFound
<1>5. g.objects = {} /\ g.columns = {} /\ g.todo = Calls(n, M, ctes)
  <2> HIDE DEF M
  <2> QED BY RequiredFound
<1>6. h.objects = {} /\ h.columns = {} /\ h.todo = {}
  <2> HIDE DEF b
  <2> QED BY UnsafeIfFound
<1> HIDE DEF f, g, h, a, b, M
<1>7. /\ All({f, g, h}).objects = f.objects \cup g.objects \cup h.objects
      /\ All({f, g, h}).columns = f.columns \cup g.columns \cup h.columns
      /\ All({f, g, h}).todo = f.todo \cup g.todo \cup h.todo
  BY AllOfThree
<1>8. found.objects = {} /\ found.columns = {} /\ found.todo = Calls(n, M, ctes)
  BY <1>2, <1>4, <1>5, <1>6, <1>7
<1> HIDE DEF found
<1>9. found.objects = ObjectsOf(n, IsCte(n.name, ctes))
  BY <1>8, NamesNothing
<1>10. Reads(n, ctes, found)
  BY <1>1, <1>3, <1>8, <1>9, PlainRead
<1> QED BY <1>10 DEF found

\* WalkStatement on the one SET that is classified: a constant, so nothing.
LEMMA SetRead ==
  ASSUME NEW n, ParsedNode(n), n.sort = "statement", n.kind = "SET", NEW ctes, ~ClassifyStatement(n).unsafe
  PROVE  Reads(n, ctes, WalkStatement(n, ctes))
<1> DEFINE M == {"value"}
           found == WalkStatement(n, ctes)
           value == n.kids.value[1]
           b == /\ value # Null
                /\ \/ value.kind # "CONSTANT"
                   \/ LowerAscii(n.name) = <<"threads">> /\ value.name # <<"4">>
           f == WalkRequired(n, M, ctes)
           g == UnsafeIf(b)
<1>1. DOMAIN n.kids \subseteq M
  <2>1. Parts(n) = Under(M, "expression")
    BY DEF Parts, StatementParts
  <2> QED BY <2>1, KnownParts, UnderIn
<1>2. "RESET" \notin n.opts
  BY DEF ClassifyStatement
<1>3. found = Both(f, g)
  <2>1. found = WalkSet(n, ctes)
    BY DEF WalkStatement
  <2> QED BY <1>2, <2>1, Zenon DEF WalkSet
<1>4. "function" \notin M /\ n.kind \notin {"UNKNOWN", "MACRO_ENTRY", "TABLE_MACRO_ENTRY"}
  OBVIOUS
<1>5. f.objects = {} /\ f.columns = {} /\ f.todo = Calls(n, M, ctes)
  <2> HIDE DEF M
  <2> QED BY RequiredFound
<1>6. g.objects = {} /\ g.columns = {} /\ g.todo = {}
  <2> HIDE DEF b
  <2> QED BY UnsafeIfFound
<1> HIDE DEF f, g, b, M
<1>7. /\ Both(f, g).objects = f.objects \cup g.objects /\ Both(f, g).columns = f.columns \cup g.columns
      /\ Both(f, g).todo = f.todo \cup g.todo
  BY BothFound, Zenon
<1>8. found.objects = {} /\ found.columns = {} /\ found.todo = Calls(n, M, ctes)
  BY <1>3, <1>5, <1>6, <1>7
<1> HIDE DEF found
<1>9. found.objects = ObjectsOf(n, IsCte(n.name, ctes))
  BY <1>8, NamesNothing
<1>10. Reads(n, ctes, found)
  BY <1>1, <1>4, <1>8, <1>9, PlainRead
<1> QED BY <1>10 DEF found

\* WalkStatement on statements that hold nothing to be read.
LEMMA LeafStatementRead ==
  ASSUME NEW n, ParsedNode(n), n.sort = "statement", n.kind \in {"LOAD", "TRANSACTION", "RELATION"}, NEW ctes
  PROVE  Reads(n, ctes, WalkStatement(n, ctes))
<1> DEFINE M == {}
           found == WalkStatement(n, ctes)
<1>1. DOMAIN n.kids \subseteq M
  <2>1. Parts(n) = {}
    BY DEF Parts, StatementParts
  <2> QED BY <2>1, KnownParts
<1>2. found = Nothing
  BY DEF WalkStatement
<1>3. "function" \notin M /\ n.kind \notin {"UNKNOWN", "MACRO_ENTRY", "TABLE_MACRO_ENTRY"}
  OBVIOUS
<1>4. found.objects = {} /\ found.columns = {} /\ found.todo = Calls(n, M, ctes)
  BY <1>2, NothingFound, NoCalls
<1> HIDE DEF found, M
<1>5. found.objects = ObjectsOf(n, IsCte(n.name, ctes))
  BY <1>4, NamesNothing
<1>6. Reads(n, ctes, found)
  BY <1>1, <1>3, <1>4, <1>5, PlainRead
<1> QED BY <1>6 DEF found

\* WalkStatement reads every statement that has a classification.
LEMMA StatementRead ==
  ASSUME NEW n, ParsedNode(n), n.sort = "statement", NEW ctes, ~ClassifyStatement(n).unsafe,
         ~WalkStatement(n, ctes).unsafe
  PROVE  Reads(n, ctes, WalkStatement(n, ctes))
<1> DEFINE plain == {"SELECT", "INSERT", "UPDATE", "DELETE", "MERGE_INTO",
                     "COPY", "CREATE", "DROP", "ALTER", "PRAGMA", "ATTACH", "DETACH"}
           leaves == {"LOAD", "TRANSACTION", "RELATION"}
<1>1. CASE n.kind \in plain
  BY <1>1, PlainStatementRead
<1>2. CASE n.kind \in {"EXPLAIN", "SET"}
  BY <1>2, ExplainRead, SetRead
<1>3. CASE n.kind \in leaves
  BY <1>3, LeafStatementRead
<1>4. CASE n.kind \notin plain \cup leaves \cup {"EXPLAIN", "SET"}
  <2>1. WalkStatement(n, ctes) = Unsafe
    BY <1>4 DEF WalkStatement
  <2> QED BY <2>1, NothingFound
<1> QED BY <1>1, <1>2, <1>3, <1>4

(***************************************************************************)
(* Scopes.                                                                  *)
(***************************************************************************)
\* The aliases that a step into a node adds to those in scope.
Added(n, m, i) ==
  (IF n.sort \in {"query", "body"}
   THEN {LowerAscii(At(n, "cte_map")[j].name) : j \in {k \in DOMAIN At(n, "cte_map") : m = "cte_map" => k < i}}
   ELSE {})
  \cup (IF n.sort = "query" /\ <<n.kind, m>> \in {<<"CTE_NODE", "child">>, <<"RECURSIVE_CTE_NODE", "right">>} /\ n.name # NoName
        THEN {LowerAscii(n.name)} ELSE {})

\* The calls on all nodes below, with the aliases in scope there.
BelowUnder(n, m, ctes) ==
  {Visit(n.kids[m][i], ctes \cup Added(n, m, i)) : i \in {j \in DOMAIN n.kids[m] : n.kids[m][j] # Null}}
Below(n, ctes) == UNION {BelowUnder(n, m, ctes) : m \in DOMAIN n.kids}

\* Like Reads, with the scopes.
ReadsInScope(n, ctes, found) ==
  /\ found.todo = Below(n, ctes)
  /\ found.objects = ObjectsOf(n, IsCte(n.name, ctes))
  /\ found.columns = ColumnsOf(n)
  /\ ~Opaque(n)

\* A node that opens no scope passes on the one it is read in.
LEMMA SameScope ==
  ASSUME NEW n, n.sort \notin {"query", "body"}, NEW ctes, NEW found, Reads(n, ctes, found)
  PROVE  ReadsInScope(n, ctes, found)
<1>1. \A m, i : Added(n, m, i) = {}
  BY DEF Added
<1>2. ASSUME NEW m \in DOMAIN n.kids PROVE BelowUnder(n, m, ctes) = CallsUnder(n, m, ctes)
  <2>1. At(n, m) = n.kids[m]
    BY <1>2 DEF At
  <2>2. \A i : ctes \cup Added(n, m, i) = ctes
    BY <1>1
  <2> QED BY <2>1, <2>2 DEF BelowUnder, CallsUnder
<1>3. Below(n, ctes) = Calls(n, DOMAIN n.kids, ctes)
  BY <1>2 DEF Below, Calls
<1> QED BY <1>3 DEF Reads, ReadsInScope

\* The members of a node that divide into those in its scope and those where
\* its own name is an alias too.
OwnScope(n, m) ==
  n.sort = "query" /\ <<n.kind, m>> \in {<<"CTE_NODE", "child">>, <<"RECURSIVE_CTE_NODE", "right">>}
Within(n, ctes) == IF n.name = NoName THEN CteScope(n, ctes) ELSE CteScope(n, ctes) \cup {LowerAscii(n.name)}
Divided(n, M, R) ==
  /\ DOMAIN n.kids \subseteq {"cte_map"} \cup M \cup R /\ "cte_map" \notin M \cup R
  /\ \A m \in M : ~OwnScope(n, m)
  /\ \A m \in R : OwnScope(n, m)

\* The calls of a node with common table expressions: on their bodies, under
\* the members M in its scope, and under the members R where its own name is
\* an alias too.
LEMMA ScopedCalls ==
  ASSUME NEW n, ParsedNode(n), n.sort \in {"query", "body"}, NEW ctes, NEW M, NEW R, Divided(n, M, R)
  PROVE  CteBodies(n, ctes).todo \cup Calls(n, M, CteScope(n, ctes)) \cup Calls(n, R, Within(n, ctes)) = Below(n, ctes)
<1> DEFINE within == Within(n, ctes)
<1>20. /\ DOMAIN n.kids \subseteq {"cte_map"} \cup M \cup R /\ "cte_map" \notin M \cup R
       /\ \A m \in M : ~OwnScope(n, m)
       /\ \A m \in R : OwnScope(n, m)
  BY DEF Divided
<1> DEFINE q == At(n, "cte_map")
           scope == CteScope(n, ctes)
           names(K) == {LowerAscii(q[j].name) : j \in K}
<1>1. Len(q) \in Nat /\ DOMAIN q = 1..Len(q) /\ \A i \in DOMAIN q : q[i] # Null
  BY DEF ParsedNode, At
<1>2. CteBodies(n, ctes).todo = {Visit(q[i], ctes \cup names(1..(i - 1))) : i \in DOMAIN q}
  BY DEF CteBodies, Nothing, Aliases
<1>3. scope = ctes \cup names(DOMAIN q)
  BY <1>1 DEF CteScope, Aliases
<1>4. \A m, i : m # "cte_map" /\ ~OwnScope(n, m) => Added(n, m, i) = names(DOMAIN q)
  BY DEF Added, OwnScope
<1>5. \A m, i : m # "cte_map" /\ OwnScope(n, m) =>
        Added(n, m, i) = names(DOMAIN q) \cup (IF n.name # NoName THEN {LowerAscii(n.name)} ELSE {})
  BY DEF Added, OwnScope
<1>6. \A i \in DOMAIN q : Added(n, "cte_map", i) = names(1..(i - 1))
  <2> TAKE i \in DOMAIN q
  <2>1. {k \in DOMAIN q : k < i} = 1..(i - 1)
    BY <1>1
  <2>2. Added(n, "cte_map", i) = names({k \in DOMAIN q : k < i})
    BY DEF Added
  <2> QED BY <2>1, <2>2
<1>7. \A m \in M \cap DOMAIN n.kids : BelowUnder(n, m, ctes) = CallsUnder(n, m, scope)
  <2> TAKE m \in M \cap DOMAIN n.kids
  <2>1. At(n, m) = n.kids[m]
    BY DEF At
  <2>2. \A i : ctes \cup Added(n, m, i) = scope
    BY <1>3, <1>4, <1>20
  <2> HIDE DEF scope
  <2> QED BY <2>1, <2>2 DEF BelowUnder, CallsUnder
<1>8. \A m \in R \cap DOMAIN n.kids : BelowUnder(n, m, ctes) = CallsUnder(n, m, within)
  <2> TAKE m \in R \cap DOMAIN n.kids
  <2>1. At(n, m) = n.kids[m]
    BY DEF At
  <2>2. m # "cte_map" /\ OwnScope(n, m)
    BY <1>20
  <2> HIDE DEF scope, names, q
  <2>3. \A i : Added(n, m, i) = names(DOMAIN q) \cup (IF n.name # NoName THEN {LowerAscii(n.name)} ELSE {})
    BY <1>5, <2>2
  <2>4. \A i : ctes \cup Added(n, m, i) = within
    <3>1. within = IF n.name = NoName THEN scope ELSE scope \cup {LowerAscii(n.name)}
      BY DEF scope, Within
    <3> QED BY <1>3, <2>3, <3>1
  <2> QED BY <2>1, <2>4 DEF BelowUnder, CallsUnder
<1>9. "cte_map" \in DOMAIN n.kids => BelowUnder(n, "cte_map", ctes) = CteBodies(n, ctes).todo
  <2> SUFFICES ASSUME "cte_map" \in DOMAIN n.kids PROVE BelowUnder(n, "cte_map", ctes) = CteBodies(n, ctes).todo
    OBVIOUS
  <2>1. n.kids["cte_map"] = q
    BY DEF At
  <2>2. BelowUnder(n, "cte_map", ctes) = {Visit(q[i], ctes \cup Added(n, "cte_map", i)) : i \in {j \in DOMAIN q : q[j] # Null}}
    BY <2>1, Zenon DEF BelowUnder
  <2> HIDE DEF q, names
  <2>3. {j \in DOMAIN q : q[j] # Null} = DOMAIN q
    BY <1>1
  <2>4. {Visit(q[i], ctes \cup Added(n, "cte_map", i)) : i \in DOMAIN q} = {Visit(q[i], ctes \cup names(1..(i - 1))) : i \in DOMAIN q}
    BY <1>6
  <2> QED BY <1>2, <2>2, <2>3, <2>4
<1>10. "cte_map" \notin DOMAIN n.kids => CteBodies(n, ctes).todo = {}
  <2>1. "cte_map" \notin DOMAIN n.kids => DOMAIN q = {}
    BY DEF At
  <2> HIDE DEF q, names
  <2> QED BY <1>2, <2>1
<1>11. \A m, c : m \notin DOMAIN n.kids => CallsUnder(n, m, c) = {}
  BY DEF CallsUnder, At
<1> DEFINE C == CteBodies(n, ctes).todo
           D == DOMAIN n.kids
<1>12. "cte_map" \in D => BelowUnder(n, "cte_map", ctes) = C
  BY <1>9
<1>13. "cte_map" \notin D => C = {}
  BY <1>10
<1>14. D \subseteq {"cte_map"} \cup M \cup R
  BY <1>20
<1> HIDE DEF C, D, scope, q, names, within
<1>15. C \cup Calls(n, M, scope) \cup Calls(n, R, within) = UNION {BelowUnder(n, m, ctes) : m \in D}
  <2>1. ASSUME NEW v \in C \cup Calls(n, M, scope) \cup Calls(n, R, within)
        PROVE  \E m \in D : v \in BelowUnder(n, m, ctes)
    <3>1. CASE v \in C
      BY <1>12, <1>13, <3>1
    <3>2. CASE v \in Calls(n, M, scope)
      <4>1. PICK m \in M : v \in CallsUnder(n, m, scope)
        BY <3>2 DEF Calls
      <4>2. m \in D
        BY <1>11, <4>1 DEF D
      <4> QED BY <1>7, <4>1, <4>2 DEF D
    <3>3. CASE v \in Calls(n, R, within)
      <4>1. PICK m \in R : v \in CallsUnder(n, m, within)
        BY <3>3 DEF Calls
      <4>2. m \in D
        BY <1>11, <4>1 DEF D
      <4> QED BY <1>8, <4>1, <4>2 DEF D
    <3> QED BY <2>1, <3>1, <3>2, <3>3
  <2>2. ASSUME NEW m \in D, NEW v \in BelowUnder(n, m, ctes)
        PROVE  v \in C \cup Calls(n, M, scope) \cup Calls(n, R, within)
    <3>1. CASE m = "cte_map"
      BY <1>12, <2>2, <3>1
    <3>2. CASE m \in M
      <4>1. v \in CallsUnder(n, m, scope)
        BY <1>7, <2>2, <3>2 DEF D
      <4>2. v \in Calls(n, M, scope)
        BY <3>2, <4>1 DEF Calls
      <4> QED BY <4>2
    <3>3. CASE m \in R
      <4>1. v \in CallsUnder(n, m, within)
        BY <1>8, <2>2, <3>3 DEF D
      <4>2. v \in Calls(n, R, within)
        BY <3>3, <4>1 DEF Calls
      <4> QED BY <4>2
    <3> QED BY <1>14, <2>2, <3>1, <3>2, <3>3
  <2> QED BY <2>1, <2>2
<1> QED BY <1>15 DEF C, D, scope, within, Below

(***************************************************************************)
(* The walk of queries and of the nodes that write.                         *)
(***************************************************************************)
DmlKinds == {"INSERT", "UPDATE", "DELETE", "MERGE"}
DmlMembers(kind) ==
  CASE kind = "INSERT" -> {"select_statement", "table_ref", "returning_list", "on_conflict_set", "on_conflict_condition"}
    [] kind = "UPDATE" -> {"table", "from_table", "set_info", "returning_list"}
    [] kind = "DELETE" -> {"table", "using_clauses", "condition", "returning_list"}
    [] kind = "MERGE"  -> {"target", "source", "join_condition", "returning_list"} \cup {"actions"}

\* WalkDml walks every member that a statement which writes can have.
LEMMA WritingMembers ==
  ASSUME NEW kind \in DmlKinds, NEW p \in WritingParts(kind)
  PROVE  p[1] \in DmlMembers(kind)
<1>1. CASE kind = "INSERT"
  <2>1. \/ p \in Under({"select_statement"}, "query") \/ p \in Under({"table_ref"}, "ref")
        \/ p \in Under({"on_conflict_set"}, "set_info")
        \/ p \in Under({"returning_list", "on_conflict_condition"}, "expression")
    BY <1>1 DEF WritingParts
  <2>2. p[1] \in {"select_statement", "table_ref", "on_conflict_set", "returning_list", "on_conflict_condition"}
    BY <2>1, UnderIn
  <2> QED BY <1>1, <2>2 DEF DmlMembers
<1>2. CASE kind = "UPDATE"
  <2>1. \/ p \in Under({"table", "from_table"}, "ref") \/ p \in Under({"set_info"}, "set_info")
        \/ p \in Under({"returning_list"}, "expression")
    BY <1>2 DEF WritingParts
  <2>2. p[1] \in {"table", "from_table", "set_info", "returning_list"}
    BY <2>1, UnderIn
  <2> QED BY <1>2, <2>2 DEF DmlMembers
<1>3. CASE kind = "DELETE"
  <2>1. p \in Under({"table", "using_clauses"}, "ref") \/ p \in Under({"condition", "returning_list"}, "expression")
    BY <1>3 DEF WritingParts
  <2>2. p[1] \in {"table", "using_clauses", "condition", "returning_list"}
    BY <2>1, UnderIn
  <2> QED BY <1>3, <2>2 DEF DmlMembers
<1>4. CASE kind = "MERGE"
  <2>1. \/ p \in Under({"target", "source"}, "ref") \/ p \in Under({"actions"}, "merge_action")
        \/ p \in Under({"join_condition", "returning_list"}, "expression")
    BY <1>4 DEF WritingParts
  <2>2. p[1] \in {"target", "source", "actions", "join_condition", "returning_list"}
    BY <2>1, UnderIn
  <2> QED BY <1>4, <2>2 DEF DmlMembers
<1> QED BY <1>1, <1>2, <1>3, <1>4 DEF DmlKinds

\* WalkDml calls those members, in the scope it is given, and names the table
\* that an INSERT goes to.
LEMMA DmlFound ==
  ASSUME NEW n, ParsedNode(n), n.sort \in {"query", "body"}, n.kind \in DmlKinds, NEW ctes, NEW b,
         ~WalkDml(n, ctes).unsafe
  PROVE  /\ WalkDml(n, ctes).todo = Calls(n, DmlMembers(n.kind), ctes)
         /\ WalkDml(n, ctes).objects = ObjectsOf(n, b) /\ WalkDml(n, ctes).columns = {}
<1> DEFINE found == WalkDml(n, ctes)
           M == DmlMembers(n.kind)
<1>1. CASE n.kind = "INSERT"
  <2> DEFINE f == AddObject(n.name)
             g == WalkEach(n, M, ctes)
  <2>1. found = Both(f, g)
    BY <1>1 DEF WalkDml, WalkInsert, DmlMembers
  <2>2. ~f.unsafe
    <3> HIDE DEF f, g
    <3> QED BY <2>1, BothUnsafe
  <2>3. f.objects = PolicyName(n.name) /\ f.columns = {} /\ f.todo = {}
    BY <1>1, <2>2, TargetName, ObjectAdded, ObjectOnly DEF HasTarget
  <2>4. g.objects = {} /\ g.columns = {} /\ g.todo = Calls(n, M, ctes)
    <3> HIDE DEF M
    <3> QED BY EachFound
  <2>5. ObjectsOf(n, b) = PolicyName(n.name)
    BY <1>1 DEF ObjectsOf
  <2> HIDE DEF f, g, M
  <2>6. /\ Both(f, g).objects = f.objects \cup g.objects /\ Both(f, g).columns = f.columns \cup g.columns
        /\ Both(f, g).todo = f.todo \cup g.todo
    BY BothFound, Zenon
  <2>7. found.todo = Calls(n, M, ctes) /\ found.objects = ObjectsOf(n, b) /\ found.columns = {}
    BY <2>1, <2>3, <2>4, <2>5, <2>6
  <2> QED BY <2>7 DEF M
<1>2. n.kind # "INSERT" => ObjectsOf(n, b) = {}
  BY DEF ObjectsOf
<1>3. CASE n.kind \in {"UPDATE", "DELETE"}
  <2>1. found = WalkEach(n, M, ctes)
    BY <1>3 DEF WalkDml, WalkUpdate, WalkDelete, DmlMembers
  <2> HIDE DEF M, found
  <2>2. found.todo = Calls(n, M, ctes) /\ found.objects = {} /\ found.columns = {}
    BY <2>1, EachFound
  <2>3. ObjectsOf(n, b) = {}
    BY <1>2, <1>3
  <2> QED BY <2>2, <2>3 DEF M, found
<1>4. CASE n.kind = "MERGE"
  <2> DEFINE A == {"target", "source", "join_condition", "returning_list"}
             B == {"actions"}
             f == WalkEach(n, A, ctes)
             g == WalkRequired(n, B, ctes)
  <2>1. found = Both(f, g) /\ M = A \cup B
    BY <1>4 DEF WalkDml, WalkMerge, DmlMembers
  <2> HIDE DEF A, B, M
  <2>3. f.objects = {} /\ f.columns = {} /\ f.todo = Calls(n, A, ctes)
    BY EachFound
  <2>4. g.objects = {} /\ g.columns = {} /\ g.todo = Calls(n, B, ctes)
    BY RequiredFound
  <2>5. Calls(n, A, ctes) \cup Calls(n, B, ctes) = Calls(n, M, ctes)
    BY <2>1, CallsUnion
  <2> HIDE DEF f, g
  <2>6. /\ Both(f, g).objects = f.objects \cup g.objects /\ Both(f, g).columns = f.columns \cup g.columns
        /\ Both(f, g).todo = f.todo \cup g.todo
    BY BothFound, Zenon
  <2>7. found.todo = Calls(n, M, ctes) /\ found.objects = {} /\ found.columns = {}
    BY <2>1, <2>3, <2>4, <2>5, <2>6
  <2>8. ObjectsOf(n, b) = {}
    BY <1>2, <1>4
  <2> HIDE DEF found
  <2> QED BY <2>7, <2>8 DEF M, found
<1> QED BY <1>1, <1>3, <1>4 DEF DmlKinds

\* CteBodies only asks for calls.
LEMMA CteBodiesOnly ==
  ASSUME NEW n, NEW ctes
  PROVE  CteBodies(n, ctes).objects = {} /\ CteBodies(n, ctes).columns = {}
BY DEF CteBodies, Nothing

\* What is left to show of a query or a node that writes.
LEMMA ScopedRead ==
  ASSUME NEW n, ParsedNode(n), n.sort \in {"query", "body"}, NEW ctes, NEW found,
         n.kind \notin {"UNKNOWN", "MACRO_ENTRY", "TABLE_MACRO_ENTRY"}, "function" \notin DOMAIN n.kids,
         found.todo = Below(n, ctes), found.columns = {}, found.objects = ObjectsOf(n, IsCte(n.name, ctes))
  PROVE  ReadsInScope(n, ctes, found)
<1>1. ColumnsOf(n) = {}
  BY DEF ColumnsOf
<1>2. ~Opaque(n)
  BY NoFunction
<1> QED BY <1>1, <1>2 DEF ReadsInScope

\* WalkBody reads a statement that writes, in the scope of its definitions: each
\* definition sees those before it, the rest of the statement sees all.
LEMMA BodyRead ==
  ASSUME NEW n, ParsedNode(n), n.sort = "body", NEW ctes, ~WalkBody(n, ctes).unsafe
  PROVE  ReadsInScope(n, ctes, WalkBody(n, ctes))
<1> DEFINE found == WalkBody(n, ctes)
           scope == CteScope(n, ctes)
           M == DmlMembers(n.kind)
           f == CteBodies(n, ctes)
           g == WalkDml(n, scope)
           b == IsCte(n.name, ctes)
           within == Within(n, ctes)
<1>1. n.kind \in DmlKinds
  BY DEF ParsedNode, DmlKinds
<1>2. found = Both(f, g)
  BY Zenon DEF WalkBody
<1>3. ~g.unsafe
  <2> HIDE DEF f, g
  <2> QED BY <1>2, BothUnsafe
<1>4. g.todo = Calls(n, M, scope) /\ g.objects = ObjectsOf(n, b) /\ g.columns = {}
  <2> HIDE DEF b, scope
  <2> QED BY <1>1, <1>3, DmlFound
<1>5. f.objects = {} /\ f.columns = {}
  BY CteBodiesOnly
<1>6. n.kind \notin {"UNKNOWN", "MACRO_ENTRY", "TABLE_MACRO_ENTRY"}
  BY <1>1 DEF DmlKinds
<1>7. DOMAIN n.kids \subseteq {"cte_map"} \cup M
  <2>1. Parts(n) = Under({"cte_map"}, "cte") \cup WritingParts(n.kind)
    BY DEF Parts
  <2>2. \A p \in Parts(n) : p[1] \in {"cte_map"} \cup M
    BY <1>1, <2>1, UnderIn, WritingMembers
  <2> HIDE DEF M
  <2> QED BY <1>6, <2>2, KnownParts
<1>8. "cte_map" \notin M /\ "function" \notin M
  BY <1>1 DEF DmlKinds, DmlMembers
<1>9. f.todo \cup Calls(n, M, scope) = Below(n, ctes)
  <2>1. f.todo \cup Calls(n, M, scope) \cup Calls(n, {}, within) = Below(n, ctes)
    <3> HIDE DEF M
    <3>1. Divided(n, M, {})
      BY <1>7, <1>8 DEF Divided, OwnScope
    <3> QED BY <3>1, ScopedCalls
  <2>2. Calls(n, {}, within) = {}
    <3> HIDE DEF within
    <3> QED BY NoCalls
  <2> QED BY <2>1, <2>2
<1>10. "function" \notin DOMAIN n.kids
  BY <1>7, <1>8
<1> HIDE DEF f, g, M, scope, b
<1>11. /\ Both(f, g).objects = f.objects \cup g.objects /\ Both(f, g).columns = f.columns \cup g.columns
       /\ Both(f, g).todo = f.todo \cup g.todo
  BY BothFound, Zenon
<1>12. found.todo = Below(n, ctes) /\ found.objects = ObjectsOf(n, b) /\ found.columns = {}
  BY <1>2, <1>4, <1>5, <1>9, <1>11
<1> HIDE DEF found
<1>13. ReadsInScope(n, ctes, found)
  BY <1>6, <1>10, <1>12, ScopedRead DEF b
<1> QED BY <1>13 DEF found

\* The part of WalkQueryNode that depends on the kind.
KindWalk(n, ctes, within, action) ==
  CASE n.kind = "SELECT_NODE"         -> WalkEach(n, SelectMembers, ctes)
    [] n.kind = "SET_OPERATION_NODE"  -> WalkEach(n, {"children"}, ctes)
    [] n.kind = "CTE_NODE"            -> Both(WalkRequired(n, {"query"}, ctes), WalkRequired(n, {"child"}, within))
    [] n.kind = "RECURSIVE_CTE_NODE"  -> Both(WalkRequired(n, {"left"}, ctes), WalkRequired(n, {"right"}, within))
    [] n.kind = "BOUND_SUBQUERY_NODE" -> Nothing
    [] n.kind \in {"INSERT", "UPDATE", "DELETE", "MERGE"} -> Both(UnsafeIf(~HiddenFits(n, action)), WalkDml(n, ctes))
    [] n.kind = "COPY" -> Both(UnsafeIf(~HiddenFits(n, action)), WalkRequired(n, {"info"}, ctes))
    [] OTHER -> UnsupportedQueryNode

\* Its members: in the scope of the node, and in that of its own name too.
KindMembers(kind) ==
  CASE kind = "SELECT_NODE"        -> SelectMembers
    [] kind = "SET_OPERATION_NODE" -> {"children"}
    [] kind = "CTE_NODE"           -> {"query"}
    [] kind = "RECURSIVE_CTE_NODE" -> {"left"}
    [] kind \in DmlKinds           -> DmlMembers(kind)
    [] kind = "COPY"               -> {"info"}
    [] OTHER -> {}
NamedMembers(kind) ==
  CASE kind = "CTE_NODE" -> {"child"} [] kind = "RECURSIVE_CTE_NODE" -> {"right"} [] OTHER -> {}

QueryKinds == {"SELECT_NODE", "SET_OPERATION_NODE", "CTE_NODE", "RECURSIVE_CTE_NODE", "BOUND_SUBQUERY_NODE",
               "INSERT", "UPDATE", "DELETE", "MERGE", "COPY"}

\* The part of WalkQueryNode for the kind of the query calls each member in the
\* scope that is due to it: the child of a CTE node and the right side of a
\* recursive one see the node's own alias too.
LEMMA KindFound ==
  ASSUME NEW n, ParsedNode(n), n.sort = "query", NEW ctes, NEW within, NEW action, NEW b,
         ~KindWalk(n, ctes, within, action).unsafe
  PROVE  /\ n.kind \in QueryKinds
         /\ KindWalk(n, ctes, within, action).todo = Calls(n, KindMembers(n.kind), ctes) \cup Calls(n, NamedMembers(n.kind), within)
         /\ KindWalk(n, ctes, within, action).objects = ObjectsOf(n, b)
         /\ KindWalk(n, ctes, within, action).columns = {}
<1> DEFINE found == KindWalk(n, ctes, within, action)
           M == KindMembers(n.kind)
           R == NamedMembers(n.kind)
<1>1. n.kind \in QueryKinds
  BY NothingFound DEF KindWalk, QueryKinds, UnsupportedQueryNode
<1>2. n.kind # "INSERT" => ObjectsOf(n, b) = {}
  BY DEF ObjectsOf
<1>3. Calls(n, {}, within) = {} /\ Calls(n, {}, ctes) = {}
  BY NoCalls
<1>4. CASE n.kind \in {"SELECT_NODE", "SET_OPERATION_NODE"}
  <2>1. found = WalkEach(n, M, ctes) /\ R = {}
    BY <1>4 DEF KindWalk, KindMembers, NamedMembers, DmlKinds
  <2> HIDE DEF found, M, R
  <2>2. found.todo = Calls(n, M, ctes) /\ found.objects = {} /\ found.columns = {}
    BY <2>1, EachFound
  <2>3. ObjectsOf(n, b) = {} /\ Calls(n, R, within) = {}
    BY <1>2, <1>3, <1>4, <2>1
  <2>4. found.todo = Calls(n, M, ctes) \cup Calls(n, R, within) /\ found.objects = ObjectsOf(n, b) /\ found.columns = {}
    BY <2>2, <2>3
  <2> QED BY <1>1, <2>4 DEF found, M, R
<1>5. CASE n.kind \in {"CTE_NODE", "RECURSIVE_CTE_NODE"}
  <2> DEFINE f == WalkRequired(n, M, ctes)
             g == WalkRequired(n, R, within)
  <2>1. found = Both(f, g)
    BY <1>5 DEF KindWalk, KindMembers, NamedMembers, DmlKinds
  <2> HIDE DEF M, R
  <2>2. f.todo = Calls(n, M, ctes) /\ f.objects = {} /\ f.columns = {}
    BY RequiredFound
  <2>3. g.todo = Calls(n, R, within) /\ g.objects = {} /\ g.columns = {}
    BY RequiredFound
  <2>4. ObjectsOf(n, b) = {}
    BY <1>2, <1>5
  <2> HIDE DEF f, g
  <2>5. /\ Both(f, g).objects = f.objects \cup g.objects /\ Both(f, g).columns = f.columns \cup g.columns
        /\ Both(f, g).todo = f.todo \cup g.todo
    BY BothFound, Zenon
  <2>6. found.todo = Calls(n, M, ctes) \cup Calls(n, R, within) /\ found.objects = ObjectsOf(n, b) /\ found.columns = {}
    BY <2>1, <2>2, <2>3, <2>4, <2>5
  <2> HIDE DEF found
  <2> QED BY <1>1, <2>6 DEF found, M, R
<1>6. CASE n.kind = "BOUND_SUBQUERY_NODE"
  <2>1. found = Nothing /\ M = {} /\ R = {}
    BY <1>6 DEF KindWalk, KindMembers, NamedMembers, DmlKinds
  <2>2. ObjectsOf(n, b) = {}
    BY <1>2, <1>6
  <2> HIDE DEF found, M, R
  <2>3. found.todo = Calls(n, M, ctes) \cup Calls(n, R, within) /\ found.objects = ObjectsOf(n, b) /\ found.columns = {}
    BY <1>3, <2>1, <2>2, NothingFound
  <2> QED BY <1>1, <2>3 DEF found, M, R
<1>7. CASE n.kind \in DmlKinds \cup {"COPY"}
  <2> DEFINE c == ~HiddenFits(n, action)
             f == UnsafeIf(c)
             g == IF n.kind = "COPY" THEN WalkRequired(n, M, ctes) ELSE WalkDml(n, ctes)
  <2>1. found = Both(f, g) /\ R = {}
    BY <1>7 DEF KindWalk, KindMembers, NamedMembers, DmlKinds
  <2>2. ~g.unsafe
    <3> HIDE DEF f, g
    <3> QED BY <2>1, BothUnsafe
  <2>3. f.todo = {} /\ f.objects = {} /\ f.columns = {}
    <3> HIDE DEF c
    <3> QED BY UnsafeIfFound
  <2>4. g.todo = Calls(n, M, ctes) /\ g.objects = ObjectsOf(n, b) /\ g.columns = {}
    <3>1. CASE n.kind = "COPY"
      <4> HIDE DEF M
      <4> QED BY <1>2, <3>1, RequiredFound
    <3>2. CASE n.kind # "COPY"
      <4>1. n.kind \in DmlKinds /\ M = DmlMembers(n.kind) /\ g = WalkDml(n, ctes)
        BY <1>7, <3>2 DEF KindMembers, DmlKinds
      <4> HIDE DEF M, g
      <4> QED BY <2>2, <4>1, DmlFound
    <3> QED BY <3>1, <3>2
  <2> HIDE DEF f, g, M, R
  <2>5. /\ Both(f, g).objects = f.objects \cup g.objects /\ Both(f, g).columns = f.columns \cup g.columns
        /\ Both(f, g).todo = f.todo \cup g.todo
    BY BothFound, Zenon
  <2>6. found.todo = Calls(n, M, ctes) \cup Calls(n, R, within) /\ found.objects = ObjectsOf(n, b) /\ found.columns = {}
    BY <1>3, <2>1, <2>3, <2>4, <2>5
  <2> HIDE DEF found
  <2> QED BY <1>1, <2>6 DEF found, M, R
<1> QED BY <1>1, <1>4, <1>5, <1>6, <1>7 DEF QueryKinds, DmlKinds

\* WalkQueryNode walks every member that a query of its kind can have.
LEMMA QueryMembers ==
  ASSUME NEW kind \in QueryKinds, NEW p \in QueryParts(kind)
  PROVE  p[1] \in KindMembers(kind) \cup NamedMembers(kind)
<1>1. CASE kind = "SELECT_NODE"
  <2>1. \/ p \in Under({"from_table"}, "ref")
        \/ p \in Under({"select_list", "where_clause", "having", "qualify", "group_expressions"}, "expression")
    BY <1>1 DEF QueryParts
  <2>2. p[1] \in SelectMembers
    BY <2>1, UnderIn DEF SelectMembers
  <2> QED BY <1>1, <2>2 DEF KindMembers, DmlKinds
<1>2. CASE kind = "SET_OPERATION_NODE"
  <2>1. p \in Under({"children"}, "query")
    BY <1>2 DEF QueryParts
  <2> QED BY <1>2, <2>1, UnderIn DEF KindMembers, DmlKinds
<1>3. CASE kind = "CTE_NODE"
  <2>1. p \in Under({"query", "child"}, "query")
    BY <1>3 DEF QueryParts
  <2> QED BY <1>3, <2>1, UnderIn DEF KindMembers, NamedMembers, DmlKinds
<1>4. CASE kind = "RECURSIVE_CTE_NODE"
  <2>1. p \in Under({"left", "right"}, "query")
    BY <1>4 DEF QueryParts
  <2> QED BY <1>4, <2>1, UnderIn DEF KindMembers, NamedMembers, DmlKinds
<1>5. CASE kind = "BOUND_SUBQUERY_NODE"
  BY <1>5 DEF QueryParts, WritingParts
<1>6. CASE kind = "COPY"
  <2>1. p \in Under({"info"}, "copy")
    BY <1>6 DEF QueryParts
  <2> QED BY <1>6, <2>1, UnderIn DEF KindMembers, DmlKinds
<1>7. CASE kind \in DmlKinds
  <2>1. p \in WritingParts(kind)
    BY <1>7 DEF QueryParts, DmlKinds
  <2>2. p[1] \in DmlMembers(kind)
    BY <1>7, <2>1, WritingMembers
  <2> QED BY <1>7, <2>2 DEF KindMembers, DmlKinds
<1> QED BY <1>1, <1>2, <1>3, <1>4, <1>5, <1>6, <1>7 DEF QueryKinds, DmlKinds

\* WalkQueryNode reads every query that it does not call unsafe, each part in
\* the scope that the definitions around it make.
LEMMA QueryRead ==
  ASSUME NEW n, ParsedNode(n), n.sort = "query", NEW ctes, NEW action, ~WalkQueryNode(n, ctes, action).unsafe
  PROVE  ReadsInScope(n, ctes, WalkQueryNode(n, ctes, action))
<1> DEFINE found == WalkQueryNode(n, ctes, action)
           scope == CteScope(n, ctes)
           within == Within(n, ctes)
           b == IsCte(n.name, ctes)
           f == CteBodies(n, ctes)
           g == WalkRequired(n, {"modifiers"}, scope)
           h == KindWalk(n, scope, within, action)
           K == KindMembers(n.kind)
           M == {"modifiers"} \cup K
           R == NamedMembers(n.kind)
<1>1. found = All({f, g, h})
  BY Zenon DEF WalkQueryNode, KindWalk, Within
<1>2. ~h.unsafe
  <2> HIDE DEF f, g, h
  <2> QED BY <1>1, AllUnsafe
<1>3. n.kind \in QueryKinds /\ h.todo = Calls(n, K, scope) \cup Calls(n, R, within) /\ h.objects = ObjectsOf(n, b) /\ h.columns = {}
  <2> HIDE DEF b, scope, within
  <2> QED BY <1>2, KindFound
<1>4. f.objects = {} /\ f.columns = {}
  BY CteBodiesOnly
<1>5. g.objects = {} /\ g.columns = {} /\ g.todo = Calls(n, {"modifiers"}, scope)
  <2> HIDE DEF scope
  <2> QED BY RequiredFound
<1>6. n.kind \notin {"UNKNOWN", "MACRO_ENTRY", "TABLE_MACRO_ENTRY"}
  BY <1>3 DEF QueryKinds
<1>7. DOMAIN n.kids \subseteq {"cte_map"} \cup M \cup R
  <2>1. Parts(n) = Under({"cte_map"}, "cte") \cup Under({"modifiers"}, "modifier") \cup QueryParts(n.kind)
    BY DEF Parts
  <2> HIDE DEF K, R
  <2>2. ASSUME NEW p \in Parts(n) PROVE p[1] \in {"cte_map"} \cup M \cup R
    <3>1. CASE p \in Under({"cte_map"}, "cte")
      BY <3>1, UnderIn
    <3>2. CASE p \in Under({"modifiers"}, "modifier")
      BY <3>2, UnderIn
    <3>3. CASE p \in QueryParts(n.kind)
      <4>1. p[1] \in K \cup R
        BY <1>3, <3>3, QueryMembers DEF K, R
      <4> QED BY <4>1
    <3> QED BY <2>1, <3>1, <3>2, <3>3
  <2> HIDE DEF M
  <2> QED BY <1>6, <2>2, KnownParts
<1>8. "cte_map" \notin M \cup R /\ "function" \notin M \cup R
  BY <1>3 DEF QueryKinds, DmlKinds, DmlMembers, KindMembers, NamedMembers, SelectMembers
<1>9. \A m \in M : <<n.kind, m>> \notin {<<"CTE_NODE", "child">>, <<"RECURSIVE_CTE_NODE", "right">>}
  BY DEF KindMembers, DmlKinds
<1>10. \A m \in R : <<n.kind, m>> \in {<<"CTE_NODE", "child">>, <<"RECURSIVE_CTE_NODE", "right">>}
  BY DEF NamedMembers
<1>11. f.todo \cup Calls(n, M, scope) \cup Calls(n, R, within) = Below(n, ctes)
  <2> HIDE DEF M, R
  <2>1. Divided(n, M, R)
    BY <1>7, <1>8, <1>9, <1>10 DEF Divided, OwnScope
  <2> QED BY <2>1, ScopedCalls
<1>12. Calls(n, {"modifiers"}, scope) \cup Calls(n, K, scope) = Calls(n, M, scope)
  <2> HIDE DEF scope, K
  <2> QED BY CallsUnion
<1>13. "function" \notin DOMAIN n.kids
  BY <1>7, <1>8
<1> HIDE DEF f, g, h, K, M, R, scope, within, b
<1>14. /\ All({f, g, h}).objects = f.objects \cup g.objects \cup h.objects
       /\ All({f, g, h}).columns = f.columns \cup g.columns \cup h.columns
       /\ All({f, g, h}).todo = f.todo \cup g.todo \cup h.todo
  BY AllOfThree
<1>15. found.todo = Below(n, ctes) /\ found.objects = ObjectsOf(n, b) /\ found.columns = {}
  BY <1>1, <1>3, <1>4, <1>5, <1>11, <1>12, <1>14
<1> HIDE DEF found
<1>16. ReadsInScope(n, ctes, found)
  BY <1>6, <1>13, <1>15, ScopedRead DEF b
<1> QED BY <1>16 DEF found

(***************************************************************************)
(* The walk of a node of any sort.                                          *)
(***************************************************************************)
OrdinarySorts == {"expression", "query", "cte", "ref", "modifier", "set_info", "pivot", "constraint"}
Sorts == OrdinarySorts \cup {"merge_action", "copy", "create", "drop", "alter", "pragma", "attach", "detach", "body", "statement"}

\* The walk of a node of any sort, unless unsafe, finds what the node gets at
\* and calls every node below it, in the scope that is due to each.
LEMMA PartRead ==
  ASSUME NEW n, ParsedNode(n), KidsParsed(n), n.sort \in Sorts,
         n.sort = "statement" => ~ClassifyStatement(n).unsafe,
         NEW ctes, NEW action, ~WalkPart(n, ctes, action).unsafe
  PROVE  ReadsInScope(n, ctes, WalkPart(n, ctes, action))
<1>1. CASE n.sort = "expression"
  <2>1. WalkPart(n, ctes, action) = WalkExpression(n, ctes)
    BY <1>1 DEF WalkPart
  <2> QED BY <1>1, <2>1, ExpressionRead, SameScope
<1>2. CASE n.sort = "query"
  <2>1. WalkPart(n, ctes, action) = WalkQueryNode(n, ctes, action)
    BY <1>2 DEF WalkPart
  <2> QED BY <1>2, <2>1, QueryRead
<1>3. CASE n.sort = "cte"
  <2>1. WalkPart(n, ctes, action) = WalkCte(n, ctes)
    BY <1>3 DEF WalkPart
  <2> QED BY <1>3, <2>1, CteRead, SameScope
<1>4. CASE n.sort = "ref"
  <2>1. WalkPart(n, ctes, action) = WalkTableRef(n, ctes)
    BY <1>4 DEF WalkPart
  <2> QED BY <1>4, <2>1, TableRefRead, SameScope
<1>5. CASE n.sort = "modifier"
  <2>1. WalkPart(n, ctes, action) = WalkModifier(n, ctes)
    BY <1>5 DEF WalkPart
  <2> QED BY <1>5, <2>1, ModifierRead, SameScope
<1>6. CASE n.sort = "set_info"
  <2>1. WalkPart(n, ctes, action) = WalkSetInfo(n, ctes)
    BY <1>6 DEF WalkPart
  <2> QED BY <1>6, <2>1, SetInfoRead, SameScope
<1>7. CASE n.sort = "pivot"
  <2>1. WalkPart(n, ctes, action) = WalkPivot(n, ctes)
    BY <1>7 DEF WalkPart
  <2> QED BY <1>7, <2>1, PivotRead, SameScope
<1>8. CASE n.sort = "constraint"
  <2>1. WalkPart(n, ctes, action) = WalkConstraint(n, ctes)
    BY <1>8 DEF WalkPart
  <2> QED BY <1>8, <2>1, ConstraintRead, SameScope
<1>9. CASE n.sort = "merge_action"
  <2>1. WalkPart(n, ctes, action) = WalkMergeAction(n, ctes)
    BY <1>9 DEF WalkPart
  <2> QED BY <1>9, <2>1, MergeActionRead, SameScope
<1>10. CASE n.sort = "copy"
  <2>1. WalkPart(n, ctes, action) = WalkCopyInfo(n, ctes)
    BY <1>10 DEF WalkPart
  <2> QED BY <1>10, <2>1, CopyRead, SameScope
<1>11. CASE n.sort = "create"
  <2>1. WalkPart(n, ctes, action) = WalkCreate(n, ctes)
    BY <1>11 DEF WalkPart
  <2> QED BY <1>11, <2>1, CreateRead, SameScope
<1>12. CASE n.sort = "drop"
  <2>1. WalkPart(n, ctes, action) = WalkDrop(n)
    BY <1>12 DEF WalkPart
  <2> QED BY <1>12, <2>1, DropRead, SameScope
<1>13. CASE n.sort = "alter"
  <2>1. WalkPart(n, ctes, action) = WalkAlter(n, ctes)
    BY <1>13 DEF WalkPart
  <2> QED BY <1>13, <2>1, AlterRead, SameScope
<1>14. CASE n.sort = "pragma"
  <2>1. WalkPart(n, ctes, action) = WalkPragma(n, ctes)
    BY <1>14 DEF WalkPart
  <2> QED BY <1>14, <2>1, PragmaRead, SameScope
<1>15. CASE n.sort = "attach"
  <2>1. WalkPart(n, ctes, action) = WalkAttach(n, ctes)
    BY <1>15 DEF WalkPart
  <2> QED BY <1>15, <2>1, AttachRead, SameScope
<1>16. CASE n.sort = "detach"
  <2>1. WalkPart(n, ctes, action) = WalkDetach(n)
    BY <1>16 DEF WalkPart
  <2> QED BY <1>16, <2>1, DetachRead, SameScope
<1>17. CASE n.sort = "body"
  <2>1. WalkPart(n, ctes, action) = WalkBody(n, ctes)
    BY <1>17 DEF WalkPart
  <2> QED BY <1>17, <2>1, BodyRead
<1>18. CASE n.sort = "statement"
  <2>1. WalkPart(n, ctes, action) = WalkStatement(n, ctes)
    BY <1>18 DEF WalkPart
  <2> QED BY <1>18, <2>1, StatementRead, SameScope
<1> QED BY <1>1, <1>2, <1>3, <1>4, <1>5, <1>6, <1>7, <1>8, <1>9, <1>10, <1>11, <1>12, <1>13, <1>14, <1>15, <1>16,
           <1>17, <1>18 DEF Sorts, OrdinarySorts

(***************************************************************************)
(* What is known of a node before it is walked, and what it then does.      *)
(***************************************************************************)
EffectsOf(n) ==
  CASE n.sort \in {"query", "body"} /\ n.kind \in {"INSERT", "UPDATE", "DELETE"} ->
         {CASE n.kind = "INSERT" -> "Insert" [] n.kind = "UPDATE" -> "Update" [] n.kind = "DELETE" -> "Delete"}
    [] n.sort = "merge_action" ->
         {CASE n.kind = "MERGE_UPDATE" -> "Update" [] n.kind = "MERGE_DELETE" -> "Delete" [] n.kind = "MERGE_INSERT" -> "Insert"}
    [] n.sort = "copy" -> {IF "is_from" \in n.opts THEN "CopyFrom" ELSE "CopyTo"}
    [] n.sort \in {"create", "drop", "alter", "detach"} -> {"Ddl"}
    [] n.sort = "attach" -> {"Attach"}
    [] n.sort = "pragma" -> {CASE LowerAscii(n.name) = <<"version">> -> "Pragma"
                               [] LowerAscii(n.name) \in Words({"quack_serve", "quack_stop", "quack_restart"}) -> "ServeAdmin"
                               [] OTHER -> "State"}
    [] n.sort = "statement" /\ n.kind = "SET" ->
         {IF LowerAscii(n.name) = <<"threads">> /\ n.opts = {} /\ n.kids.value[1].name = <<"4">> THEN "Pragma" ELSE "State"}
    [] n.sort = "statement" /\ n.kind = "LOAD" -> {"State"}
    [] n.sort = "expression" /\ n.kind = "FUNCTION" /\ LowerAscii(n.name) = <<"nextval">> -> {"State"}
    [] OTHER -> {}

\* What a node does is its own matter, but for EXPLAIN above it.
LEMMA EffectsAre ==
  ASSUME NEW t
  PROVE  EffectsAt(t) = IF IsExplained(t) THEN {} ELSE EffectsOf(t.end)
BY Zenon DEF EffectsAt, EffectsOf

\* A node that is not planned only fits the action of the request.
Suits(n, action) ==
  CASE n.sort = "body" -> HiddenFits(n, action)
    [] n.sort = "merge_action" -> n.kind = "MERGE_UPDATE" /\ action = "Update"
    [] n.sort \in {"copy", "create", "drop", "alter", "detach", "attach", "pragma"} -> EffectsOf(n) = {action}
    [] n.sort = "statement" -> n.kind = "SELECT" \/ ClassifyStatement(n).action = action
    [] OTHER -> TRUE

\* Expressions, queries, references and the like suit any action.
LEMMA OrdinarySuits ==
  ASSUME NEW n, NEW action, n.sort \in OrdinarySorts
  PROVE  Suits(n, action)
BY DEF Suits, OrdinarySorts

\* An expression that is not unsafe changes nothing: nextval is refused.
LEMMA ExpressionDoes ==
  ASSUME NEW n, n.sort = "expression", NEW ctes, ~WalkExpression(n, ctes).unsafe
  PROVE  EffectsOf(n) = {}
<1> DEFINE c == LowerAscii(n.name) \in Words({"current_setting", "getvariable", "nextval", "currval"})
           f == CASE n.kind = "COLUMN_REF" -> AddColumn(n.name)
                  [] n.kind = "STAR"       -> AddColumn(<<"*">>)
                  [] n.kind = "SUBQUERY"   -> WalkRequired(n, {"subquery"}, ctes)
                  [] n.kind = "FUNCTION"   -> UnsafeIf(c)
                  [] OTHER                 -> Nothing
           g == WalkEach(n, {"children"}, ctes)
<1>1. WalkExpression(n, ctes) = Both(f, g)
  BY Zenon DEF WalkExpression
<1>2. ~f.unsafe
  <2> HIDE DEF f, g
  <2> QED BY <1>1, BothUnsafe
<1>3. n.kind = "FUNCTION" => ~c
  <2> HIDE DEF c
  <2> QED BY <1>2, UnsafeIfFound
<1>4. LowerAscii(n.name) = <<"nextval">> => c
  BY DEF Words
<1> HIDE DEF c
<1>5. ~(n.kind = "FUNCTION" /\ LowerAscii(n.name) = <<"nextval">>)
  BY <1>3, <1>4
<1> QED BY <1>5 DEF EffectsOf

\* A statement within a query has been compared with the action.
LEMMA HiddenChecked ==
  ASSUME NEW n, n.kind \in DmlKinds \cup {"COPY"}, NEW ctes, NEW action, ~WalkQueryNode(n, ctes, action).unsafe
  PROVE  HiddenFits(n, action)
<1> DEFINE scope == CteScope(n, ctes)
           within == Within(n, ctes)
           f == CteBodies(n, ctes)
           g == WalkRequired(n, {"modifiers"}, scope)
           h == KindWalk(n, scope, within, action)
           fits == HiddenFits(n, action)
           k == IF n.kind = "COPY" THEN WalkRequired(n, {"info"}, scope) ELSE WalkDml(n, scope)
<1>1. WalkQueryNode(n, ctes, action) = All({f, g, h})
  BY Zenon DEF WalkQueryNode, KindWalk, Within
<1>2. ~h.unsafe
  <2> HIDE DEF f, g, h
  <2> QED BY <1>1, AllUnsafe
<1>3. h = Both(UnsafeIf(~fits), k)
  <2> HIDE DEF fits, scope, within
  <2>1. h = Both(UnsafeIf(~HiddenFits(n, action)), k)
    BY DEF KindWalk, DmlKinds
  <2> QED BY <2>1 DEF fits
<1> HIDE DEF h, k, fits
<1>4. ~UnsafeIf(~fits).unsafe
  <2> DEFINE u == UnsafeIf(~fits)
  <2> HIDE DEF u
  <2>1. h = Both(u, k)
    BY <1>3 DEF u
  <2>2. ~u.unsafe
    BY <1>2, <2>1, BothUnsafe
  <2> QED BY <2>2 DEF u
<1>5. fits
  <2> DEFINE c == ~fits
  <2>1. UnsafeIf(c).unsafe = c
    <3> HIDE DEF c
    <3> QED BY UnsafeIfFound
  <2> QED BY <1>4, <2>1
<1> QED BY <1>5 DEF fits

\* A query that is not unsafe does what the action of its statement says: the
\* hidden-statement checks refuse one that writes in the midst of another.
LEMMA QueryDoes ==
  ASSUME NEW n, n.sort = "query", NEW ctes, NEW action, ~WalkQueryNode(n, ctes, action).unsafe
  PROVE  EffectsOf(n) \subseteq {action}
<1>1. CASE n.kind \in {"INSERT", "UPDATE", "DELETE"}
  <2>1. HiddenFits(n, action)
    BY <1>1, HiddenChecked DEF DmlKinds
  <2> QED BY <1>1, <2>1 DEF EffectsOf, HiddenFits
<1>2. CASE n.kind \notin {"INSERT", "UPDATE", "DELETE"}
  BY <1>2 DEF EffectsOf
<1> QED BY <1>1, <1>2

\* WalkRequired is unsafe if one of the nodes it needs is missing.
LEMMA RequiredThere ==
  ASSUME NEW n, NEW members, NEW ctes, ~WalkRequired(n, members, ctes).unsafe
  PROVE  \A m \in members : \A i \in DOMAIN At(n, m) : At(n, m)[i] # Null
<1> DEFINE b == \E m \in members : \E i \in DOMAIN At(n, m) : At(n, m)[i] = Null
           f == WalkEach(n, members, ctes)
           g == UnsafeIf(b)
<1>1. WalkRequired(n, members, ctes) = Both(f, g)
  BY Zenon DEF WalkRequired
<1>2. ~g.unsafe
  <2> HIDE DEF f, g
  <2> QED BY <1>1, BothUnsafe
<1>3. ~b
  <2> HIDE DEF b
  <2> QED BY <1>2, UnsafeIfFound
<1> QED BY <1>3

\* A SET that is not unsafe is the one of the thread count.
LEMMA SetDoes ==
  ASSUME NEW n, ParsedNode(n), n.sort = "statement", n.kind = "SET", NEW ctes, ~ClassifyStatement(n).unsafe,
         ~WalkStatement(n, ctes).unsafe
  PROVE  EffectsOf(n) = {ClassifyStatement(n).action}
<1> DEFINE value == n.kids.value[1]
           name == LowerAscii(n.name)
           b == /\ value # Null
                /\ \/ value.kind # "CONSTANT"
                   \/ name = <<"threads">> /\ value.name # <<"4">>
           f == WalkRequired(n, {"value"}, ctes)
           g == UnsafeIf(b)
<1>1. "RESET" \notin n.opts /\ "GLOBAL" \notin n.opts /\ name = <<"threads">> /\ ClassifyStatement(n).action = "Pragma"
  BY DEF ClassifyStatement, AllowedSetting
<1>2. n.opts = {}
  <2>1. n.opts \subseteq {"GLOBAL", "RESET"}
    BY DEF ParsedNode, ParsedStatement
  <2> QED BY <1>1, <2>1
<1>3. WalkStatement(n, ctes) = Both(f, g)
  <2>1. WalkStatement(n, ctes) = WalkSet(n, ctes)
    BY DEF WalkStatement
  <2> QED BY <1>1, <2>1, Zenon DEF WalkSet
<1>4. ~f.unsafe /\ ~g.unsafe
  <2> HIDE DEF f, g
  <2> QED BY <1>3, BothUnsafe
<1>5. ~b
  <2> HIDE DEF b
  <2> QED BY <1>4, UnsafeIfFound
<1>6. value # Null
  <2>1. "value" \in DOMAIN n.kids /\ Len(n.kids["value"]) = 1
    <3>1. Parts(n) = Under({"value"}, "expression")
      BY DEF Parts, StatementParts
    <3>2. <<"value", "expression">> \in Parts(n)
      BY <3>1 DEF Under
    <3>3. \A p \in Parts(n) : p[1] \in DOMAIN n.kids /\ Len(n.kids[p[1]]) = 1
      BY DEF ParsedNode, ParsedStatement
    <3> DEFINE p == <<"value", "expression">>
    <3>4. p[1] = "value"
      OBVIOUS
    <3> HIDE DEF p
    <3>5. p \in Parts(n)
      BY <3>2 DEF p
    <3> QED BY <3>3, <3>4, <3>5
  <2>2. 1 \in DOMAIN n.kids["value"] /\ At(n, "value") = n.kids["value"]
    BY <2>1 DEF ParsedNode, At
  <2>3. At(n, "value")[1] # Null
    BY <1>4, <2>2, RequiredThere
  <2> QED BY <2>2, <2>3
<1>7. value.name = <<"4">>
  BY <1>1, <1>5, <1>6
<1> QED BY <1>1, <1>2, <1>7 DEF EffectsOf

\* Any node that is not unsafe and suits the action does at most that.
LEMMA NodeDoes ==
  ASSUME NEW n, ParsedNode(n), n.sort \in Sorts, n.sort = "statement" => ~ClassifyStatement(n).unsafe,
         NEW ctes, NEW action, ~WalkPart(n, ctes, action).unsafe, Suits(n, action)
  PROVE  EffectsOf(n) \subseteq {action}
<1>1. CASE n.sort = "expression"
  <2>1. WalkPart(n, ctes, action) = WalkExpression(n, ctes)
    BY <1>1 DEF WalkPart
  <2> QED BY <1>1, <2>1, ExpressionDoes
<1>2. CASE n.sort = "query"
  <2>1. WalkPart(n, ctes, action) = WalkQueryNode(n, ctes, action)
    BY <1>2 DEF WalkPart
  <2> QED BY <1>2, <2>1, QueryDoes
<1>3. CASE n.sort \in {"cte", "ref", "modifier", "set_info", "pivot", "constraint"}
  BY <1>3 DEF EffectsOf
<1>4. CASE n.sort = "body"
  <2>1. HiddenFits(n, action)
    BY <1>4 DEF Suits
  <2>2. n.kind \in DmlKinds
    BY <1>4 DEF ParsedNode, DmlKinds
  <2> QED BY <1>4, <2>1, <2>2 DEF EffectsOf, HiddenFits, DmlKinds
<1>5. CASE n.sort = "merge_action"
  BY <1>5 DEF Suits, EffectsOf
<1>6. CASE n.sort \in {"copy", "create", "drop", "alter", "detach", "attach", "pragma"}
  <2>1. EffectsOf(n) = {action}
    BY <1>6 DEF Suits
  <2> QED BY <2>1
<1>7. CASE n.sort = "statement"
  <2>1. WalkPart(n, ctes, action) = WalkStatement(n, ctes)
    BY <1>7 DEF WalkPart
  <2>2. CASE n.kind = "SET"
    <3>1. ClassifyStatement(n).action = action
      BY <1>7, <2>2 DEF Suits
    <3>2. EffectsOf(n) = {ClassifyStatement(n).action}
      BY <1>7, <2>1, <2>2, SetDoes
    <3> QED BY <3>1, <3>2
  <2>3. CASE n.kind = "LOAD"
    BY <1>7, <2>3 DEF ClassifyStatement
  <2>4. CASE n.kind \notin {"SET", "LOAD"}
    BY <1>7, <2>4 DEF EffectsOf
  <2> QED BY <2>2, <2>3, <2>4
<1> QED BY <1>1, <1>2, <1>3, <1>4, <1>5, <1>6, <1>7 DEF Sorts, OrdinarySorts

\* The parts of a node that are more than expressions and queries.
LEMMA WritingSorts ==
  ASSUME NEW kind, NEW p \in WritingParts(kind)
  PROVE  p[2] \in OrdinarySorts \/ (kind = "MERGE" /\ p[1] = "actions" /\ p[2] = "merge_action")
<1>1. kind \in {"INSERT", "UPDATE", "DELETE", "MERGE"}
  BY DEF WritingParts
<1>2. CASE kind = "MERGE"
  <2>1. \/ p \in Under({"target", "source"}, "ref") \/ p \in Under({"actions"}, "merge_action")
        \/ p \in Under({"join_condition", "returning_list"}, "expression")
    BY <1>2 DEF WritingParts
  <2> QED BY <1>2, <2>1, UnderIn DEF OrdinarySorts
<1>3. CASE kind = "INSERT"
  <2>1. \/ p \in Under({"select_statement"}, "query") \/ p \in Under({"table_ref"}, "ref")
        \/ p \in Under({"on_conflict_set"}, "set_info")
        \/ p \in Under({"returning_list", "on_conflict_condition"}, "expression")
    BY <1>3 DEF WritingParts
  <2> QED BY <2>1, UnderIn DEF OrdinarySorts
<1>4. CASE kind = "UPDATE"
  <2>1. \/ p \in Under({"table", "from_table"}, "ref") \/ p \in Under({"set_info"}, "set_info")
        \/ p \in Under({"returning_list"}, "expression")
    BY <1>4 DEF WritingParts
  <2> QED BY <2>1, UnderIn DEF OrdinarySorts
<1>5. CASE kind = "DELETE"
  <2>1. p \in Under({"table", "using_clauses"}, "ref") \/ p \in Under({"condition", "returning_list"}, "expression")
    BY <1>5 DEF WritingParts
  <2> QED BY <2>1, UnderIn DEF OrdinarySorts
<1> QED BY <1>1, <1>2, <1>3, <1>4, <1>5

\* Below a query are ordinary nodes, but for the actions of MERGE and the
\* target of COPY.
LEMMA QuerySorts ==
  ASSUME NEW kind, NEW p \in QueryParts(kind)
  PROVE  \/ p[2] \in OrdinarySorts \/ (kind = "MERGE" /\ p[1] = "actions" /\ p[2] = "merge_action")
         \/ kind = "COPY" /\ p[1] = "info" /\ p[2] = "copy"
<1>1. CASE kind = "SELECT_NODE"
  <2>1. \/ p \in Under({"from_table"}, "ref")
        \/ p \in Under({"select_list", "where_clause", "having", "qualify", "group_expressions"}, "expression")
    BY <1>1 DEF QueryParts
  <2> QED BY <2>1, UnderIn DEF OrdinarySorts
<1>2. CASE kind \in {"SET_OPERATION_NODE", "CTE_NODE", "RECURSIVE_CTE_NODE"}
  <2>1. PICK A \in {{"children"}, {"query", "child"}, {"left", "right"}} : p \in Under(A, "query")
    BY <1>2 DEF QueryParts
  <2> QED BY <2>1, UnderIn DEF OrdinarySorts
<1>3. CASE kind = "COPY"
  <2>1. p \in Under({"info"}, "copy")
    BY <1>3 DEF QueryParts
  <2> QED BY <1>3, <2>1, UnderIn
<1>4. CASE kind \notin {"SELECT_NODE", "SET_OPERATION_NODE", "CTE_NODE", "RECURSIVE_CTE_NODE", "COPY"}
  <2>1. p \in WritingParts(kind)
    BY <1>4 DEF QueryParts
  <2> QED BY <2>1, WritingSorts
<1> QED BY <1>1, <1>2, <1>3, <1>4

\* Below a reference are ordinary nodes.
LEMMA RefSorts ==
  ASSUME NEW kind, NEW p \in RefParts(kind)
  PROVE  p[2] \in OrdinarySorts
<1>1. CASE kind \in {"BASE_TABLE", "EXPRESSION_LIST"}
  <2>1. PICK A \in {{"at_clause"}, {"values"}} : p \in Under(A, "expression")
    BY <1>1 DEF RefParts
  <2> QED BY <2>1, UnderIn DEF OrdinarySorts
<1>2. CASE kind = "JOIN"
  <2>1. p \in Under({"left", "right"}, "ref") \/ p \in Under({"condition"}, "expression")
    BY <1>2 DEF RefParts
  <2> QED BY <2>1, UnderIn DEF OrdinarySorts
<1>3. CASE kind \in {"SUBQUERY", "SHOW_REF"}
  <2>1. PICK A \in {{"subquery"}, {"query"}} : p \in Under(A, "query")
    BY <1>3 DEF RefParts
  <2> QED BY <2>1, UnderIn DEF OrdinarySorts
<1>4. CASE kind = "TABLE_FUNCTION"
  <2>1. p \in Under({"function"}, "expression") \/ p \in Under({"subquery"}, "query")
    BY <1>4 DEF RefParts
  <2> QED BY <2>1, UnderIn DEF OrdinarySorts
<1>5. CASE kind = "PIVOT"
  <2>1. p \in Under({"source"}, "ref") \/ p \in Under({"aggregates"}, "expression") \/ p \in Under({"pivots"}, "pivot")
    BY <1>5 DEF RefParts
  <2> QED BY <2>1, UnderIn DEF OrdinarySorts
<1>6. kind \in {"BASE_TABLE", "EXPRESSION_LIST", "JOIN", "SUBQUERY", "SHOW_REF", "TABLE_FUNCTION", "PIVOT"}
  BY DEF RefParts
<1> QED BY <1>1, <1>2, <1>3, <1>4, <1>5, <1>6

\* Below a CREATE are ordinary nodes, but for the query of a type.
LEMMA CreateSorts ==
  ASSUME NEW kind, NEW p \in CreateParts(kind)
  PROVE  p[2] \in OrdinarySorts \/ (kind = "TYPE_ENTRY" /\ p[1] = "query" /\ p[2] = "statement")
<1>1. CASE kind = "TABLE_ENTRY"
  <2>1. \/ p \in Under({"query"}, "query") \/ p \in Under({"constraints"}, "constraint")
        \/ p \in Under({"columns", "partition_keys", "sort_keys", "options"}, "expression")
    BY <1>1 DEF CreateParts
  <2> QED BY <2>1, UnderIn DEF OrdinarySorts
<1>2. CASE kind = "VIEW_ENTRY"
  <2>1. p \in Under({"query"}, "query")
    BY <1>2 DEF CreateParts
  <2> QED BY <2>1, UnderIn DEF OrdinarySorts
<1>3. CASE kind = "TYPE_ENTRY"
  <2>1. p \in Under({"query"}, "statement")
    BY <1>3 DEF CreateParts
  <2> QED BY <1>3, <2>1, UnderIn
<1>4. CASE kind = "SCHEMA_ENTRY"
  <2>1. p \in Under({"options"}, "expression")
    BY <1>4 DEF CreateParts
  <2> QED BY <2>1, UnderIn DEF OrdinarySorts
<1>5. kind \in {"TABLE_ENTRY", "VIEW_ENTRY", "TYPE_ENTRY", "SCHEMA_ENTRY"}
  BY DEF CreateParts
<1> QED BY <1>1, <1>2, <1>3, <1>4, <1>5

\* Where in the grammar a node that is not ordinary can be.
LEMMA PartSorts ==
  ASSUME NEW n, n.sort \in Sorts, NEW p \in Parts(n)
  PROVE  \/ p[2] \in OrdinarySorts
         \/ n.sort \in {"query", "body"} /\ n.kind = "MERGE" /\ p[1] = "actions" /\ p[2] = "merge_action"
         \/ n.sort = "query" /\ n.kind = "COPY" /\ p[1] = "info" /\ p[2] = "copy"
         \/ n.sort = "create" /\ n.kind = "TYPE_ENTRY" /\ p[1] = "query" /\ p[2] = "statement"
         \/ n.sort = "statement" /\ p \in StatementParts(n.kind)
<1>1. CASE n.sort = "expression"
  <2> DEFINE A == IF n.kind = "SUBQUERY" THEN {"subquery"} ELSE {}
  <2>1. p \in Under({"children"}, "expression") \/ p \in Under(A, "query")
    BY <1>1 DEF Parts
  <2> HIDE DEF A
  <2> QED BY <2>1, UnderIn DEF OrdinarySorts
<1>2. CASE n.sort = "query"
  <2>1. p \in Under({"cte_map"}, "cte") \/ p \in Under({"modifiers"}, "modifier") \/ p \in QueryParts(n.kind)
    BY <1>2 DEF Parts
  <2>2. p \in QueryParts(n.kind) \/ p[2] \in OrdinarySorts
    BY <2>1, UnderIn DEF OrdinarySorts
  <2> QED BY <1>2, <2>2, QuerySorts
<1>3. CASE n.sort = "body"
  <2>1. p \in Under({"cte_map"}, "cte") \/ p \in WritingParts(n.kind)
    BY <1>3 DEF Parts
  <2>2. p \in WritingParts(n.kind) \/ p[2] \in OrdinarySorts
    BY <2>1, UnderIn DEF OrdinarySorts
  <2> QED BY <1>3, <2>2, WritingSorts
<1>4. CASE n.sort = "cte"
  <2>1. p \in Under({"query"}, "query")
    BY <1>4 DEF Parts
  <2> QED BY <2>1, UnderIn DEF OrdinarySorts
<1>5. CASE n.sort = "ref"
  <2>1. p \in RefParts(n.kind)
    BY <1>5 DEF Parts
  <2> QED BY <2>1, RefSorts
<1>6. CASE n.sort = "modifier"
  <2> DEFINE A == CASE n.kind = "ORDER_MODIFIER" -> {"orders"}
                    [] n.kind = "DISTINCT_MODIFIER" -> {"distinct_on_targets"}
                    [] OTHER -> {"limit", "offset"}
  <2>1. p \in Under(A, "expression")
    BY <1>6 DEF Parts
  <2> HIDE DEF A
  <2> QED BY <2>1, UnderIn DEF OrdinarySorts
<1>7. CASE n.sort = "set_info"
  <2>1. p \in Under({"expressions", "condition"}, "expression")
    BY <1>7 DEF Parts
  <2> QED BY <2>1, UnderIn DEF OrdinarySorts
<1>8. CASE n.sort = "pivot"
  <2>1. p \in Under({"pivot_expressions", "entries"}, "expression") \/ p \in Under({"subquery"}, "query")
    BY <1>8 DEF Parts
  <2> QED BY <2>1, UnderIn DEF OrdinarySorts
<1>9. CASE n.sort = "constraint"
  <2> DEFINE A == IF n.kind = "CHECK" THEN {"expression"} ELSE {}
  <2>1. p \in Under(A, "expression")
    BY <1>9 DEF Parts
  <2> HIDE DEF A
  <2> QED BY <2>1, UnderIn DEF OrdinarySorts
<1>10. CASE n.sort = "merge_action"
  <2>1. p \in Under({"condition", "expressions"}, "expression") \/ p \in Under({"update_info"}, "set_info")
    BY <1>10 DEF Parts
  <2> QED BY <2>1, UnderIn DEF OrdinarySorts
<1>11. CASE n.sort = "copy"
  <2>1. p \in Under({"select_statement"}, "query") \/ p \in Under({"file_path_expression", "parsed_options"}, "expression")
    BY <1>11 DEF Parts
  <2> QED BY <2>1, UnderIn DEF OrdinarySorts
<1>12. CASE n.sort = "create"
  <2>1. p \in CreateParts(n.kind)
    BY <1>12 DEF Parts
  <2> QED BY <1>12, <2>1, CreateSorts
<1>13. CASE n.sort = "alter"
  <2> DEFINE A == IF n.kind \in {"ALTER_COLUMN_TYPE", "SET_DEFAULT", "ADD_COLUMN"} THEN {"expression"} ELSE {}
  <2>1. p \in Under(A, "expression")
    BY <1>13 DEF Parts, AlterParts
  <2> HIDE DEF A
  <2> QED BY <2>1, UnderIn DEF OrdinarySorts
<1>14. CASE n.sort \in {"pragma", "attach"}
  <2>1. PICK A \in {{"parameters", "named_parameters"}, {"parsed_options"}} : p \in Under(A, "expression")
    BY <1>14 DEF Parts
  <2> QED BY <2>1, UnderIn DEF OrdinarySorts
<1>15. CASE n.sort \in {"drop", "detach"}
  BY <1>15 DEF Parts
<1>16. CASE n.sort = "statement"
  BY <1>16 DEF Parts
<1> QED BY <1>1, <1>2, <1>3, <1>4, <1>5, <1>6, <1>7, <1>8, <1>9, <1>10, <1>11, <1>12, <1>13, <1>14, <1>15, <1>16
        DEF Sorts, OrdinarySorts

\* What the walk of a node leaves known of a node below it.
KidChecked(n, k, action) ==
  /\ k.sort \in Sorts /\ (k.sort = "statement" => ~ClassifyStatement(k).unsafe)
  /\ Suits(n, action) => Suits(k, action) \/ (n.kind = "EXPLAIN" /\ "ANALYZE" \notin n.opts)

\* An ordinary node below another needs no check of its own.
LEMMA OrdinaryKid ==
  ASSUME NEW n, NEW k, NEW action, k.sort \in OrdinarySorts
  PROVE  KidChecked(n, k, action)
<1>1. Suits(k, action)
  BY OrdinarySuits
<1>2. k.sort \in Sorts /\ k.sort # "statement"
  BY DEF Sorts, OrdinarySorts
<1> QED BY <1>1, <1>2 DEF KidChecked

\* A MERGE that fits an action only updates.
LEMMA MergeKid ==
  ASSUME NEW n, n.kind = "MERGE", NEW action, HiddenFits(n, action), "actions" \in DOMAIN n.kids,
         NEW i \in DOMAIN n.kids["actions"]
  PROVE  n.kids["actions"][i].kind = "MERGE_UPDATE" /\ action = "Update"
<1>1. action = "Update" /\ MergeOnlyUpdates(n)
  BY DEF HiddenFits
<1>2. At(n, "actions") = n.kids["actions"]
  BY DEF At
<1> QED BY <1>1, <1>2 DEF MergeOnlyUpdates

\* The one node under a member of a statement.
LEMMA StatementKid ==
  ASSUME NEW n, ParsedNode(n), n.sort = "statement", NEW m \in DOMAIN n.kids, NEW i \in DOMAIN n.kids[m],
         NEW p \in Parts(n), m = p[1]
  PROVE  i = 1 /\ n.kids[m][i] = n.kids[m][1]
<1>1. Len(n.kids[m]) = 1 /\ DOMAIN n.kids[m] = 1..Len(n.kids[m])
  BY DEF ParsedNode, ParsedStatement
<1> QED BY <1>1

\* The node under a statement is what the statement is said to do.
LEMMA StatementChecked ==
  ASSUME NEW n, ParsedNode(n), n.sort = "statement", ~ClassifyStatement(n).unsafe, NEW ctes, NEW action,
         ~WalkStatement(n, ctes).unsafe,
         NEW p \in StatementParts(n.kind), p[1] \in DOMAIN n.kids, NEW k, k = n.kids[p[1]][1], k # Null, k.sort = p[2]
  PROVE  KidChecked(n, k, action)
<1>1. CASE n.kind \in {"SELECT", "SET"}
  <2>1. p \in Under({"node"}, "query") \/ p \in Under({"value"}, "expression")
    BY <1>1 DEF StatementParts
  <2>2. k.sort \in OrdinarySorts
    BY <2>1, UnderIn DEF OrdinarySorts
  <2> QED BY <2>2, OrdinaryKid
<1>2. CASE n.kind \in {"INSERT", "UPDATE", "DELETE", "MERGE_INTO"}
  <2>1. p \in Under({"node"}, "body")
    BY <1>2 DEF StatementParts
  <2>2. p[1] = "node" /\ k.sort = "body"
    BY <2>1, UnderIn
  <2>3. k = n.kids.node[1]
    BY <2>2
  <2>4. k.kind = IF n.kind = "MERGE_INTO" THEN "MERGE" ELSE n.kind
    BY <1>2, <2>3 DEF ParsedNode, ParsedStatement
  <2>5. Suits(n, action) => HiddenFits(k, action)
    <3>1. CASE n.kind = "MERGE_INTO"
      <4>1. ClassifyStatement(n) = [action |-> "Update", unsafe |-> ~MergeOnlyUpdates(n.kids.node[1])]
        BY <3>1 DEF ClassifyStatement
      <4> DEFINE u == ~MergeOnlyUpdates(k)
      <4>2. ClassifyStatement(n) = [action |-> "Update", unsafe |-> u]
        BY <2>3, <4>1, Zenon
      <4> HIDE DEF u
      <4>3. ~u /\ ClassifyStatement(n).action = "Update"
        BY <4>2
      <4>4. MergeOnlyUpdates(k)
        BY <4>3 DEF u
      <4> QED BY <2>4, <3>1, <4>3, <4>4 DEF Suits, HiddenFits
    <3>2. CASE n.kind \in {"INSERT", "UPDATE", "DELETE"}
      <4>1. ClassifyStatement(n).action =
              CASE n.kind = "INSERT" -> "Insert" [] n.kind = "UPDATE" -> "Update" [] n.kind = "DELETE" -> "Delete"
        BY <3>2 DEF ClassifyStatement
      <4> QED BY <2>4, <3>2, <4>1 DEF Suits, HiddenFits
    <3> QED BY <1>2, <3>1, <3>2
  <2> QED BY <2>2, <2>5 DEF KidChecked, Suits, Sorts
<1>3. CASE n.kind = "EXPLAIN"
  <2>1. p \in Under({"stmt"}, "statement")
    BY <1>3 DEF StatementParts
  <2>2. p[1] = "stmt" /\ k.sort = "statement"
    BY <2>1, UnderIn
  <2>3. k = n.kids.stmt[1]
    BY <2>2
  <2> DEFINE a == "ANALYZE" \in n.opts
             b == n.kids.stmt[1] # Null /\ ClassifyStatement(n.kids.stmt[1]).unsafe
             f == UnsafeIf(a)
             g == WalkRequired(n, {"stmt"}, ctes)
             h == UnsafeIf(b)
  <2>4. WalkStatement(n, ctes) = All({f, g, h})
    <3>1. WalkStatement(n, ctes) = WalkExplain(n, ctes)
      BY <1>3 DEF WalkStatement
    <3>2. WalkExplain(n, ctes) = All({f, g, h})
      BY Zenon DEF WalkExplain
    <3> QED BY <3>1, <3>2
  <2>5. ~f.unsafe /\ ~h.unsafe
    <3> HIDE DEF f, g, h
    <3> QED BY <2>4, AllUnsafe
  <2>6. ~a /\ ~b
    <3> HIDE DEF a, b
    <3> QED BY <2>5, UnsafeIfFound
  <2>7. ~ClassifyStatement(k).unsafe
    BY <2>3, <2>6
  <2> QED BY <1>3, <2>2, <2>6, <2>7 DEF KidChecked, Sorts
<1>4. CASE n.kind \in {"COPY", "CREATE", "DROP", "ALTER", "PRAGMA", "ATTACH", "DETACH"}
  <2>1. PICK sort \in {"copy", "create", "drop", "alter", "pragma", "attach", "detach"} : p \in Under({"info"}, sort)
    BY <1>4 DEF StatementParts
  <2>2. p[1] = "info" /\ k.sort = sort
    BY <2>1, UnderIn
  <2>3. k = n.kids.info[1]
    BY <2>2
  <2>4. EffectsOf(k) = {ClassifyStatement(n).action}
    <3>1. CASE n.kind = "COPY"
      <4>1. k.sort = "copy"
        <5>1. p \in Under({"info"}, "copy")
          BY <3>1 DEF StatementParts
        <5> QED BY <5>1, UnderIn
      <4>2. ClassifyStatement(n).action = IF "is_from" \in k.opts THEN "CopyFrom" ELSE "CopyTo"
        BY <2>3, <3>1 DEF ClassifyStatement
      <4> QED BY <4>1, <4>2 DEF EffectsOf
    <3>2. CASE n.kind \in {"CREATE", "DROP", "ALTER", "DETACH"}
      <4>1. k.sort \in {"create", "drop", "alter", "detach"}
        <5>1. PICK x \in {"create", "drop", "alter", "detach"} : p \in Under({"info"}, x)
          BY <3>2 DEF StatementParts
        <5> QED BY <5>1, UnderIn
      <4>2. ClassifyStatement(n).action = "Ddl"
        BY <3>2 DEF ClassifyStatement
      <4> QED BY <4>1, <4>2 DEF EffectsOf
    <3>3. CASE n.kind = "ATTACH"
      <4>1. k.sort = "attach"
        <5>1. p \in Under({"info"}, "attach")
          BY <3>3 DEF StatementParts
        <5> QED BY <5>1, UnderIn
      <4>2. ClassifyStatement(n).action = "Attach"
        BY <3>3 DEF ClassifyStatement
      <4> QED BY <4>1, <4>2 DEF EffectsOf
    <3>4. CASE n.kind = "PRAGMA"
      <4>1. k.sort = "pragma"
        <5>1. p \in Under({"info"}, "pragma")
          BY <3>4 DEF StatementParts
        <5> QED BY <5>1, UnderIn
      <4> DEFINE name == LowerAscii(k.name)
                 admin == name \in Words({"quack_serve", "quack_stop", "quack_restart"})
                 bad == IsOwn(name) \/ ~AllowedPragma(name)
      <4>2. ClassifyStatement(n) = IF admin THEN [action |-> "ServeAdmin", unsafe |-> FALSE]
                                   ELSE [action |-> "Pragma", unsafe |-> bad]
        BY <2>3, <3>4 DEF ClassifyStatement
      <4>3. EffectsOf(k) = {CASE name = <<"version">> -> "Pragma" [] admin -> "ServeAdmin" [] OTHER -> "State"}
        BY <4>1 DEF EffectsOf
      <4>4. ~bad => name = <<"version">>
        BY DEF AllowedPragma
      <4>5. admin => name # <<"version">>
        <5>1. admin => name \in {<<"quack_serve">>, <<"quack_stop">>, <<"quack_restart">>}
          BY DEF Words
        <5>2. /\ <<"quack_serve">> # <<"version">> /\ <<"quack_stop">> # <<"version">>
              /\ <<"quack_restart">> # <<"version">>
          OBVIOUS
        <5> HIDE DEF name, admin
        <5> QED BY <5>1, <5>2
      <4> HIDE DEF name, admin, bad
      <4> QED BY <4>2, <4>3, <4>4, <4>5
    <3> QED BY <1>4, <3>1, <3>2, <3>3, <3>4
  <2>5. Suits(n, action) => EffectsOf(k) = {action}
    BY <1>4, <2>4 DEF Suits
  <2>6. Suits(k, action) <=> EffectsOf(k) = {action}
    BY <2>1, <2>2 DEF Suits
  <2> QED BY <2>1, <2>2, <2>5, <2>6 DEF KidChecked, Sorts
<1>5. n.kind \in {"SELECT", "SET", "INSERT", "UPDATE", "DELETE", "MERGE_INTO", "EXPLAIN",
                  "COPY", "CREATE", "DROP", "ALTER", "PRAGMA", "ATTACH", "DETACH"}
  BY DEF StatementParts
<1> QED BY <1>1, <1>2, <1>3, <1>4, <1>5

\* Nodes below one whose walk found nothing wrong.
LEMMA KidsChecked ==
  ASSUME NEW n, ParsedNode(n), n.sort \in Sorts, n.kind # "UNKNOWN",
         n.sort = "statement" => ~ClassifyStatement(n).unsafe,
         NEW ctes, NEW action, ~WalkPart(n, ctes, action).unsafe,
         NEW m \in DOMAIN n.kids, NEW i \in DOMAIN n.kids[m], n.kids[m][i] # Null
  PROVE  KidChecked(n, n.kids[m][i], action)
<1> DEFINE k == n.kids[m][i]
<1>1. PICK p \in Parts(n) : m = p[1] /\ k.sort = p[2]
  <2>1. \E p \in Parts(n) : m = p[1] /\ \A j \in DOMAIN n.kids[m] : n.kids[m][j] # Null => n.kids[m][j].sort = p[2]
    BY DEF ParsedNode
  <2> QED BY <2>1
<1>2. CASE p[2] \in OrdinarySorts
  BY <1>1, <1>2, OrdinaryKid
<1>3. CASE n.sort \in {"query", "body"} /\ n.kind = "MERGE" /\ p[1] = "actions" /\ p[2] = "merge_action"
  <2>1. Suits(n, action) => HiddenFits(n, action)
    <3>1. CASE n.sort = "query"
      <4>1. WalkPart(n, ctes, action) = WalkQueryNode(n, ctes, action)
        BY <3>1 DEF WalkPart
      <4> QED BY <1>3, <4>1, HiddenChecked DEF DmlKinds
    <3>2. CASE n.sort = "body"
      BY <3>2 DEF Suits
    <3> QED BY <1>3, <3>1, <3>2
  <2>2. Suits(n, action) => k.kind = "MERGE_UPDATE" /\ action = "Update"
    BY <1>1, <1>3, <2>1, MergeKid
  <2>3. k.sort = "merge_action"
    BY <1>1, <1>3
  <2> QED BY <2>2, <2>3 DEF KidChecked, Suits, Sorts
<1>4. CASE n.sort = "query" /\ n.kind = "COPY" /\ p[1] = "info" /\ p[2] = "copy"
  <2>1. WalkPart(n, ctes, action) = WalkQueryNode(n, ctes, action)
    BY <1>4 DEF WalkPart
  <2>2. HiddenFits(n, action)
    BY <1>4, <2>1, HiddenChecked
  <2>3. action = "CopyTo"
    BY <1>4, <2>2 DEF HiddenFits
  <2>4. "is_from" \notin k.opts
    <3>1. At(n, "info") = n.kids[m]
      BY <1>1, <1>4 DEF At
    <3> QED BY <1>4, <3>1 DEF ParsedNode
  <2>5. k.sort = "copy"
    BY <1>1, <1>4
  <2> QED BY <2>3, <2>4, <2>5 DEF KidChecked, Suits, Sorts, EffectsOf
<1>5. CASE n.sort = "create" /\ n.kind = "TYPE_ENTRY" /\ p[1] = "query" /\ p[2] = "statement"
  <2>1. k.kind = "SELECT" /\ k.sort = "statement"
    <3>1. At(n, "query") = n.kids[m]
      BY <1>1, <1>5 DEF At
    <3> QED BY <1>1, <1>5, <3>1 DEF ParsedNode
  <2>2. ~ClassifyStatement(k).unsafe
    BY <2>1 DEF ClassifyStatement
  <2> QED BY <2>1, <2>2 DEF KidChecked, Suits, Sorts
<1>6. CASE n.sort = "statement" /\ p \in StatementParts(n.kind)
  <2>1. k = n.kids[m][1]
    BY <1>1, <1>6, StatementKid
  <2>2. WalkPart(n, ctes, action) = WalkStatement(n, ctes)
    BY <1>6 DEF WalkPart
  <2> QED BY <1>1, <1>6, <2>1, <2>2, StatementChecked
<1> QED BY <1>2, <1>3, <1>4, <1>5, <1>6, PartSorts

(***************************************************************************)
(* The walk down the trails of a statement.                                 *)
(***************************************************************************)
\* The aliases in scope at the end of a trail.
Scope(t) == UNION {Added(t.up[i].node, t.up[i].member, t.up[i].index) : i \in DOMAIN t.up}
IsTrail(t, d) == Len(t.up) = d /\ \E S : t.up \in Seq(S)

\* The trail to the statement itself: no step and no alias in scope.
LEMMA RootTrail ==
  ASSUME NEW s, NEW t, t = [up |-> <<>>, end |-> s]
  PROVE  t.end = s /\ IsTrail(t, 0) /\ Scope(t) = {}
<1>1. t.up = <<>> /\ t.end = s
  OBVIOUS
<1>2. <<>> \in Seq({}) /\ Len(<<>>) = 0 /\ DOMAIN <<>> = {}
  OBVIOUS
<1> QED BY <1>1, <1>2, Zenon DEF IsTrail, Scope

\* One more step.
Further(t, m, i) == [up |-> Append(t.up, Step(t.end, m, i)), end |-> t.end.kids[m][i]]

\* A trail with one step more: one deeper, with the aliases added that the step
\* goes into the scope of, explained if it was or if EXPLAIN is what it leaves.
LEMMA TrailStep ==
  ASSUME NEW t, NEW d \in Nat, IsTrail(t, d), NEW m, NEW i, NEW u, u = Further(t, m, i)
  PROVE  /\ u.end = t.end.kids[m][i] /\ IsTrail(u, d + 1)
         /\ Scope(u) = Scope(t) \cup Added(t.end, m, i)
         /\ IsExplained(u) <=> IsExplained(t) \/ (t.end.kind = "EXPLAIN" /\ "ANALYZE" \notin t.end.opts)
<1> DEFINE e == Step(t.end, m, i)
           a == t.up
           b == Append(a, e)
<1>1. u.up = b /\ u.end = t.end.kids[m][i]
  BY DEF Further
<1>2. PICK S : a \in Seq(S)
  BY DEF IsTrail
<1> DEFINE R == S \cup {e}
<1>3. e.node = t.end /\ e.member = m /\ e.index = i
  BY DEF Step
<1> HIDE DEF e
<1>4. a \in Seq(R) /\ e \in R
  BY <1>2, SeqSubset
<1> HIDE DEF R
<1>5. b \in Seq(R) /\ Len(b) = Len(a) + 1 /\ (\A j \in 1..Len(a) : b[j] = a[j]) /\ b[Len(a) + 1] = e
  BY <1>4, AppendProperties
<1>6. Len(a) = d
  BY DEF IsTrail
<1>7. DOMAIN a = 1..d /\ DOMAIN b = 1..(d + 1)
  BY <1>4, <1>5, <1>6, LenProperties
<1> HIDE DEF a, b
<1>8. \A j \in 1..(d + 1) : j \in 1..d \/ j = d + 1
  OBVIOUS
<1>9. (\A j \in 1..d : j \in 1..(d + 1)) /\ d + 1 \in 1..(d + 1)
  OBVIOUS
<1> DEFINE A(x) == Added(x.node, x.member, x.index)
           E(x) == x.node.kind = "EXPLAIN" /\ "ANALYZE" \notin x.node.opts
<1>10. Scope(u) = Scope(t) \cup Added(t.end, m, i)
  <2>1. Scope(u) = UNION {A(b[j]) : j \in DOMAIN b} /\ Scope(t) = UNION {A(a[j]) : j \in DOMAIN a}
    BY <1>1, Zenon DEF Scope, a
  <2>2. A(e) = Added(t.end, m, i)
    BY <1>3, Zenon
  <2> DEFINE U == UNION {A(b[j]) : j \in DOMAIN b}
             T == UNION {A(a[j]) : j \in DOMAIN a}
  <2>3. ASSUME NEW x PROVE x \in U <=> x \in T \cup A(e)
    <3> HIDE DEF A
    <3>1. (x \in U <=> \E j \in 1..(d + 1) : x \in A(b[j])) /\ (x \in T <=> \E j \in 1..d : x \in A(a[j]))
      BY <1>7
    <3> HIDE DEF U, T
    <3>2. (\E j \in 1..(d + 1) : x \in A(b[j])) <=> (\E j \in 1..d : x \in A(b[j])) \/ x \in A(b[d + 1])
      BY <1>8, <1>9, Zenon
    <3>3. b[d + 1] = e /\ \A j \in 1..d : b[j] = a[j]
      BY <1>5, <1>6
    <3> QED BY <3>1, <3>2, <3>3
  <2> HIDE DEF A, U, T
  <2>4. U = T \cup A(e)
    BY <2>3
  <2> QED BY <2>1, <2>2, <2>4 DEF U, T
<1>11. IsExplained(u) <=> IsExplained(t) \/ (t.end.kind = "EXPLAIN" /\ "ANALYZE" \notin t.end.opts)
  <2>1. (IsExplained(u) <=> \E j \in DOMAIN b : E(b[j])) /\ (IsExplained(t) <=> \E j \in DOMAIN a : E(a[j]))
    BY <1>1, Zenon DEF IsExplained, a
  <2>2. E(e) <=> t.end.kind = "EXPLAIN" /\ "ANALYZE" \notin t.end.opts
    BY <1>3, Zenon
  <2> HIDE DEF E
  <2>3. (\E j \in 1..(d + 1) : E(b[j])) <=> (\E j \in 1..d : E(a[j])) \/ E(e)
    BY <1>5, <1>6, <1>8, <1>9
  <2> QED BY <1>7, <2>1, <2>2, <2>3, Zenon
<1>12. IsTrail(u, d + 1)
  BY <1>1, <1>5, <1>6 DEF IsTrail
<1> QED BY <1>1, <1>10, <1>11, <1>12

\* The trails one step longer are those to each child that is there.
LEMMA LongerMember ==
  ASSUME NEW t, NEW u
  PROVE  u \in Longer(t) <=>
           \E m \in DOMAIN t.end.kids : \E i \in DOMAIN t.end.kids[m] :
             t.end.kids[m][i] # Null /\ u = Further(t, m, i)
<1> DEFINE T(m) == {Further(t, m, i) : i \in {j \in DOMAIN t.end.kids[m] : t.end.kids[m][j] # Null}}
<1>1. Longer(t) = UNION {T(m) : m \in DOMAIN t.end.kids}
  BY Zenon DEF Longer, Further
<1>2. \A m : u \in T(m) <=> \E i \in DOMAIN t.end.kids[m] : t.end.kids[m][i] # Null /\ u = Further(t, m, i)
  BY Zenon
<1> HIDE DEF T
<1>3. u \in Longer(t) <=> \E m \in DOMAIN t.end.kids : u \in T(m)
  BY <1>1
<1> QED BY <1>2, <1>3, Zenon

\* The calls on the nodes below are those at the ends of the longer trails.
LEMMA CallsBelow ==
  ASSUME NEW t, NEW d \in Nat, IsTrail(t, d)
  PROVE  Below(t.end, Scope(t)) = {Visit(u.end, Scope(u)) : u \in Longer(t)}
<1> DEFINE n == t.end
           B(m) == BelowUnder(n, m, Scope(t))
           C(m, i) == Visit(n.kids[m][i], Scope(t) \cup Added(n, m, i))
           T(m, i) == Further(t, m, i)
           F(u) == Visit(u.end, Scope(u))
           is(m, i) == n.kids[m][i] # Null
<1>1. ASSUME NEW m, NEW i PROVE F(T(m, i)) = C(m, i)
  <2> DEFINE u == T(m, i)
  <2>1. u = Further(t, m, i)
    OBVIOUS
  <2> HIDE DEF u
  <2>2. u.end = n.kids[m][i] /\ Scope(u) = Scope(t) \cup Added(n, m, i)
    BY <2>1, TrailStep
  <2>3. F(u) = C(m, i)
    BY <2>2
  <2> QED BY <2>3 DEF u
<1>2. ASSUME NEW v PROVE v \in Below(n, Scope(t)) <=>
        \E m \in DOMAIN n.kids : \E i \in DOMAIN n.kids[m] : is(m, i) /\ v = C(m, i)
  <2>1. \A m : v \in B(m) <=> \E i \in DOMAIN n.kids[m] : is(m, i) /\ v = C(m, i)
    BY Zenon DEF BelowUnder
  <2>2. Below(n, Scope(t)) = UNION {B(m) : m \in DOMAIN n.kids}
    BY Zenon DEF Below
  <2> HIDE DEF B, n, C, is
  <2>3. v \in Below(n, Scope(t)) <=> \E m \in DOMAIN n.kids : v \in B(m)
    BY <2>2
  <2> QED BY <2>1, <2>3, Zenon
<1>3. ASSUME NEW v PROVE v \in {F(u) : u \in Longer(t)} <=>
        \E m \in DOMAIN n.kids : \E i \in DOMAIN n.kids[m] : is(m, i) /\ v = F(T(m, i))
  <2>1. \A u : u \in Longer(t) <=> \E m \in DOMAIN n.kids : \E i \in DOMAIN n.kids[m] : is(m, i) /\ u = T(m, i)
    BY LongerMember, Zenon
  <2> HIDE DEF T, n, F, is
  <2>2. v \in {F(u) : u \in Longer(t)} <=> \E u \in Longer(t) : v = F(u)
    BY Zenon
  <2>3. ASSUME NEW u \in Longer(t), v = F(u)
        PROVE  \E m \in DOMAIN n.kids : \E i \in DOMAIN n.kids[m] : is(m, i) /\ v = F(T(m, i))
    BY <2>1, <2>3
  <2>4. ASSUME NEW m \in DOMAIN n.kids, NEW i \in DOMAIN n.kids[m], is(m, i), v = F(T(m, i))
        PROVE  \E u \in Longer(t) : v = F(u)
    BY <2>1, <2>4
  <2> QED BY <2>2, <2>3, <2>4
<1> HIDE DEF T, n, F, C, is
<1>4. ASSUME NEW v PROVE v \in Below(n, Scope(t)) <=> v \in {F(u) : u \in Longer(t)}
  <2>1. \A m, i : v = F(T(m, i)) <=> v = C(m, i)
    BY <1>1
  <2>2. v \in {F(u) : u \in Longer(t)} <=> \E m \in DOMAIN n.kids : \E i \in DOMAIN n.kids[m] : is(m, i) /\ v = F(T(m, i))
    BY <1>3, Zenon
  <2>3. v \in Below(n, Scope(t)) <=> \E m \in DOMAIN n.kids : \E i \in DOMAIN n.kids[m] : is(m, i) /\ v = C(m, i)
    BY <1>2, Zenon
  <2> QED BY <2>1, <2>2, <2>3, Zenon
<1>5. Below(n, Scope(t)) = {F(u) : u \in Longer(t)}
  BY <1>4
<1> QED BY <1>5 DEF n, F

\* An alias is in scope for the walk where the reference finds a definition.
LEMMA StepBinds ==
  ASSUME NEW e, NEW name \in Names, name # NoName
  PROVE  Binds(e, name) <=> LowerAscii(name) \in Added(e.node, e.member, e.index)
<1> DEFINE n == e.node
           m == e.member
           x == LowerAscii(name)
           q == At(n, "cte_map")
           has == "cte_map" \in DOMAIN n.kids
           own == n.sort = "query" /\ <<n.kind, m>> \in {<<"CTE_NODE", "child">>, <<"RECURSIVE_CTE_NODE", "right">>}
           outer == n.sort \in {"query", "body"}
<1>1. LowerAscii(NoName) = NoName /\ x # NoName
  <2>1. NoName \in Names
    BY DEF NoName, Names
  <2> QED BY <2>1, Lowered DEF NoName
<1>2. Binds(e, name) <=>
        \/ outer /\ has /\ \E i \in DOMAIN n.kids.cte_map : LowerAscii(n.kids.cte_map[i].name) = x /\ (m = "cte_map" => i < e.index)
        \/ own /\ LowerAscii(n.name) = x
  BY Zenon DEF Binds
<1>3. /\ has => q = n.kids.cte_map
      /\ ~has => DOMAIN q = {}
  BY DEF At
<1> DEFINE First == IF outer THEN {LowerAscii(q[j].name) : j \in {k \in DOMAIN q : m = "cte_map" => k < e.index}} ELSE {}
           Second == IF own /\ n.name # NoName THEN {LowerAscii(n.name)} ELSE {}
<1>4. Added(e.node, e.member, e.index) = First \cup Second
  BY Zenon DEF Added
<1>5. x \in First <=> outer /\ \E i \in DOMAIN q : LowerAscii(q[i].name) = x /\ (m = "cte_map" => i < e.index)
  <2> HIDE DEF q, m, x, outer
  <2> QED BY Zenon
<1>6. x \in Second <=> own /\ LowerAscii(n.name) = x
  <2> HIDE DEF own, x, n
  <2> QED BY <1>1
<1> HIDE DEF First, Second
<1>7. x \in First \cup Second <=> x \in First \/ x \in Second
  OBVIOUS
<1> HIDE DEF x, own, outer, q
<1>8. (outer /\ has /\ \E i \in DOMAIN n.kids.cte_map : LowerAscii(n.kids.cte_map[i].name) = x /\ (m = "cte_map" => i < e.index))
      <=> (outer /\ \E i \in DOMAIN q : LowerAscii(q[i].name) = x /\ (m = "cte_map" => i < e.index))
  <2>1. CASE has
    BY <1>3, <2>1, Zenon
  <2>2. CASE ~has
    <3>1. DOMAIN q = {}
      BY <1>3, <2>2
    <3> QED BY <2>2, <3>1
  <2> QED BY <2>1, <2>2
<1> HIDE DEF has, n, m
<1>9. Binds(e, name) <=> x \in First \cup Second
  BY <1>2, <1>5, <1>6, <1>7, <1>8, Zenon
<1> QED BY <1>4, <1>9, Zenon DEF x

\* The walk and the reference find the same objects at the end of a trail.
LEMMA SameObjects ==
  ASSUME NEW t, ParsedNode(t.end)
  PROVE  ObjectsOf(t.end, IsCte(t.end.name, Scope(t))) = ObjectsAt(t)
<1>1. ObjectsAt(t) = ObjectsOf(t.end, IsBound(t))
  BY Zenon DEF ObjectsAt, ObjectsOf, NamesTable
<1>2. CASE NamesTable(t)
  <2> DEFINE target == t.end.name
             o == PolicyName(target)
  <2>1. t.end.sort = "ref" /\ target \in Targets
    BY <1>2 DEF NamesTable, ParsedNode, HasTarget
  <2>2. \A b \in BOOLEAN : ObjectsOf(t.end, b) = IF b THEN {} ELSE o
    BY <1>2, Zenon DEF NamesTable, ObjectsOf
  <2>3. target[3] \in Names
    BY <2>1, StringNames DEF Targets
  <2>4. CASE target[3] = NoName
    <3>1. o = {}
      BY <2>4 DEF PolicyName
    <3>2. \A b \in BOOLEAN : ObjectsOf(t.end, b) = {}
      BY <2>2, <3>1
    <3>3. IsCte(target, Scope(t)) \in BOOLEAN /\ IsBound(t) \in BOOLEAN
      BY DEF IsCte, IsBound
    <3> QED BY <1>1, <3>2, <3>3
  <2>5. CASE target[3] # NoName
    <3>1. \A i \in DOMAIN t.up : Binds(t.up[i], target[3]) <=>
            LowerAscii(target[3]) \in Added(t.up[i].node, t.up[i].member, t.up[i].index)
      BY <2>3, <2>5, StepBinds
    <3>2. (\E i \in DOMAIN t.up : Binds(t.up[i], target[3])) <=> LowerAscii(target[3]) \in Scope(t)
      <4> DEFINE x == LowerAscii(target[3])
                 S(i) == Added(t.up[i].node, t.up[i].member, t.up[i].index)
      <4>1. Scope(t) = UNION {S(i) : i \in DOMAIN t.up}
        BY Zenon DEF Scope
      <4>2. \A i \in DOMAIN t.up : Binds(t.up[i], target[3]) <=> x \in S(i)
        BY <3>1
      <4> HIDE DEF x, S, target
      <4>3. x \in Scope(t) <=> \E i \in DOMAIN t.up : x \in S(i)
        BY <4>1
      <4>4. (\E i \in DOMAIN t.up : Binds(t.up[i], target[3])) <=> x \in Scope(t)
        BY <4>2, <4>3, Zenon
      <4> QED BY <4>4 DEF x
    <3>3. IsCte(target, Scope(t)) = IsBound(t)
      BY <3>2, Zenon DEF IsCte, IsBound
    <3> QED BY <1>1, <3>3
  <2> QED BY <2>4, <2>5
<1>3. CASE ~NamesTable(t)
  <2>1. \A b, c : ObjectsOf(t.end, b) = ObjectsOf(t.end, c)
    BY <1>3, Zenon DEF NamesTable, ObjectsOf
  <2> QED BY <1>1, <2>1, Zenon
<1> QED BY <1>2, <1>3

(***************************************************************************)
(* The invariant of the rounds.                                             *)
(***************************************************************************)
\* A node that is about to be walked, and one that has been.
Vetted(t, action) ==
  /\ t.end.sort \in Sorts /\ (t.end.sort = "statement" => ~ClassifyStatement(t.end).unsafe)
  /\ IsExplained(t) \/ Suits(t.end, action)
Passed(t, action) ==
  /\ ~Opaque(t.end) /\ EffectsAt(t) \subseteq {action}
  /\ ObjectsAt(t) \subseteq Names /\ ColumnsAt(t) \subseteq Names

\* The walk of the node at the end of a trail.
PartAt(t, action) == WalkPart(t.end, Scope(t), action)

\* After d rounds that found nothing wrong, the calls to be made are those on
\* the nodes at depth d, and all nodes above have been read.
Kept(walk, tree, action) ==
  /\ walk.todo = {Visit(t.end, Scope(t)) : t \in tree.last}
  /\ \A t \in tree.last : Vetted(t, action)
  /\ walk.objects = UNION {ObjectsAt(t) : t \in tree.seen}
  /\ walk.columns = UNION {ColumnsAt(t) : t \in tree.seen}
  /\ \A t \in tree.seen : Passed(t, action)
Fields == {"objects", "columns", "unsafe", "todo"}
LevelInv(walk, tree, d, action) ==
  /\ DOMAIN walk = Fields
  /\ \A t \in tree.last : IsTrail(t, d)
  /\ ~walk.unsafe => Kept(walk, tree, action)

\* What the next round finds.
LEMMA RoundFound ==
  ASSUME NEW last, DOMAIN last = Fields, NEW action
  PROVE  LET parts == {WalkPart(v.node, v.ctes, action) : v \in last.todo} IN
         /\ DOMAIN NextRound(last, action) = Fields
         /\ NextRound(last, action).objects = last.objects \cup UNION {f.objects : f \in parts}
         /\ NextRound(last, action).columns = last.columns \cup UNION {f.columns : f \in parts}
         /\ NextRound(last, action).todo = UNION {f.todo : f \in parts}
         /\ ~NextRound(last, action).unsafe => ~last.unsafe /\ \A f \in parts : ~f.unsafe
<1> DEFINE parts == {WalkPart(v.node, v.ctes, action) : v \in last.todo}
           f == [last EXCEPT !.todo = {}]
           g == All(parts)
<1>1. NextRound(last, action) = Both(f, g)
  BY Zenon DEF NextRound
<1>2. f.objects = last.objects /\ f.columns = last.columns /\ f.todo = {} /\ f.unsafe = last.unsafe
  BY DEF Fields
<1>3. /\ g.objects = UNION {h.objects : h \in parts} /\ g.columns = UNION {h.columns : h \in parts}
      /\ g.todo = UNION {h.todo : h \in parts}
  <2> HIDE DEF parts
  <2> QED BY AllFound
<1>4. ~g.unsafe => \A h \in parts : ~h.unsafe
  <2> HIDE DEF parts
  <2> QED BY AllUnsafe
<1> HIDE DEF f, g, parts
<1>5. DOMAIN Both(f, g) = Fields
  BY DEF Both, Fields
<1>6. /\ Both(f, g).objects = f.objects \cup g.objects /\ Both(f, g).columns = f.columns \cup g.columns
      /\ Both(f, g).todo = f.todo \cup g.todo
  BY BothFound, Zenon
<1>7. ~Both(f, g).unsafe => ~f.unsafe /\ ~g.unsafe
  BY BothUnsafe
<1>8. /\ DOMAIN NextRound(last, action) = Fields
      /\ NextRound(last, action).objects = last.objects \cup UNION {h.objects : h \in parts}
      /\ NextRound(last, action).columns = last.columns \cup UNION {h.columns : h \in parts}
      /\ NextRound(last, action).todo = UNION {h.todo : h \in parts}
      /\ ~NextRound(last, action).unsafe => ~last.unsafe /\ \A h \in parts : ~h.unsafe
  BY <1>1, <1>2, <1>3, <1>4, <1>5, <1>6, <1>7
<1> QED BY <1>8, Zenon DEF parts

\* What is found at a node are names that a policy can match.
LEMMA NodeNames ==
  ASSUME NEW n, ParsedNode(n), KidsParsed(n), NEW bound \in BOOLEAN, NEW ctes,
         n.sort = "ref" => ~WalkTableRef(n, ctes).unsafe
  PROVE  ObjectsOf(n, bound) \subseteq Names /\ ColumnsOf(n) \subseteq Names
<1> DEFINE I == n.sort \in {"query", "body"} /\ n.kind = "INSERT"
           Q == n.sort = "ref" \/ n.sort \in {"create", "drop", "alter", "copy"} \/ I
           T == n.sort = "ref" /\ n.kind = "TABLE_FUNCTION"
           S == n.sort = "create" /\ n.kind = "SCHEMA_ENTRY"
           D == n.sort = "detach"
<1>1. "fn:" \in Pieces /\ "schema:" \in Pieces /\ "catalog:" \in Pieces /\ "*" \in Pieces
  BY DEF Pieces
<1>2. \A x \in Pieces : <<x>> \in Names /\ \A name \in Names : <<x>> \o LowerAscii(name) \in Names
  <2> TAKE x \in Pieces
  <2> DEFINE a == <<x>>
  <2>1. a \in Names
    BY OnePiece DEF Names
  <2> HIDE DEF a
  <2>2. ASSUME NEW name \in Names PROVE a \o LowerAscii(name) \in Names
    <3> DEFINE b == LowerAscii(name)
    <3>1. b \in Names
      BY Lowered
    <3> HIDE DEF b
    <3>2. a \o b \in Names
      BY <2>1, <3>1, ConcatProperties DEF Names
    <3> QED BY <3>2 DEF b
  <2> QED BY <2>1, <2>2 DEF a
<1>3. Q => n.name \in Targets
  BY DEF ParsedNode, HasTarget
<1>4. ~Q => n.name \in Names
  <2>1. ~Q => n.name \in Seq(STRING)
    BY DEF ParsedNode, HasTarget
  <2> QED BY <2>1, StringNames
<1>5. Q => PolicyName(n.name) \subseteq Names /\ n.name[2] \in Names
  <2>1. ASSUME n.name \in Targets PROVE n.name[2] \in Names
    BY <2>1, StringNames DEF Targets
  <2> QED BY <1>3, <2>1, PolicyNames
<1>6. ASSUME T PROVE \A i \in DOMAIN n.kids.function : <<"fn:">> \o LowerAscii(n.kids.function[i].name) \in Names
  <2>1. DOMAIN n.kids.function = {1} /\ n.kids.function[1].name \in Names
    BY <1>6, CallRead
  <2> QED BY <1>1, <1>2, <2>1
<1>7. S => <<"schema:">> \o LowerAscii(n.name[2]) \in Names
  BY <1>1, <1>2, <1>5
<1>8. D => <<"catalog:">> \o LowerAscii(n.name) \in Names
  BY <1>1, <1>2, <1>4
<1>9. ObjectsOf(n, bound) \subseteq Names
  <2> DEFINE F == {<<"fn:">> \o LowerAscii(n.kids.function[i].name) : i \in DOMAIN n.kids.function}
             p == <<"schema:">> \o LowerAscii(n.name[2])
             c == <<"catalog:">> \o LowerAscii(n.name)
             o == ObjectsOf(n, bound)
  <2>1. \/ o = {} \/ (Q /\ o = PolicyName(n.name)) \/ (T /\ o \subseteq F) \/ (S /\ o = {p}) \/ (D /\ o = {c})
    BY DEF ObjectsOf
  <2>2. T => F \subseteq Names
    BY <1>6
  <2> HIDE DEF F, p, c, o, Q, T, S, D
  <2>3. (S => p \in Names) /\ (D => c \in Names)
    BY <1>7, <1>8 DEF p, c
  <2>4. o \subseteq Names
    BY <1>5, <2>1, <2>2, <2>3
  <2> QED BY <2>4 DEF o
<1>10. ColumnsOf(n) \subseteq Names
  <2> DEFINE a == LowerAscii(n.name)
             b == <<"*">>
             o == ColumnsOf(n)
  <2>1. o = {} \/ (n.sort = "expression" /\ o = {a}) \/ o = {b}
    BY DEF ColumnsOf
  <2>2. n.sort = "expression" => a \in Names
    BY <1>4, Lowered
  <2>3. b \in Names
    BY <1>1, <1>2
  <2> HIDE DEF a, b, o
  <2>4. o \subseteq Names
    BY <2>1, <2>2, <2>3
  <2> QED BY <2>4 DEF o
<1> QED BY <1>9, <1>10

\* A node that is walked without objection passes, and vets those below.
LEMMA TrailRead ==
  ASSUME NEW t, NEW d \in Nat, IsTrail(t, d), NEW action, Vetted(t, action), ParsedNode(t.end), KidsParsed(t.end),
         ~PartAt(t, action).unsafe
  PROVE  /\ PartAt(t, action).todo = {Visit(u.end, Scope(u)) : u \in Longer(t)}
         /\ PartAt(t, action).objects = ObjectsAt(t) /\ PartAt(t, action).columns = ColumnsAt(t)
         /\ Passed(t, action)
         /\ \A u \in Longer(t) : IsTrail(u, d + 1) /\ Vetted(u, action)
<1> DEFINE n == t.end
           f == PartAt(t, action)
<1>1. n.sort \in Sorts /\ (n.sort = "statement" => ~ClassifyStatement(n).unsafe)
  BY DEF Vetted
<1>2. ReadsInScope(n, Scope(t), f)
  BY <1>1, PartRead DEF PartAt
<1>3. f.todo = {Visit(u.end, Scope(u)) : u \in Longer(t)}
  <2>1. f.todo = Below(n, Scope(t))
    BY <1>2 DEF ReadsInScope
  <2> QED BY <2>1, CallsBelow
<1>4. f.objects = ObjectsAt(t)
  <2>1. f.objects = ObjectsOf(n, IsCte(n.name, Scope(t)))
    BY <1>2 DEF ReadsInScope
  <2> QED BY <2>1, SameObjects
<1>5. f.columns = ColumnsAt(t)
  <2>1. f.columns = ColumnsOf(n)
    BY <1>2 DEF ReadsInScope
  <2> QED BY <2>1, Zenon DEF ColumnsOf, ColumnsAt
<1>6. ~Opaque(n)
  BY <1>2 DEF ReadsInScope
<1>7. EffectsAt(t) \subseteq {action}
  <2>1. EffectsAt(t) = IF IsExplained(t) THEN {} ELSE EffectsOf(n)
    BY EffectsAre
  <2>2. CASE IsExplained(t)
    BY <2>1, <2>2
  <2>3. CASE ~IsExplained(t)
    <3>1. Suits(n, action)
      BY <2>3 DEF Vetted
    <3>2. EffectsOf(n) \subseteq {action}
      BY <1>1, <3>1, NodeDoes DEF PartAt
    <3> QED BY <2>1, <2>3, <3>2
  <2> QED BY <2>2, <2>3
<1>8. ASSUME NEW u \in Longer(t) PROVE IsTrail(u, d + 1) /\ Vetted(u, action)
  <2>1. PICK m \in DOMAIN n.kids : \E i \in DOMAIN n.kids[m] : n.kids[m][i] # Null /\ u = Further(t, m, i)
    BY LongerMember
  <2>2. PICK i \in DOMAIN n.kids[m] : n.kids[m][i] # Null /\ u = Further(t, m, i)
    BY <2>1
  <2>3. /\ u.end = n.kids[m][i] /\ IsTrail(u, d + 1)
        /\ IsExplained(u) <=> IsExplained(t) \/ (n.kind = "EXPLAIN" /\ "ANALYZE" \notin n.opts)
    BY <2>2, TrailStep
  <2>4. n.kind # "UNKNOWN"
    BY <1>6 DEF Opaque
  <2>5. KidChecked(n, u.end, action)
    BY <1>1, <2>2, <2>3, <2>4, KidsChecked DEF PartAt
  <2>6. Vetted(u, action)
    BY <2>3, <2>5 DEF KidChecked, Vetted
  <2> QED BY <2>3, <2>6
<1>9. ObjectsAt(t) \subseteq Names /\ ColumnsAt(t) \subseteq Names
  <2> DEFINE bound == IsCte(n.name, Scope(t))
  <2>1. f.objects = ObjectsOf(n, bound) /\ f.columns = ColumnsOf(n)
    BY <1>2 DEF ReadsInScope
  <2>2. bound \in BOOLEAN
    BY DEF IsCte
  <2>3. n.sort = "ref" => ~WalkTableRef(n, Scope(t)).unsafe
    BY DEF PartAt, WalkPart
  <2> HIDE DEF bound
  <2>4. ObjectsOf(n, bound) \subseteq Names /\ ColumnsOf(n) \subseteq Names
    BY <2>2, <2>3, NodeNames
  <2> QED BY <1>4, <1>5, <2>1, <2>4
<1> QED BY <1>3, <1>4, <1>5, <1>6, <1>7, <1>8, <1>9 DEF Passed

\* One round, from one level to the next.
LEMMA RoundKeeps ==
  ASSUME NEW walk, NEW tree, NEW d \in Nat, NEW action, LevelInv(walk, tree, d, action),
         \A t \in tree.last : ParsedNode(t.end) /\ KidsParsed(t.end)
  PROVE  LevelInv(NextRound(walk, action), NextLevel(tree), d + 1, action)
<1> DEFINE w == NextRound(walk, action)
           l == NextLevel(tree)
           P == {PartAt(t, action) : t \in tree.last}
           D == Fields
<1>1. l.seen = tree.seen \cup tree.last /\ l.last = UNION {Longer(t) : t \in tree.last}
  BY DEF NextLevel
<1>2. DOMAIN walk = D
  BY DEF LevelInv
<1>3. DOMAIN w = D
  <2> HIDE DEF w, D
  <2>1. LET parts == {WalkPart(v.node, v.ctes, action) : v \in walk.todo} IN DOMAIN NextRound(walk, action) = Fields
    BY <1>2, RoundFound DEF D
  <2> QED BY <2>1 DEF w, D
<1>4. ASSUME NEW u \in l.last PROVE IsTrail(u, d + 1)
  <2>1. PICK t \in tree.last : u \in Longer(t)
    BY <1>1, <1>4
  <2>2. IsTrail(t, d)
    BY <2>1 DEF LevelInv
  <2>3. PICK m, i : t.end.kids[m][i] # Null /\ u = Further(t, m, i)
    BY <2>1, LongerMember
  <2> QED BY <2>2, <2>3, TrailStep
<1>5. ASSUME ~w.unsafe PROVE Kept(w, l, action)
  <2> DEFINE parts == {WalkPart(v.node, v.ctes, action) : v \in walk.todo}
  <2>1. /\ w.objects = walk.objects \cup UNION {f.objects : f \in parts}
        /\ w.columns = walk.columns \cup UNION {f.columns : f \in parts}
        /\ w.todo = UNION {f.todo : f \in parts}
        /\ ~walk.unsafe /\ \A f \in parts : ~f.unsafe
    BY <1>2, <1>5, RoundFound
  <2>2. Kept(walk, tree, action)
    BY <2>1 DEF LevelInv
  <2>3. parts = P
    <3> DEFINE V == {Visit(t.end, Scope(t)) : t \in tree.last}
    <3>1. walk.todo = V
      BY <2>2 DEF Kept
    <3>2. \A t : WalkPart(Visit(t.end, Scope(t)).node, Visit(t.end, Scope(t)).ctes, action) = PartAt(t, action)
      BY DEF Visit, PartAt
    <3>3. {WalkPart(v.node, v.ctes, action) : v \in V} =
          {WalkPart(Visit(t.end, Scope(t)).node, Visit(t.end, Scope(t)).ctes, action) : t \in tree.last}
      OBVIOUS
    <3>4. {WalkPart(Visit(t.end, Scope(t)).node, Visit(t.end, Scope(t)).ctes, action) : t \in tree.last} = P
      BY <3>2
    <3> QED BY <3>1, <3>3, <3>4
  <2> HIDE DEF w, l, parts
  <2>4. ASSUME NEW t \in tree.last
        PROVE  /\ PartAt(t, action).todo = {Visit(u.end, Scope(u)) : u \in Longer(t)}
               /\ PartAt(t, action).objects = ObjectsAt(t) /\ PartAt(t, action).columns = ColumnsAt(t)
               /\ Passed(t, action) /\ \A u \in Longer(t) : Vetted(u, action)
    <3>1. IsTrail(t, d) /\ Vetted(t, action)
      BY <2>2 DEF LevelInv, Kept
    <3>2. PartAt(t, action) \in P
      OBVIOUS
    <3>3. ~PartAt(t, action).unsafe
      BY <2>1, <2>3, <3>2
    <3> QED BY <3>1, <3>3, TrailRead
  <2>5. w.objects = UNION {ObjectsAt(t) : t \in l.seen}
    <3>1. UNION {f.objects : f \in P} = UNION {ObjectsAt(t) : t \in tree.last}
      BY <2>4
    <3>2. walk.objects = UNION {ObjectsAt(t) : t \in tree.seen}
      BY <2>2 DEF Kept
    <3>3. UNION {ObjectsAt(t) : t \in tree.seen \cup tree.last} =
          (UNION {ObjectsAt(t) : t \in tree.seen}) \cup UNION {ObjectsAt(t) : t \in tree.last}
      OBVIOUS
    <3> QED BY <1>1, <2>1, <2>3, <3>1, <3>2, <3>3
  <2>6. w.columns = UNION {ColumnsAt(t) : t \in l.seen}
    <3>1. UNION {f.columns : f \in P} = UNION {ColumnsAt(t) : t \in tree.last}
      BY <2>4
    <3>2. walk.columns = UNION {ColumnsAt(t) : t \in tree.seen}
      BY <2>2 DEF Kept
    <3>3. UNION {ColumnsAt(t) : t \in tree.seen \cup tree.last} =
          (UNION {ColumnsAt(t) : t \in tree.seen}) \cup UNION {ColumnsAt(t) : t \in tree.last}
      OBVIOUS
    <3> QED BY <1>1, <2>1, <2>3, <3>1, <3>2, <3>3
  <2>7. w.todo = {Visit(u.end, Scope(u)) : u \in l.last}
    <3> DEFINE V(t) == {Visit(u.end, Scope(u)) : u \in Longer(t)}
    <3>1. UNION {f.todo : f \in P} = UNION {V(t) : t \in tree.last}
      <4> HIDE DEF V
      <4>1. \A t \in tree.last : PartAt(t, action).todo = V(t)
        BY <2>4 DEF V
      <4> QED BY <4>1
    <3>2. UNION {V(t) : t \in tree.last} = {Visit(u.end, Scope(u)) : u \in UNION {Longer(t) : t \in tree.last}}
      OBVIOUS
    <3> QED BY <1>1, <2>1, <2>3, <3>1, <3>2
  <2>8. \A u \in l.last : Vetted(u, action)
    BY <1>1, <2>4
  <2>9. \A t \in l.seen : Passed(t, action)
    BY <1>1, <2>2, <2>4 DEF Kept
  <2> QED BY <2>5, <2>6, <2>7, <2>8, <2>9 DEF Kept
<1> HIDE DEF w, l
<1>6. DOMAIN w = Fields
  BY <1>3
<1>7. LevelInv(w, l, d + 1, action)
  BY <1>4, <1>5, <1>6, Zenon DEF LevelInv
<1> QED BY <1>7 DEF w, l

\* The levels of the tree grow into the trails of the statement.
LEMMA LevelsGrow ==
  ASSUME NEW s, NEW action, NEW f, Descends(f, s, action), NEW d \in 0..(MaxDepth + 1)
  PROVE  f[d].tree.seen \subseteq f[MaxDepth + 1].tree.seen
<1> DEFINE D == MaxDepth + 1
           T == {k \in 0..D : ~(f[D - k].tree.seen \subseteq f[D].tree.seen)}
<1>1. D \in Nat
  BY DepthAssumption
<1> HIDE DEF D
<1>2. \A e \in Nat : f[e].tree.seen \subseteq f[e + 1].tree.seen
  <2> TAKE e \in Nat
  <2>1. f[e + 1] = NextPair(f[e], action)
    BY DEF Descends
  <2>2. f[e + 1].tree.seen = f[e].tree.seen \cup f[e].tree.last
    <3> DEFINE a == NextRound(f[e].walk, action)
               b == f[e].tree
    <3>1. f[e + 1] = [walk |-> a, tree |-> NextLevel(b)]
      BY <2>1, Zenon DEF NextPair, Pair
    <3> HIDE DEF a, b
    <3>2. f[e + 1].tree.seen = b.seen \cup b.last
      BY <3>1 DEF NextLevel
    <3> QED BY <3>2 DEF b
  <2> QED BY <2>2
<1>3. T = {}
  <2> SUFFICES ASSUME T # {} PROVE FALSE
    OBVIOUS
  <2>1. PICK k \in T : \A y \in T : k <= y
    <3>1. T \subseteq Nat
      BY <1>1
    <3> HIDE DEF T
    <3> QED BY <3>1, NatMin
  <2>2. k \in 0..D /\ ~(f[D - k].tree.seen \subseteq f[D].tree.seen)
    OBVIOUS
  <2>3. k # 0
    BY <1>1, <2>2
  <2>4. k - 1 \in 0..D /\ k - 1 < k /\ D - k \in Nat /\ (D - k) + 1 = D - (k - 1)
    BY <1>1, <2>2, <2>3
  <2>5. f[D - (k - 1)].tree.seen \subseteq f[D].tree.seen
    BY <2>1, <2>4
  <2>6. f[D - k].tree.seen \subseteq f[D - (k - 1)].tree.seen
    BY <1>2, <2>4
  <2> QED BY <2>2, <2>5, <2>6
<1>4. D - d \in 0..D /\ D - (D - d) = d
  BY <1>1 DEF D
<1>5. f[d].tree.seen \subseteq f[D].tree.seen
  BY <1>3, <1>4
<1> QED BY <1>5 DEF D

\* What is known of the nodes at a level.
LEMMA LevelParsed ==
  ASSUME NEW s, Parsed(s), NEW action, NEW f, Descends(f, s, action),
         Trails(s) = f[MaxDepth + 1].tree.seen, NEW d \in 0..MaxDepth, NEW t \in f[d].tree.last, IsTrail(t, d)
  PROVE  ParsedNode(t.end) /\ KidsParsed(t.end)
<1>1. \A e \in 0..MaxDepth : f[e].tree.last \subseteq Trails(s)
  <2> TAKE e \in 0..MaxDepth
  <2> DEFINE k == e + 1
  <2>1. e \in Nat /\ k \in 0..(MaxDepth + 1)
    BY DepthAssumption
  <2>2. f[e + 1] = NextPair(f[e], action)
    BY <2>1 DEF Descends
  <2>3. f[k].tree.seen = f[e].tree.seen \cup f[e].tree.last
    <3> DEFINE a == NextRound(f[e].walk, action)
               b == f[e].tree
    <3>1. f[e + 1] = [walk |-> a, tree |-> NextLevel(b)]
      BY <2>2, Zenon DEF NextPair, Pair
    <3> HIDE DEF a, b
    <3>2. f[e + 1].tree.seen = b.seen \cup b.last
      BY <3>1 DEF NextLevel
    <3> QED BY <3>2 DEF b, k
  <2> HIDE DEF k
  <2>4. f[k].tree.seen \subseteq Trails(s)
    BY <2>1, LevelsGrow
  <2> QED BY <2>3, <2>4
<1>2. t \in Trails(s)
  BY <1>1
<1>3. ParsedNode(t.end) /\ (Len(t.up) = MaxDepth => Longer(t) = {})
  BY <1>2 DEF Parsed
<1>4. Longer(t) \subseteq Trails(s)
  <2>1. CASE d = MaxDepth
    BY <1>3, <2>1 DEF IsTrail
  <2>2. CASE d # MaxDepth
    <3> DEFINE k == d + 1
    <3>1. d \in Nat /\ k \in 0..MaxDepth
      BY <2>2, DepthAssumption
    <3>2. f[d + 1] = NextPair(f[d], action)
      BY <3>1 DEF Descends
    <3>3. f[k].tree.last = UNION {Longer(x) : x \in f[d].tree.last}
      <4> DEFINE a == NextRound(f[d].walk, action)
                 b == f[d].tree
      <4>1. f[d + 1] = [walk |-> a, tree |-> NextLevel(b)]
        BY <3>2, Zenon DEF NextPair, Pair
      <4> HIDE DEF a, b
      <4>2. f[d + 1].tree.last = UNION {Longer(x) : x \in b.last}
        BY <4>1 DEF NextLevel
      <4> QED BY <4>2 DEF b, k
    <3> HIDE DEF k
    <3>4. f[k].tree.last \subseteq Trails(s)
      BY <1>1, <3>1
    <3>5. Longer(t) \subseteq f[k].tree.last
      BY <3>3
    <3> QED BY <3>4, <3>5
  <2> QED BY <2>1, <2>2
<1>5. ASSUME NEW m \in DOMAIN t.end.kids, NEW i \in DOMAIN t.end.kids[m], t.end.kids[m][i] # Null
      PROVE  ParsedNode(t.end.kids[m][i])
  <2> DEFINE u == Further(t, m, i)
  <2>1. u.end = t.end.kids[m][i]
    BY DEF Further
  <2>2. u \in Longer(t)
    BY <1>5, LongerMember
  <2> HIDE DEF u
  <2>3. ParsedNode(u.end)
    BY <1>4, <2>2 DEF Parsed
  <2> QED BY <2>1, <2>3
<1> QED BY <1>3, <1>5 DEF KidsParsed

\* The invariant holds at every level.
LEMMA LevelsHold ==
  ASSUME NEW s, Parsed(s), ~ClassifyStatement(s).unsafe, NEW action, action = ClassifyStatement(s).action,
         NEW f, Descends(f, s, action), Trails(s) = f[MaxDepth + 1].tree.seen
  PROVE  \A d \in 0..(MaxDepth + 1) : LevelInv(f[d].walk, f[d].tree, d, action)
<1> DEFINE T == {d \in 0..(MaxDepth + 1) : ~LevelInv(f[d].walk, f[d].tree, d, action)}
<1> SUFFICES ASSUME T # {} PROVE FALSE
  OBVIOUS
<1>1. PICK d \in T : \A y \in T : d <= y
  <2>1. T \subseteq Nat
    OBVIOUS
  <2> HIDE DEF T
  <2> QED BY <2>1, NatMin
<1>2. d \in 0..(MaxDepth + 1) /\ ~LevelInv(f[d].walk, f[d].tree, d, action)
  OBVIOUS
<1>3. CASE d = 0
  <2> DEFINE w == FirstRound(s)
             l == FirstLevel(s)
             t == [up |-> <<>>, end |-> s]
  <2>1. f[0].walk = w /\ f[0].tree = l
    <3>1. f[0] = [walk |-> w, tree |-> l]
      BY Zenon DEF Descends, FirstPair, Pair
    <3> HIDE DEF w, l
    <3> QED BY <3>1
  <2>2. l.seen = {} /\ l.last = {t}
    BY DEF FirstLevel
  <2>3. DOMAIN w = Fields /\ w.objects = {} /\ w.columns = {} /\ w.todo = {Visit(s, {})}
    BY DEF FirstRound, Nothing, Fields
  <2>4. t.end = s /\ IsTrail(t, 0) /\ Scope(t) = {}
    BY RootTrail
  <2> HIDE DEF w, l, t
  <2>5. Vetted(t, action)
    <3>1. s.sort = "statement"
      BY DEF Parsed
    <3> QED BY <2>4, <3>1 DEF Vetted, Sorts, Suits
  <2>6. Kept(w, l, action)
    BY <2>2, <2>3, <2>4, <2>5 DEF Kept
  <2>7. LevelInv(w, l, 0, action)
    BY <2>2, <2>3, <2>4, <2>6 DEF LevelInv
  <2> QED BY <1>2, <1>3, <2>1, <2>7
<1>4. CASE d # 0
  <2> DEFINE e == d - 1
  <2>1. e \in Nat /\ e \in 0..MaxDepth /\ e \in 0..(MaxDepth + 1) /\ e < d /\ e + 1 = d
    BY <1>2, <1>4, DepthAssumption
  <2>2. LevelInv(f[e].walk, f[e].tree, e, action)
    BY <1>1, <2>1
  <2> HIDE DEF e
  <2>3. f[d].walk = NextRound(f[e].walk, action) /\ f[d].tree = NextLevel(f[e].tree)
    <3> DEFINE w == NextRound(f[e].walk, action)
               l == NextLevel(f[e].tree)
    <3>1. f[e + 1] = NextPair(f[e], action)
      BY <2>1 DEF Descends
    <3>2. f[d] = [walk |-> w, tree |-> l]
      BY <2>1, <3>1, Zenon DEF NextPair, Pair
    <3> HIDE DEF w, l
    <3>3. f[d].walk = w /\ f[d].tree = l
      BY <3>2
    <3> QED BY <3>3 DEF w, l
  <2>4. \A t \in f[e].tree.last : IsTrail(t, e)
    BY <2>2 DEF LevelInv
  <2>5. \A t \in f[e].tree.last : ParsedNode(t.end) /\ KidsParsed(t.end)
    BY <2>1, <2>4, LevelParsed
  <2>6. LevelInv(NextRound(f[e].walk, action), NextLevel(f[e].tree), e + 1, action)
    BY <2>1, <2>2, <2>5, RoundKeeps
  <2> QED BY <1>2, <2>1, <2>3, <2>6
<1> QED BY <1>3, <1>4

\* A walk that finds nothing wrong finds what the reference does.
LEMMA WalkReads ==
  ASSUME NEW s, Parsed(s), ~ClassifyStatement(s).unsafe, ~Walk(s, ClassifyStatement(s).action).unsafe
  PROVE  LET action == ClassifyStatement(s).action IN
         /\ Walk(s, action).objects = UNION {ObjectsAt(t) : t \in Trails(s)}
         /\ Walk(s, action).columns = UNION {ColumnsAt(t) : t \in Trails(s)}
         /\ \A t \in Trails(s) : Passed(t, action)
<1> DEFINE action == ClassifyStatement(s).action
<1>1. PICK f : /\ Descends(f, s, action)
               /\ Walk(s, action) = f[MaxDepth + 1].walk
               /\ Trails(s) = f[MaxDepth + 1].tree.seen
  <2> HIDE DEF action
  <2> QED BY WalkAndTrails
<1> DEFINE D == MaxDepth + 1
<1>2. D \in 0..(MaxDepth + 1)
  BY DepthAssumption
<1>3. LevelInv(f[D].walk, f[D].tree, D, action)
  <2>1. \A d \in 0..(MaxDepth + 1) : LevelInv(f[d].walk, f[d].tree, d, action)
    BY <1>1, LevelsHold
  <2> HIDE DEF D
  <2> QED BY <1>2, <2>1
<1>4. Walk(s, action) = f[D].walk /\ Trails(s) = f[D].tree.seen
  BY <1>1
<1> HIDE DEF action, D
<1>5. Kept(f[D].walk, f[D].tree, action)
  BY <1>3, <1>4 DEF LevelInv, action
<1>6. /\ Walk(s, action).objects = UNION {ObjectsAt(t) : t \in Trails(s)}
      /\ Walk(s, action).columns = UNION {ColumnsAt(t) : t \in Trails(s)}
      /\ \A t \in Trails(s) : Passed(t, action)
  BY <1>4, <1>5 DEF Kept
<1> QED BY <1>6 DEF action

(***************************************************************************)
(* The request.                                                             *)
(***************************************************************************)
RequestFields == {"action", "objects", "columns", "unsafe"}

\* One round of the loop that finds nothing wrong.
LEMMA InspectFound ==
  ASSUME NEW r, DOMAIN r = RequestFields, NEW isFirst, NEW s, NEW r2, r2 = Inspect(r, isFirst, s)
  PROVE  LET class == ClassifyStatement(s) IN
         /\ DOMAIN r2 = RequestFields
         /\ ~r2.unsafe => /\ ~r.unsafe /\ ~class.unsafe /\ ~Walk(s, class.action).unsafe
                          /\ r2.action = class.action /\ (~isFirst => r.action = class.action)
                          /\ r2.objects = r.objects \cup Walk(s, class.action).objects
                          /\ r2.columns = r.columns \cup Walk(s, class.action).columns
<1> DEFINE class == ClassifyStatement(s)
           action == IF isFirst THEN class.action ELSE r.action
           found == Walk(s, action)
           b == class.unsafe
           c == class.action # action
           q == [r EXCEPT !.action = action, !.unsafe = @ \/ b \/ c]
<1>1. r2 = Add(q, found)
  BY Zenon DEF Inspect
<1> HIDE DEF b, c, action, found
<1>2. q.action = action /\ q.objects = r.objects /\ q.columns = r.columns
  BY DEF RequestFields
<1>3. ~q.unsafe => ~r.unsafe /\ ~b /\ ~c
  BY DEF RequestFields
<1> HIDE DEF q
<1>4. /\ DOMAIN r2 = RequestFields /\ r2.action = q.action
      /\ r2.objects = q.objects \cup found.objects /\ r2.columns = q.columns \cup found.columns
  BY <1>1 DEF Add, RequestFields
<1>5. ~r2.unsafe => ~q.unsafe /\ ~found.unsafe
  <2> DEFINE u == q.unsafe \/ found.unsafe
  <2>1. r2 = [ action |-> q.action, objects |-> q.objects \cup found.objects,
               columns |-> q.columns \cup found.columns, unsafe |-> u ]
    BY <1>1, Zenon DEF Add
  <2> HIDE DEF u
  <2>2. r2.unsafe = u
    BY <2>1
  <2> QED BY <2>2 DEF u
<1>6. ~c => action = class.action /\ found = Walk(s, class.action)
  BY DEF c, found
<1>7. ~isFirst => action = r.action
  BY DEF action
<1> HIDE DEF class
<1>8. ~r2.unsafe => /\ ~r.unsafe /\ ~b /\ ~c /\ r2.action = action /\ ~found.unsafe
                    /\ r2.objects = r.objects \cup found.objects /\ r2.columns = r.columns \cup found.columns
  BY <1>2, <1>3, <1>4, <1>5
<1> QED BY <1>4, <1>6, <1>7, <1>8 DEF b, class

\* The trails of the first k statements, and that the request is right about
\* them.
TrailsTo(q, k) == UNION {Trails(q.script[i]) : i \in 1..k}
Covers(r, q, k) ==
  /\ \A i \in 1..k : q.script[i] # Null
  /\ r.objects = UNION {ObjectsAt(t) : t \in TrailsTo(q, k)}
  /\ r.columns = UNION {ColumnsAt(t) : t \in TrailsTo(q, k)}
  /\ \A t \in TrailsTo(q, k) : Passed(t, r.action)

RequestInv ==
  /\ query \in Queries /\ DOMAIN req = RequestFields /\ pc \in {"parse", "inspect", "decide", "done"}
  /\ pc = "parse" => next = 1 /\ first = TRUE /\ req = EmptyRequest
  /\ pc = "inspect" => next \in 1..Len(query.script)
  /\ pc = "inspect" /\ ~req.unsafe => (first => next = 1) /\ Covers(req, query, next - 1)
  /\ pc \in {"decide", "done"} /\ ~req.unsafe => Covers(req, query, Len(query.script))

\* The length and the positions of a list of statements.
LEMMA ScriptLength ==
  ASSUME NEW q \in Queries
  PROVE  /\ Len(q.script) \in Nat /\ DOMAIN q.script = 1..Len(q.script)
         /\ (q.script = <<>> <=> Len(q.script) = 0)
<1> DEFINE x == q.script
           n == Len(x)
<1>1. n \in Nat /\ x = [i \in 1..n |-> x[i]]
  BY QueriesAssumption
<1>2. x = <<>> => n = 0
  OBVIOUS
<1> HIDE DEF n, x
<1>3. DOMAIN x = 1..n
  BY <1>1
<1>4. n = 0 => x = <<>>
  BY <1>1
<1> QED BY <1>1, <1>2, <1>3, <1>4 DEF n, x

\* Before the parse no request is there to be wrong.
LEMMA RequestInit == Init => RequestInv
BY DEF Init, RequestInv, EmptyRequest, RequestFields

\* After the parse no statement has been read.
LEMMA ParseRequest == RequestInv /\ Parse => RequestInv'
<1> SUFFICES ASSUME RequestInv, Parse PROVE RequestInv'
  OBVIOUS
<1>1. /\ query \in Queries /\ next = 1 /\ first = TRUE /\ req = EmptyRequest
      /\ query' = query /\ next' = next /\ first' = first
      /\ req' = [req EXCEPT !.unsafe = ~query.parses]
      /\ pc' = IF query.parses /\ query.script # <<>> THEN "inspect" ELSE "decide"
  BY DEF RequestInv, Parse
<1>2. /\ DOMAIN req' = RequestFields /\ req'.objects = {} /\ req'.columns = {} /\ req'.unsafe = ~query.parses
  BY <1>1 DEF EmptyRequest, RequestFields
<1>3. Len(query.script) \in Nat /\ (query.script = <<>> <=> Len(query.script) = 0)
  BY <1>1, ScriptLength
<1>4. Covers(req', query, 0)
  <2>1. TrailsTo(query, 0) = {}
    BY DEF TrailsTo
  <2> QED BY <1>2, <2>1 DEF Covers
<1>5. pc' = "inspect" => next' \in 1..Len(query'.script)
  BY <1>1, <1>3
<1>6. pc' = "inspect" /\ ~req'.unsafe => (first' => next' = 1) /\ Covers(req', query', next' - 1)
  BY <1>1, <1>4
<1>7. pc' \in {"decide", "done"} /\ ~req'.unsafe => Covers(req', query', Len(query'.script))
  <2>1. pc' \in {"decide", "done"} /\ ~req'.unsafe => Len(query.script) = 0
    BY <1>1, <1>2, <1>3
  <2> QED BY <1>1, <1>4, <2>1
<1>8. pc' \in {"inspect", "decide"}
  BY <1>1
<1> QED BY <1>1, <1>2, <1>5, <1>6, <1>7, <1>8 DEF RequestInv

\* InspectStatement adds what its statement gets at and does to the request; the
\* first statement sets the action, and one of another action is unsafe.
LEMMA InspectRequest == RequestInv /\ InspectStatement => RequestInv'
<1> SUFFICES ASSUME RequestInv, InspectStatement PROVE RequestInv'
  OBVIOUS
<1> DEFINE k == next - 1
           s == query.script[next]
<1>1. /\ query \in Queries /\ DOMAIN req = RequestFields /\ pc = "inspect" /\ next \in 1..Len(query.script)
      /\ ~req.unsafe => (first => next = 1) /\ Covers(req, query, k)
      /\ query' = query /\ next' = next + 1
      /\ pc' = IF next = Len(query.script) THEN "decide" ELSE "inspect"
  BY DEF RequestInv, InspectStatement
<1>2. Len(query.script) \in Nat /\ DOMAIN query.script = 1..Len(query.script)
  BY <1>1, ScriptLength
<1>3. next \in Nat /\ k \in Nat /\ next' - 1 = next /\ k + 1 = next
  BY <1>1, <1>2
<1>4. CASE s = Null
  <2>1. req' = [req EXCEPT !.unsafe = TRUE]
    BY <1>4 DEF InspectStatement
  <2>2. req'.unsafe = TRUE /\ DOMAIN req' = RequestFields
    BY <1>1, <2>1 DEF RequestFields
  <2> QED BY <1>1, <1>2, <2>2 DEF RequestInv
<1>5. CASE s # Null
  <2>1. req' = Inspect(req, first, s) /\ first' = FALSE
    BY <1>5 DEF InspectStatement
  <2> DEFINE class == ClassifyStatement(s)
             found == Walk(s, class.action)
  <2>2. /\ DOMAIN req' = RequestFields
        /\ ~req'.unsafe => /\ ~req.unsafe /\ ~class.unsafe /\ ~found.unsafe
                           /\ req'.action = class.action /\ (~first => req.action = class.action)
                           /\ req'.objects = req.objects \cup found.objects
                           /\ req'.columns = req.columns \cup found.columns
    BY <1>1, <2>1, InspectFound
  <2>3. ASSUME ~req'.unsafe PROVE Covers(req', query, next)
    <3>1. Parsed(s)
      BY <1>1, <1>2, <1>5, QueriesAssumption
    <3>2. /\ found.objects = UNION {ObjectsAt(t) : t \in Trails(s)}
          /\ found.columns = UNION {ColumnsAt(t) : t \in Trails(s)}
          /\ \A t \in Trails(s) : Passed(t, class.action)
      BY <2>2, <2>3, <3>1, WalkReads
    <3>3. (first => next = 1) /\ Covers(req, query, k)
      BY <1>1, <2>2, <2>3
    <3>4. next \notin 1..k /\ (\A j : j \in 1..next <=> j \in 1..k \/ j = next)
      BY <1>3
    <3> HIDE DEF k, s, class, found
    <3> DEFINE A == TrailsTo(query, k)
               B == Trails(s)
               C == TrailsTo(query, next)
    <3>5. ASSUME NEW x PROVE x \in C <=> x \in A \/ x \in B
      <4>1. /\ x \in A <=> \E i \in 1..k : x \in Trails(query.script[i])
            /\ x \in C <=> \E i \in 1..next : x \in Trails(query.script[i])
        BY DEF TrailsTo
      <4>2. x \in B <=> x \in Trails(query.script[next])
        BY DEF s
      <4> HIDE DEF A, B, C
      <4> QED BY <3>4, <4>1, <4>2, Zenon
    <3>6. \A i \in 1..next : query.script[i] # Null
      BY <1>5, <3>3, <3>4 DEF Covers, s
    <3>7. /\ req'.objects = UNION {ObjectsAt(t) : t \in C}
          /\ req'.columns = UNION {ColumnsAt(t) : t \in C}
      <4>1. /\ req.objects = UNION {ObjectsAt(t) : t \in A}
            /\ req.columns = UNION {ColumnsAt(t) : t \in A}
        BY <3>3 DEF Covers
      <4>2. C = A \cup B
        <5> HIDE DEF A, B, C
        <5> QED BY <3>5
      <4> HIDE DEF A, B, C
      <4> DEFINE O(X) == UNION {ObjectsAt(t) : t \in X}
                 P(X) == UNION {ColumnsAt(t) : t \in X}
      <4>3. O(C) = O(A) \cup O(B) /\ P(C) = P(A) \cup P(B)
        BY <4>2
      <4>4. req'.objects = O(C) /\ req'.columns = P(C)
        <5>1. req.objects = O(A) /\ req.columns = P(A) /\ found.objects = O(B) /\ found.columns = P(B)
          BY <3>2, <4>1 DEF B
        <5> HIDE DEF O, P
        <5> QED BY <2>2, <2>3, <4>3, <5>1
      <4> QED BY <4>4
    <3>8. \A t \in C : Passed(t, req'.action)
      <4>1. \A t \in B : Passed(t, req'.action)
        BY <2>2, <2>3, <3>2
      <4>2. \A t \in A : Passed(t, req'.action)
        <5>1. CASE first
          <6>1. A = {}
            <7>1. \A i : i \notin 1..k
              BY <1>3, <3>3, <5>1 DEF k
            <7> QED BY <7>1 DEF TrailsTo
          <6> QED BY <6>1
        <5>2. CASE ~first
          <6>1. req.action = req'.action
            BY <2>2, <2>3, <5>2
          <6> QED BY <3>3, <6>1 DEF Covers
        <5> QED BY <5>1, <5>2
      <4> HIDE DEF A, B, C
      <4> QED BY <3>5, <4>1, <4>2
    <3> QED BY <3>6, <3>7, <3>8 DEF Covers
  <2>4. pc' = "inspect" => next' \in 1..Len(query'.script)
    BY <1>1, <1>2
  <2>5. pc' = "inspect" /\ ~req'.unsafe => (first' => next' = 1) /\ Covers(req', query', next' - 1)
    <3>1. ~first'
      BY <2>1
    <3> QED BY <1>1, <1>3, <2>3, <3>1
  <2>6. pc' \in {"decide", "done"} /\ ~req'.unsafe => Covers(req', query', Len(query'.script))
    BY <1>1, <2>3
  <2>7. pc' \in {"inspect", "decide"}
    BY <1>1
  <2> QED BY <1>1, <2>2, <2>4, <2>5, <2>6, <2>7 DEF RequestInv
<1> QED BY <1>4, <1>5

\* Every step keeps the request right about the statements read so far.
LEMMA RequestStep == RequestInv /\ [Next]_vars => RequestInv'
<1> SUFFICES ASSUME RequestInv, [Next]_vars PROVE RequestInv'
  OBVIOUS
<1>1. CASE Parse
  BY <1>1, ParseRequest
<1>2. CASE InspectStatement
  BY <1>2, InspectRequest
<1>3. CASE InspectionThrows
  <2>1. req' = [req EXCEPT !.unsafe = TRUE] /\ DOMAIN req = RequestFields /\ query \in Queries
    BY <1>3 DEF RequestInv, InspectionThrows
  <2>2. req'.unsafe = TRUE /\ DOMAIN req' = RequestFields
    BY <2>1 DEF RequestFields
  <2> QED BY <1>3, <2>1, <2>2 DEF RequestInv, InspectionThrows
<1>4. CASE CheckAuthorization
  <2>1. pc = "decide" /\ pc' = "done" /\ UNCHANGED <<query, source, principal, next, first, req>>
    BY <1>4 DEF CheckAuthorization
  <2> QED BY <2>1 DEF RequestInv
<1>5. CASE InspectSqlScan
  BY <1>5 DEF RequestInv, InspectSqlScan
<1>6. CASE UNCHANGED vars
  BY <1>6 DEF RequestInv, vars
<1> QED BY <1>1, <1>2, <1>3, <1>4, <1>5, <1>6 DEF Next

\* At each point of the loop over the statements (InspectSql) a request that is
\* not unsafe is right about the statements already read: their objects, their
\* columns, and an action that covers all that any of their nodes does.
THEOREM RequestIsInvariant == Spec => []RequestInv
<1>1. Init => RequestInv
  BY RequestInit
<1>2. RequestInv /\ [Next]_vars => RequestInv'
  BY RequestStep
<1> QED BY <1>1, <1>2, PTL DEF Spec

\* A request that is not unsafe has been read to the end.
LEMMA RequestCovers ==
  ASSUME RequestInv, IsInspected, ~req.unsafe
  PROVE  /\ req.objects = Objects /\ req.columns = Columns
         /\ \A t \in EveryTrail : Passed(t, req.action)
<1>1. query \in Queries /\ Covers(req, query, Len(query.script))
  BY DEF RequestInv, IsInspected
<1> DEFINE k == Len(query.script)
<1>2. DOMAIN query.script = 1..k
  BY <1>1, ScriptLength
<1>3. Covers(req, query, k)
  BY <1>1
<1> HIDE DEF k
<1>4. \A i \in 1..k : query.script[i] # Null
  BY <1>3 DEF Covers
<1>5. Statements = {query.script[i] : i \in 1..k}
  BY <1>2, <1>4 DEF Statements
<1>6. EveryTrail = TrailsTo(query, k)
  BY <1>5 DEF EveryTrail, TrailsTo
<1> QED BY <1>3, <1>6 DEF Covers, Objects, Columns

\* A request that is not unsafe names exactly the tables, functions and columns
\* of its statements: the walk reaches every node of every statement and takes a
\* name for an alias only where a definition of it is in scope (WalkQueryNode,
\* WalkTableRef, CteScope).
THEOREM NamesAreTrue == Spec => []NamesWhatItReaches
<1>1. RequestInv => NamesWhatItReaches
  BY RequestCovers DEF NamesWhatItReaches
<1> QED BY <1>1, RequestIsInvariant, PTL

\* Running the statements of a request that is not unsafe changes nothing but
\* what its action says (ClassifyStatement, the hidden-statement checks of
\* WalkQueryNode, EXPLAIN, the comparison of the actions in InspectSql).
THEOREM ActionIsTrue == Spec => []DoesWhatItSays
<1>1. RequestInv => DoesWhatItSays
  <2> SUFFICES ASSUME RequestInv, IsInspected, ~req.unsafe PROVE Effects \subseteq {req.action}
    BY DEF DoesWhatItSays
  <2>1. \A t \in EveryTrail : EffectsAt(t) \subseteq {req.action}
    BY RequestCovers DEF Passed
  <2> QED BY <2>1 DEF Effects
<1> QED BY <1>1, RequestIsInvariant, PTL

\* A request is unsafe if anywhere in its statements is a node unknown to the
\* inspector, a macro, or a call that runs a text it has not seen (the default
\* branches of the walks; query(), query_table()).
THEOREM NothingOpaquePasses == Spec => []OpaqueIsUnsafe
<1>1. RequestInv => OpaqueIsUnsafe
  <2> SUFFICES ASSUME RequestInv, IsInspected, ~req.unsafe, NEW t \in EveryTrail PROVE ~Opaque(t.end)
    BY DEF OpaqueIsUnsafe, Opaque
  <2> QED BY RequestCovers DEF Passed
<1> QED BY <1>1, RequestIsInvariant, PTL

(***************************************************************************)
(* The decision.                                                            *)
(***************************************************************************)
\* A request that is allowed has been read to the end, and each of its cells
\* has been.
DecisionInv ==
  /\ source \in Sources
  /\ outcome = "allow" =>
       /\ pc = "done" /\ ~req.unsafe
       /\ source.named => \A c \in Cells(req) : TRUE \in Verdicts(source, principal, req.action, c[1], c[2])

\* Every object and column of a request is a name that a policy can match.
LEMMA RequestNames ==
  ASSUME RequestInv, IsInspected, ~req.unsafe
  PROVE  req.objects \subseteq Names /\ req.columns \subseteq Names
<1>1. \A t \in EveryTrail : ObjectsAt(t) \subseteq Names /\ ColumnsAt(t) \subseteq Names
  BY RequestCovers DEF Passed
<1>2. req.objects = Objects /\ req.columns = Columns
  BY RequestCovers
<1> QED BY <1>1, <1>2 DEF Objects, Columns

\* CheckAuthorization allows what a named table allows in every cell, and
\* nothing that is unsafe.
LEMMA CheckDecides ==
  ASSUME RequestInv, DecisionInv, CheckAuthorization
  PROVE  DecisionInv'
<1>1. pc = "decide" /\ pc' = "done" /\ UNCHANGED <<query, source, principal, next, first, req>>
  BY DEF CheckAuthorization
<1>2. PICK policy \in LoadPolicy(source) :
        outcome' = IF /\ ~req.unsafe /\ policy # LoadFailed
                      /\ IF policy.kind = "default" THEN EvaluateDefaultPolicy(principal, req.action)
                         ELSE EvaluatePolicy(policy, principal, req)
                   THEN "allow" ELSE "deny"
  BY DEF CheckAuthorization
<1> DEFINE b == req.unsafe \/ policy = LoadFailed
           d == policy.kind = "default"
           ev == EvaluatePolicy(policy, principal, req)
           yes == ~req.unsafe /\ policy # LoadFailed /\ IF d THEN EvaluateDefaultPolicy(principal, req.action) ELSE ev
<1>3. outcome' = IF yes THEN "allow" ELSE "deny"
  BY <1>2, Zenon
<1>4. yes => ~b /\ (~d => ev)
  BY Zenon
<1> HIDE DEF yes
<1>5. outcome' = "allow" => ~b /\ (~d => ev)
  BY <1>3, <1>4
<1>6. ASSUME outcome' = "allow", source.named
      PROVE  \A c \in Cells(req) : TRUE \in Verdicts(source, principal, req.action, c[1], c[2])
  <2>1. ~req.unsafe /\ policy # LoadFailed /\ (~d => ev)
    BY <1>5, <1>6
  <2>2. Readable(source)
    BY <1>6, <2>1, TableRefused
  <2>3. ev
    <3>1. policy.kind = "table"
      BY <1>6, <2>2, TableLoaded
    <3> QED BY <2>1, <3>1
  <2>4. WellFormedSource(source)
    BY PoliciesAssumption DEF DecisionInv
  <2>5. req.objects \subseteq Seq(Pieces) /\ req.columns \subseteq Seq(Pieces)
    BY <1>1, <2>1, RequestNames DEF IsInspected, Names
  <2>6. STRING \subseteq Pieces
    BY DEF Pieces
  <2> QED BY <1>6, <2>2, <2>3, <2>4, <2>5, <2>6, PolicyVerdicts
<1>7. source' = source /\ principal' = principal /\ req' = req
  BY <1>1
<1> DEFINE Right(s, p, r) == \A c \in Cells(r) : TRUE \in Verdicts(s, p, r.action, c[1], c[2])
<1>8. outcome' = "allow" => ~req.unsafe /\ (source.named => Right(source, principal, req))
  BY <1>5, <1>6
<1> HIDE DEF Right
<1>9. outcome' = "allow" => ~req'.unsafe /\ (source'.named => Right(source', principal', req'))
  BY <1>7, <1>8
<1> QED BY <1>1, <1>7, <1>9, Zenon DEF DecisionInv, Right

\* Nothing else allows a request or changes one that has been decided.
LEMMA DecisionStep == RequestInv /\ DecisionInv /\ [Next]_vars => DecisionInv'
<1> SUFFICES ASSUME RequestInv, DecisionInv, [Next]_vars PROVE DecisionInv'
  OBVIOUS
<1>1. ASSUME pc # "done", UNCHANGED <<source, outcome>> PROVE DecisionInv'
  BY <1>1 DEF DecisionInv
<1>2. CASE Parse
  BY <1>1, <1>2 DEF Parse
<1>3. CASE InspectStatement
  BY <1>1, <1>3 DEF InspectStatement
<1>4. CASE InspectionThrows
  BY <1>1, <1>4 DEF InspectionThrows
<1>5. CASE CheckAuthorization
  BY <1>5, CheckDecides
<1>6. CASE InspectSqlScan
  BY <1>6 DEF InspectSqlScan, DecisionInv
<1>7. CASE UNCHANGED vars
  <2>1. UNCHANGED <<source, principal, pc, req, outcome>>
    BY <1>7 DEF vars
  <2> QED BY <2>1 DEF DecisionInv
<1> QED BY <1>2, <1>3, <1>4, <1>5, <1>6, <1>7 DEF Next

\* What is allowed is allowed in every part: the walk misses nothing that the
\* statements do or get at, the checks of the classification and of hidden
\* statements leave one action, and the row of the table that decides on that
\* action, each object and each column says yes (InspectSql, EvaluatePolicy).
THEOREM AllowedThroughout == Spec => []AllowedInEveryPart
<1>1. Init => DecisionInv
  BY DEF Init, DecisionInv
<1>2. RequestInv /\ DecisionInv => AllowedInEveryPart
  <2> DEFINE Right(action, r) == \A c \in Cells(r) : TRUE \in Verdicts(source, principal, action, c[1], c[2])
             asked == [objects |-> Objects, columns |-> Columns]
             done == IF Effects = {} THEN {req.action} ELSE Effects
  <2> SUFFICES ASSUME RequestInv, DecisionInv, outcome = "allow", source.named, NEW action \in done
               PROVE  Right(action, asked)
    BY DEF AllowedInEveryPart
  <2>1. pc = "done" /\ ~req.unsafe /\ Right(req.action, req)
    BY DEF DecisionInv
  <2>2. IsInspected
    BY <2>1 DEF IsInspected
  <2>3. /\ req.objects = Objects /\ req.columns = Columns
        /\ \A t \in EveryTrail : EffectsAt(t) \subseteq {req.action}
    BY <2>1, <2>2, RequestCovers DEF Passed
  <2>4. Effects \subseteq {req.action}
    BY <2>3 DEF Effects
  <2>5. action = req.action
    BY <2>4
  <2>6. Cells(asked) = Cells(req)
    <3>1. asked.objects = req.objects /\ asked.columns = req.columns
      BY <2>3
    <3> HIDE DEF asked
    <3> QED BY <3>1 DEF Cells
  <2> QED BY <2>1, <2>5, <2>6
<1> QED BY <1>1, <1>2, DecisionStep, RequestIsInvariant, PTL DEF Spec
=============================================================================
