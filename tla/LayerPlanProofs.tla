-------------------------- MODULE LayerPlanProofs --------------------------
(***************************************************************************)
(* Facts about the layer plan that hold for every number of variables: the *)
(* enumeration of combinations is well defined (its ranks are exactly      *)
(* 0 .. n - 1 because LexLess is a strict total order), so a plan is a     *)
(* function from edges to sequences of well-typed tasks.                   *)
(***************************************************************************)
EXTENDS LayerPlan, FiniteSetTheorems, SequenceTheorems, TLAPS

\* A nonempty set of naturals has a least element.
LEMMA LeastNat ==
  ASSUME NEW T \in SUBSET Nat, T # {}
  PROVE  \E k \in T : \A j \in T : k <= j
<1>1. \E x \in T : \A y \in T : ~(<<y, x>> \in OpToRel(<, Nat))
  BY NatLessThanWellFounded, WFMin, Zenon
<1>2. PICK x \in T : \A y \in T : ~(<<y, x>> \in OpToRel(<, Nat))
  BY <1>1
<1>3. \A a, b \in Nat : <<a, b>> \in OpToRel(<, Nat) <=> a < b
  BY DEF OpToRel
<1>4. \A y \in T : ~(y < x)
  BY <1>2, <1>3
<1>5. \A y \in T : x <= y
  BY <1>4
<1>6. QED
  BY <1>5

\* LexLess orders sets of naturals totally and strictly.
LEMMA LexLessIrreflexive ==
  ASSUME NEW A
  PROVE  ~LexLess(A, A)
BY DEF LexLess

LEMMA LexLessTotal ==
  ASSUME NEW A \in SUBSET Nat, NEW B \in SUBSET Nat, A # B
  PROVE  LexLess(A, B) \/ LexLess(B, A)
<1> DEFINE D == (A \ B) \cup (B \ A)
<1>1. D \in SUBSET Nat /\ D # {}
  OBVIOUS
<1>2. PICK k \in D : \A j \in D : k <= j
  BY <1>1, LeastNat
<1>3. QED
  BY <1>2 DEF LexLess

LEMMA LexLessTransitive ==
  ASSUME NEW A \in SUBSET Nat, NEW B \in SUBSET Nat, NEW C \in SUBSET Nat,
         LexLess(A, B), LexLess(B, C)
  PROVE  LexLess(A, C)
<1>1. PICK k \in A \ B : \A j \in (A \ B) \cup (B \ A) : k <= j
  BY DEF LexLess
<1>2. PICK l \in B \ C : \A j \in (B \ C) \cup (C \ B) : l <= j
  BY DEF LexLess
<1>3. k \in Nat /\ l \in Nat /\ k # l
  BY <1>1, <1>2
<1>4. CASE k < l
  <2>1. k \in A \ C
    BY <1>1, <1>2, <1>3, <1>4
  <2>2. \A j \in (A \ C) \cup (C \ A) : k <= j
    BY <1>1, <1>2, <1>3, <1>4
  <2>3. QED
    BY <2>1, <2>2 DEF LexLess
<1>5. CASE l < k
  <2>1. l \in A \ C
    BY <1>1, <1>2, <1>3, <1>5
  <2>2. \A j \in (A \ C) \cup (C \ A) : l <= j
    BY <1>1, <1>2, <1>3, <1>5
  <2>3. QED
    BY <2>1, <2>2 DEF LexLess
<1>6. QED
  BY <1>3, <1>4, <1>5

-----------------------------------------------------------------------------
(* A strict total order on a finite set lists it: the element of rank k,   *)
(* the number of elements below it, is the (k + 1)-st.                     *)

StrictOrder(X, R) ==
  /\ \A x \in X : <<x, x>> \notin R
  /\ \A x, y, z \in X : <<x, y>> \in R /\ <<y, z>> \in R => <<x, z>> \in R
  /\ \A x, y \in X : x = y \/ <<x, y>> \in R \/ <<y, x>> \in R

Below(X, R, x) == {y \in X : <<y, x>> \in R}

Listing(X, R) ==
  [i \in 1 .. Cardinality(X) |->
     CHOOSE x \in X : Cardinality(Below(X, R, x)) = i - 1]

LEMMA RankBounds ==
  ASSUME NEW X, IsFiniteSet(X), NEW R, StrictOrder(X, R), NEW x \in X
  PROVE  /\ IsFiniteSet(Below(X, R, x))
         /\ Cardinality(Below(X, R, x)) \in 0 .. Cardinality(X) - 1
<1>1. Below(X, R, x) \in SUBSET X /\ x \notin Below(X, R, x)
  BY DEF StrictOrder, Below
<1>2. /\ IsFiniteSet(Below(X, R, x))
      /\ Cardinality(Below(X, R, x)) <= Cardinality(X)
      /\ Cardinality(X) = Cardinality(Below(X, R, x)) => X = Below(X, R, x)
  BY <1>1, FS_Subset
<1>3. Cardinality(Below(X, R, x)) \in Nat /\ Cardinality(X) \in Nat
  BY <1>2, FS_CardinalityType
<1>4. QED
  BY <1>1, <1>2, <1>3

\* Ranks increase along the order.
LEMMA RankMonotone ==
  ASSUME NEW X, IsFiniteSet(X), NEW R, StrictOrder(X, R),
         NEW x \in X, NEW y \in X, <<x, y>> \in R
  PROVE  Cardinality(Below(X, R, x)) < Cardinality(Below(X, R, y))
<1>1. /\ Below(X, R, x) \in SUBSET Below(X, R, y)
      /\ x \in Below(X, R, y) /\ x \notin Below(X, R, x)
  BY DEF StrictOrder, Below
<1>2. /\ IsFiniteSet(Below(X, R, y))
      /\ Cardinality(Below(X, R, x)) \in Nat /\ Cardinality(Below(X, R, y)) \in Nat
  BY RankBounds
<1>3. /\ Cardinality(Below(X, R, x)) <= Cardinality(Below(X, R, y))
      /\ Cardinality(Below(X, R, y)) = Cardinality(Below(X, R, x))
           => Below(X, R, y) = Below(X, R, x)
  BY <1>1, <1>2, FS_Subset
<1>4. QED
  BY <1>1, <1>2, <1>3

\* Hence they fill 0 .. n - 1.
LEMMA RankOnto ==
  ASSUME NEW X, IsFiniteSet(X), NEW R, StrictOrder(X, R),
         NEW r \in 0 .. Cardinality(X) - 1
  PROVE  \E x \in X : Cardinality(Below(X, R, x)) = r
<1> DEFINE n == Cardinality(X)
           f == [x \in X |-> Cardinality(Below(X, R, x))]
<1>1. n \in Nat
  BY FS_CardinalityType
<1>2. f \in [X -> 0 .. n - 1]
  BY RankBounds
<1>3. \A x, y \in X : f[x] = f[y] => x = y
  <2>1. ASSUME NEW x \in X, NEW y \in X, <<x, y>> \in R
        PROVE  f[x] # f[y]
    BY <1>2, <2>1, RankMonotone
  <2>2. QED
    BY <2>1 DEF StrictOrder
<1>4. f \in Injection(X, 0 .. n - 1)
  BY <1>2, <1>3 DEF Injection, IsInjective
<1>5. IsFiniteSet(0 .. n - 1) /\ Cardinality(0 .. n - 1) = n
  <2>1. 0 \in Int /\ n - 1 \in Int
    BY <1>1
  <2> HIDE DEF n
  <2>2. IsFiniteSet(0 .. n - 1)
        /\ Cardinality(0 .. n - 1) = IF 0 > n - 1 THEN 0 ELSE n - 1 - 0 + 1
    BY <2>1, FS_Interval
  <2>3. QED
    BY <1>1, <2>2
<1>6. f \in Surjection(X, 0 .. n - 1)
  BY <1>4, <1>5, FS_Injection
<1>7. QED
  BY <1>6 DEF Surjection

\* A listing is a sequence of all elements in ascending order.
LEMMA ListingAscends ==
  ASSUME NEW X, IsFiniteSet(X), NEW R, StrictOrder(X, R)
  PROVE  /\ Cardinality(X) \in Nat
         /\ Listing(X, R) \in [1 .. Cardinality(X) -> X]
         /\ \A x \in X : \E i \in 1 .. Cardinality(X) : Listing(X, R)[i] = x
         /\ \A i, j \in 1 .. Cardinality(X) :
              i < j => <<Listing(X, R)[i], Listing(X, R)[j]>> \in R
<1> DEFINE n == Cardinality(X)
           rank(x) == Cardinality(Below(X, R, x))
           l == Listing(X, R)
<1>1. n \in Nat
  BY FS_CardinalityType
<1>2. \A x \in X : rank(x) \in 0 .. n - 1
  BY RankBounds
<1>3. \A x, y \in X : <<x, y>> \in R => rank(x) < rank(y)
  BY RankMonotone
<1>4. \A r \in 0 .. n - 1 : \E x \in X : rank(x) = r
  BY RankOnto
<1>5. \A i \in 1 .. n : i - 1 \in 0 .. n - 1
  BY <1>1
<1>6. l = [i \in 1 .. n |-> CHOOSE x \in X : rank(x) = i - 1]
  BY DEF Listing
<1> HIDE DEF n, rank, l
<1>7. ASSUME NEW i \in 1 .. n
      PROVE  l[i] \in X /\ rank(l[i]) = i - 1
  <2>1. \E x \in X : rank(x) = i - 1
    BY <1>4, <1>5
  <2>2. QED
    BY <1>6, <2>1
<1>8. l \in [1 .. n -> X]
  BY <1>6, <1>7
<1>9. \A x, y \in X : rank(x) = rank(y) => x = y
  <2>1. SUFFICES ASSUME NEW x \in X, NEW y \in X, rank(x) = rank(y), x # y
                 PROVE  FALSE
    OBVIOUS
  <2>2. rank(x) < rank(y) \/ rank(y) < rank(x)
    BY <1>3, <2>1 DEF StrictOrder
  <2>3. QED
    BY <1>1, <1>2, <2>1, <2>2
<1>10. ASSUME NEW x \in X
       PROVE  \E i \in 1 .. n : l[i] = x
  <2> DEFINE i == rank(x) + 1
  <2>1. i \in 1 .. n /\ i - 1 = rank(x)
    BY <1>1, <1>2
  <2> HIDE DEF i
  <2>2. l[i] \in X /\ rank(l[i]) = rank(x)
    BY <1>7, <2>1
  <2>3. QED
    BY <1>9, <2>1, <2>2
<1>11. ASSUME NEW i \in 1 .. n, NEW j \in 1 .. n, i < j
       PROVE  <<l[i], l[j]>> \in R
  <2>1. /\ l[i] \in X /\ l[j] \in X /\ rank(l[i]) = i - 1 /\ rank(l[j]) = j - 1
    BY <1>7
  <2>2. rank(l[i]) < rank(l[j])
    BY <1>1, <1>11, <2>1
  <2>3. l[i] # l[j] /\ <<l[j], l[i]>> \notin R
    <3>1. rank(l[i]) \in Int /\ rank(l[j]) \in Int
      BY <1>1, <1>2, <2>1
    <3>2. ~(rank(l[j]) < rank(l[i]))
      BY <2>2, <3>1
    <3>3. QED
      BY <1>3, <2>1, <2>2, <3>1, <3>2
  <2>4. QED
    BY <2>1, <2>3 DEF StrictOrder
<1>12. QED
  BY <1>1, <1>8, <1>10, <1>11 DEF n, l

-----------------------------------------------------------------------------
\* Vertices are naturals and there are finitely many of them.
LEMMA VertexFinite ==
  /\ Vertex \subseteq Nat
  /\ IsFiniteSet(Vertex)
  /\ IsFiniteSet(SUBSET Vertex)
<1>1. 0 \in Int /\ P - 1 \in Int
  BY PAssumption
<1>2. IsFiniteSet(Vertex)
  BY <1>1, FS_Interval DEF Vertex
<1>3. IsFiniteSet(SUBSET Vertex)
  BY <1>2, FS_SUBSET
<1>4. Vertex \subseteq Nat
  BY PAssumption DEF Vertex
<1>5. QED
  BY <1>2, <1>3, <1>4

\* The k-subsets of S, and their order.
LexOrder(S, k) == {p \in kSubset(k, S) \X kSubset(k, S) : LexLess(p[1], p[2])}

LEMMA CombinationsListed ==
  ASSUME NEW S \in SUBSET Vertex, NEW k \in Nat
  PROVE  /\ IsFiniteSet(kSubset(k, S)) /\ kSubset(k, S) \subseteq SUBSET Vertex
         /\ StrictOrder(kSubset(k, S), LexOrder(S, k))
         /\ EnumerateCombinations(S, k) = Listing(kSubset(k, S), LexOrder(S, k))
<1> DEFINE combos == kSubset(k, S)
           R == LexOrder(S, k)
<1>1. combos \subseteq SUBSET Vertex
  BY DEF kSubset
<1>2. IsFiniteSet(combos) /\ combos \subseteq SUBSET Nat
  BY <1>1, VertexFinite, FS_Subset
<1>3. \A A, B \in combos : <<A, B>> \in R <=> LexLess(A, B)
  BY DEF LexOrder
<1>4. EnumerateCombinations(S, k) =
        [i \in 1 .. Cardinality(combos) |->
           CHOOSE A \in combos : Cardinality({B \in combos : LexLess(B, A)}) = i - 1]
  BY DEF EnumerateCombinations
<1> HIDE DEF combos, R
<1>5. StrictOrder(combos, R)
  <2>1. \A A \in combos : ~LexLess(A, A)
    BY LexLessIrreflexive
  <2>2. \A A, B, C \in combos : LexLess(A, B) /\ LexLess(B, C) => LexLess(A, C)
    BY <1>2, LexLessTransitive
  <2>3. \A A, B \in combos : A = B \/ LexLess(A, B) \/ LexLess(B, A)
    BY <1>2, LexLessTotal
  <2>4. QED
    BY <1>3, <2>1, <2>2, <2>3 DEF StrictOrder
<1>6. \A A \in combos : {B \in combos : LexLess(B, A)} = Below(combos, R, A)
  BY <1>3 DEF Below
<1>7. EnumerateCombinations(S, k) = Listing(combos, R)
  BY <1>4, <1>6, Zenon DEF Listing
<1>8. QED
  BY <1>1, <1>2, <1>5, <1>7 DEF combos, R

\* enumerate_combinations yields k-subsets only.
LEMMA CombinationsType ==
  ASSUME NEW S \in SUBSET Vertex, NEW k \in Nat
  PROVE  /\ EnumerateCombinations(S, k) \in Seq(SUBSET Vertex)
         /\ \A i \in DOMAIN EnumerateCombinations(S, k) :
              EnumerateCombinations(S, k)[i] \in kSubset(k, S)
<1> DEFINE n == Cardinality(kSubset(k, S))
           c == EnumerateCombinations(S, k)
           X == kSubset(k, S)
           R == LexOrder(S, k)
<1>0. /\ IsFiniteSet(X) /\ StrictOrder(X, R) /\ c = Listing(X, R)
      /\ kSubset(k, S) \subseteq SUBSET Vertex
  BY CombinationsListed
<1>1. n \in Nat /\ c \in [1 .. n -> kSubset(k, S)]
  <2> HIDE DEF c, X, R
  <2>1. Cardinality(X) \in Nat /\ c \in [1 .. Cardinality(X) -> X]
    BY <1>0, ListingAscends
  <2>2. QED
    BY <2>1 DEF X
<1> HIDE DEF c, n
<1>2. c \in Seq(kSubset(k, S)) /\ DOMAIN c = 1 .. n
  BY <1>1
<1>3. c \in Seq(SUBSET Vertex) /\ \A i \in DOMAIN c : c[i] \in kSubset(k, S)
  BY <1>0, <1>1, <1>2
<1>4. QED
  BY <1>3 DEF c

\* enumerate_combinations visits every k-subset, each once, in the order of
\* ascending vectors.
THEOREM CombinationsInOrder ==
  ASSUME NEW S \in SUBSET Vertex, NEW k \in Nat
  PROVE  /\ \A A \in kSubset(k, S) :
              \E i \in DOMAIN EnumerateCombinations(S, k) :
                EnumerateCombinations(S, k)[i] = A
         /\ \A i, j \in DOMAIN EnumerateCombinations(S, k) :
              i < j => LexLess(EnumerateCombinations(S, k)[i],
                               EnumerateCombinations(S, k)[j])
<1> DEFINE n == Cardinality(kSubset(k, S))
           c == EnumerateCombinations(S, k)
           X == kSubset(k, S)
           R == LexOrder(S, k)
<1>0. IsFiniteSet(X) /\ StrictOrder(X, R) /\ c = Listing(X, R)
  BY CombinationsListed
<1>1. /\ c \in [1 .. n -> kSubset(k, S)]
      /\ \A A \in kSubset(k, S) : \E i \in 1 .. n : c[i] = A
      /\ \A i, j \in 1 .. n : i < j => <<c[i], c[j]>> \in LexOrder(S, k)
  <2> HIDE DEF c, X, R
  <2>1. /\ c \in [1 .. Cardinality(X) -> X]
        /\ \A A \in X : \E i \in 1 .. Cardinality(X) : c[i] = A
        /\ \A i, j \in 1 .. Cardinality(X) : i < j => <<c[i], c[j]>> \in R
    BY <1>0, ListingAscends
  <2>2. QED
    BY <2>1 DEF X, R
<1> HIDE DEF c, n
<1>2. DOMAIN c = 1 .. n
  BY <1>1
<1>3. QED
  BY <1>1, <1>2 DEF LexOrder, c

LEMMA DirectionTasksType ==
  ASSUME NEW adj, NEW level \in Nat, NEW x \in Vertex, NEW y \in Vertex
  PROVE  DirectionTasks(adj, level, x, y) \in Seq(Task)
<1> DEFINE nbrs == NeighborsFromSnapshot(adj, x, y)
           combos == EnumerateCombinations(nbrs, level)
<1>1. nbrs \in SUBSET Vertex
  BY DEF NeighborsFromSnapshot
<1>2. combos \in Seq(SUBSET Vertex)
  BY <1>1, CombinationsType
<1>3. DirectionTasks(adj, level, x, y) =
        [i \in DOMAIN combos |->
           [x |-> x, y |-> y, S |-> combos[i],
            opens |-> OpensNextLevel(nbrs, level, i)]]
  BY DEF DirectionTasks
<1> HIDE DEF combos, nbrs
<1>4. \A i \in DOMAIN combos :
        [x |-> x, y |-> y, S |-> combos[i],
         opens |-> OpensNextLevel(nbrs, level, i)] \in Task
  <2>1. \A i \in DOMAIN combos : OpensNextLevel(nbrs, level, i) \in BOOLEAN
    BY Zenon DEF OpensNextLevel
  <2>2. QED
    BY <1>2, <2>1 DEF Task
<1>5. QED
  BY <1>2, <1>3, <1>4

\* A plan maps every edge to a sequence of well-typed tasks.
LEMMA PlanType ==
  ASSUME NEW adj, NEW level \in Nat
  PROVE  MakeLayerPlan(adj, level) \in [Edge -> Seq(Task)]
<1>1. ASSUME NEW e \in Edge
      PROVE  EdgeTasks(adj, level, e) \in Seq(Task)
  <2>1. e[1] \in Vertex /\ e[2] \in Vertex
    BY DEF Edge, Cell
  <2>2. /\ DirectionTasks(adj, level, e[1], e[2]) \in Seq(Task)
        /\ DirectionTasks(adj, level, e[2], e[1]) \in Seq(Task)
    BY <2>1, DirectionTasksType
  <2>3. QED
    BY <2>2 DEF EdgeTasks
<1>2. QED
  BY <1>1 DEF MakeLayerPlan

-----------------------------------------------------------------------------
(* A plan's tasks, and the flat list of them.                              *)

LEMMA EdgesFinite == IsFiniteSet(Edge) /\ IsFiniteSet(Cell)
<1>1. IsFiniteSet(Cell)
  BY VertexFinite, FS_Product DEF Cell
<1>2. Edge \subseteq Cell
  BY DEF Edge
<1>3. QED
  BY <1>1, <1>2, FS_Subset

\* A plan has finitely many tasks.
LEMMA TasksFinite ==
  ASSUME NEW pl \in [Edge -> Seq(Task)]
  PROVE  IsFiniteSet(TaskIds(pl))
<1> DEFINE block(e) == {e} \X DOMAIN pl[e]
<1>1. ASSUME NEW e \in Edge
      PROVE  IsFiniteSet(block(e))
  <2>1. IsFiniteSet({e})
    BY FS_Singleton
  <2>2. DOMAIN pl[e] = 1 .. Len(pl[e]) /\ Len(pl[e]) \in Int /\ 1 \in Int
    OBVIOUS
  <2>3. IsFiniteSet(DOMAIN pl[e])
    BY <2>2, FS_Interval
  <2>4. QED
    BY <2>1, <2>3, FS_Product
<1>2. IsFiniteSet({block(e) : e \in Edge})
  <2> DEFINE B == {block(e) : e \in Edge}
             f == [e \in Edge |-> block(e)]
  <2>1. f \in Surjection(Edge, B)
    BY Zenon DEF Surjection
  <2> HIDE DEF B, f
  <2>2. IsFiniteSet(B)
    BY <2>1, EdgesFinite, FS_Surjection
  <2>3. QED
    BY <2>2 DEF B
<1>3. \A B \in {block(e) : e \in Edge} : IsFiniteSet(B)
  BY <1>1
<1>4. IsFiniteSet(UNION {block(e) : e \in Edge})
  BY <1>2, <1>3, FS_UNION
<1>5. QED
  BY <1>4 DEF TaskIds

LEMMA TaskIdsElements ==
  ASSUME NEW pl
  PROVE  \A e \in Edge : \A i : <<e, i>> \in TaskIds(pl) <=> i \in DOMAIN pl[e]
BY DEF TaskIds

LEMMA TaskIdsShape ==
  ASSUME NEW pl, NEW t \in TaskIds(pl)
  PROVE  t = <<t[1], t[2]>> /\ t[1] \in Edge /\ t[2] \in DOMAIN pl[t[1]]
BY DEF TaskIds

\* TaskLess is a strict total order: the edge key decides, and two edges have
\* different keys.
TaskOrder(pl) == {p \in TaskIds(pl) \X TaskIds(pl) : TaskLess(p[1], p[2])}

LEMMA EdgeKey ==
  ASSUME NEW d \in Edge, NEW e \in Edge
  PROVE  /\ d[1] * P + d[2] \in Int
         /\ d[1] * P + d[2] = e[1] * P + e[2] => d = e
<1>1. /\ d = <<d[1], d[2]>> /\ d[1] \in Int /\ d[2] \in Int /\ 0 <= d[2] /\ d[2] < P
      /\ e = <<e[1], e[2]>> /\ e[1] \in Int /\ e[2] \in Int /\ 0 <= e[2] /\ e[2] < P
      /\ P \in Int /\ P > 0
  BY PAssumption DEF Edge, Cell, Vertex
<1>2. \A a, b, u, v \in Int :
        0 <= u /\ u < P /\ 0 <= v /\ v < P /\ a < b => a * P + u < b * P + v
  <2>1. SUFFICES ASSUME NEW a \in Int, NEW b \in Int, NEW u \in Int, NEW v \in Int,
                        u < P, 0 <= v, a < b
                 PROVE  a * P + u < b * P + v
    OBVIOUS
  <2>2. (b - a - 1) * P >= 0
    BY <1>1, <2>1
  <2>3. b * P = (b - a - 1) * P + a * P + P
    BY <1>1, <2>1
  <2>4. a * P \in Int /\ b * P \in Int /\ (b - a - 1) * P \in Int
    BY <1>1, <2>1
  <2>5. QED
    BY <1>1, <2>1, <2>2, <2>3, <2>4
<1>3. \A a, b, u, v \in Int :
        0 <= u /\ u < P /\ 0 <= v /\ v < P /\ a * P + u = b * P + v
          => a = b /\ u = v
  <2>1. SUFFICES ASSUME NEW a \in Int, NEW b \in Int, NEW u \in Int, NEW v \in Int,
                        0 <= u, u < P, 0 <= v, v < P, a * P + u = b * P + v
                 PROVE  a = b /\ u = v
    OBVIOUS
  <2> DEFINE m == a * P
             n == b * P
  <2>2. m \in Int /\ n \in Int
    BY <1>1, <2>1
  <2>3. (a < b => m + u < n + v) /\ (b < a => n + v < m + u)
    BY <1>2, <2>1
  <2>4. (a = b => m = n) /\ m + u = n + v
    BY <2>1
  <2> HIDE DEF m, n
  <2>5. a = b
    <3>1. m + u \in Int /\ n + v \in Int
      BY <2>1, <2>2
    <3>2. ~(a < b) /\ ~(b < a)
      BY <2>3, <2>4, <3>1
    <3>3. QED
      BY <2>1, <3>2
  <2>6. QED
    BY <2>1, <2>2, <2>4, <2>5
<1>4. d[1] * P + d[2] \in Int
  BY <1>1
<1>5. d[1] * P + d[2] = e[1] * P + e[2] => d[1] = e[1] /\ d[2] = e[2]
  BY <1>1, <1>3
<1>6. QED
  BY <1>1, <1>4, <1>5

LEMMA TasksListed ==
  ASSUME NEW pl \in [Edge -> Seq(Task)]
  PROVE  /\ StrictOrder(TaskIds(pl), TaskOrder(pl))
         /\ TaskList(pl) = Listing(TaskIds(pl), TaskOrder(pl))
<1> DEFINE X == TaskIds(pl)
           R == TaskOrder(pl)
           key(t) == t[1][1] * P + t[1][2]
<1>1. \A s, t \in X : <<s, t>> \in R <=> TaskLess(s, t)
  BY DEF TaskOrder
<1>2. \A t \in X : t = <<t[1], t[2]>> /\ t[1] \in Edge /\ t[2] \in Int
  BY TaskIdsShape
<1>3. \A s, t \in X : key(s) \in Int /\ (key(s) = key(t) => s[1] = t[1])
  BY <1>2, EdgeKey
<1>4. \A s, t : TaskLess(s, t) <=> key(s) < key(t) \/ (key(s) = key(t) /\ s[2] < t[2])
  BY DEF TaskLess
<1>5. TaskList(pl) =
        [k \in 1 .. Cardinality(X) |->
           CHOOSE t \in X : Cardinality({s \in X : TaskLess(s, t)}) = k - 1]
  BY DEF TaskList
<1> HIDE DEF X, R, key
<1>6. StrictOrder(X, R)
  <2>1. \A t \in X : ~TaskLess(t, t)
    BY <1>2, <1>3, <1>4
  <2>2. \A s, t, u \in X : TaskLess(s, t) /\ TaskLess(t, u) => TaskLess(s, u)
    BY <1>2, <1>3, <1>4
  <2>3. \A s, t \in X : s = t \/ TaskLess(s, t) \/ TaskLess(t, s)
    BY <1>2, <1>3, <1>4
  <2>4. QED
    BY <1>1, <2>1, <2>2, <2>3 DEF StrictOrder
<1>7. \A t \in X : {s \in X : TaskLess(s, t)} = Below(X, R, t)
  BY <1>1 DEF Below
<1>8. TaskList(pl) = Listing(X, R)
  BY <1>5, <1>7, Zenon DEF Listing
<1>9. QED
  BY <1>6, <1>8 DEF X, R

\* plan.tasks lists every task of the plan once, and the tasks of one edge in
\* the order of its list.
THEOREM TaskListInOrder ==
  ASSUME NEW pl \in [Edge -> Seq(Task)]
  PROVE  /\ Len(TaskList(pl)) \in Nat
         /\ TaskList(pl) \in [1 .. Len(TaskList(pl)) -> TaskIds(pl)]
         /\ \A t \in TaskIds(pl) :
              \E k \in 1 .. Len(TaskList(pl)) : TaskList(pl)[k] = t
         /\ \A j, k \in 1 .. Len(TaskList(pl)) :
              TaskList(pl)[j] = TaskList(pl)[k] => j = k
         /\ \A e \in Edge : \A j, k \in 1 .. Len(TaskList(pl)) :
              /\ TaskList(pl)[j][1] = e /\ TaskList(pl)[k][1] = e
              /\ TaskList(pl)[j][2] < TaskList(pl)[k][2]
              => j < k
<1> DEFINE X == TaskIds(pl)
           R == TaskOrder(pl)
           l == TaskList(pl)
           n == Cardinality(X)
<1>1. IsFiniteSet(X) /\ StrictOrder(X, R) /\ l = Listing(X, R)
  BY TasksFinite, TasksListed
<1>2. \A s, t \in X : <<s, t>> \in R <=> TaskLess(s, t)
  BY DEF TaskOrder
<1>3. \A t \in X : t[1] \in Edge /\ t[2] \in Int
  BY TaskIdsShape
<1> HIDE DEF X, R, l, n
<1>4. /\ n \in Nat /\ l \in [1 .. n -> X]
      /\ \A t \in X : \E i \in 1 .. n : l[i] = t
      /\ \A i, j \in 1 .. n : i < j => <<l[i], l[j]>> \in R
  BY <1>1, ListingAscends DEF n
<1>5. Len(l) = n
  BY <1>4
<1>6. \A j, k \in 1 .. n : l[j] = l[k] => j = k
  <2>1. SUFFICES ASSUME NEW j \in 1 .. n, NEW k \in 1 .. n, l[j] = l[k], j < k
                 PROVE  FALSE
    <3>1. \A j, k \in 1 .. n : j = k \/ j < k \/ k < j
      BY <1>4
    <3>2. QED
      BY <3>1
  <2>2. <<l[j], l[j]>> \in R /\ l[j] \in X
    BY <1>4, <2>1
  <2>3. QED
    BY <1>1, <2>2 DEF StrictOrder
<1>7. ASSUME NEW j \in 1 .. n, NEW k \in 1 .. n, l[j][1] = l[k][1], l[j][2] < l[k][2]
      PROVE  j < k
  <2>1. l[j] \in X /\ l[k] \in X
    BY <1>4
  <2>2. ~TaskLess(l[k], l[j])
    <3>1. l[j][2] \in Int /\ l[k][2] \in Int /\ l[j][1] \in Edge
      BY <1>3, <2>1
    <3>2. l[j][1][1] * P + l[j][1][2] \in Int
      BY <3>1, EdgeKey
    <3>3. QED
      BY <1>7, <3>1, <3>2 DEF TaskLess
  <2>3. ~(k < j)
    BY <1>2, <1>4, <2>1, <2>2
  <2>4. j # k
    BY <1>3, <1>7, <2>1
  <2>5. QED
    BY <1>4, <2>3, <2>4
<1>8. QED
  BY <1>4, <1>5, <1>6, <1>7 DEF X, l

-----------------------------------------------------------------------------
(* pcalg_task_less is a strict order along which every edge's list ascends. *)

LEMMA PcalgOrder ==
  /\ \A s \in Task : ~PcalgTaskLess(s, s)
  /\ \A s, t, u \in Task :
       PcalgTaskLess(s, t) /\ PcalgTaskLess(t, u) => PcalgTaskLess(s, u)
<1>1. \A s \in Task : s.x \in Nat /\ s.y \in Nat /\ s.S \in SUBSET Nat
  BY VertexFinite DEF Task
<1>2. \A s \in Task : ~PcalgTaskLess(s, s)
  BY <1>1, LexLessIrreflexive DEF PcalgTaskLess
<1>3. ASSUME NEW s \in Task, NEW t \in Task, NEW u \in Task,
             PcalgTaskLess(s, t), PcalgTaskLess(t, u)
      PROVE  PcalgTaskLess(s, u)
  <2>1. LexLess(s.S, t.S) /\ LexLess(t.S, u.S) => LexLess(s.S, u.S)
    BY <1>1, LexLessTransitive
  <2>2. QED
    BY <1>1, <1>3, <2>1 DEF PcalgTaskLess
<1>4. QED
  BY <1>2, <1>3

LEMMA DirectionAscends ==
  ASSUME NEW adj, NEW level \in Nat, NEW x \in Vertex, NEW y \in Vertex
  PROVE  /\ \A i \in DOMAIN DirectionTasks(adj, level, x, y) :
              /\ DirectionTasks(adj, level, x, y)[i].x = x
              /\ DirectionTasks(adj, level, x, y)[i].y = y
         /\ \A i, j \in DOMAIN DirectionTasks(adj, level, x, y) :
              i < j => PcalgTaskLess(DirectionTasks(adj, level, x, y)[i],
                                     DirectionTasks(adj, level, x, y)[j])
<1> DEFINE nbrs == NeighborsFromSnapshot(adj, x, y)
           c == EnumerateCombinations(nbrs, level)
           d == DirectionTasks(adj, level, x, y)
<1>1. nbrs \in SUBSET Vertex
  BY DEF NeighborsFromSnapshot
<1>2. /\ DOMAIN d = DOMAIN c
      /\ \A i \in DOMAIN c : d[i].x = x /\ d[i].y = y /\ d[i].S = c[i]
  BY DEF DirectionTasks
<1>3. \A i, j \in DOMAIN c : i < j => LexLess(c[i], c[j])
  BY <1>1, CombinationsInOrder
<1> HIDE DEF c, d
<1>4. QED
  BY <1>2, <1>3 DEF PcalgTaskLess, d

LEMMA PlanAscends ==
  ASSUME NEW adj, NEW level \in Nat, NEW e \in Edge,
         NEW i \in DOMAIN MakeLayerPlan(adj, level)[e],
         NEW j \in DOMAIN MakeLayerPlan(adj, level)[e], i < j
  PROVE  PcalgTaskLess(MakeLayerPlan(adj, level)[e][i],
                       MakeLayerPlan(adj, level)[e][j])
<1> DEFINE F == DirectionTasks(adj, level, e[1], e[2])
           R == DirectionTasks(adj, level, e[2], e[1])
<1>1. e[1] \in Vertex /\ e[2] \in Vertex /\ e[1] < e[2]
  BY DEF Edge, Cell
<1>2. MakeLayerPlan(adj, level)[e] = IF e \in adj THEN F \o R ELSE << >>
  BY DEF MakeLayerPlan, EdgeTasks
<1>3. e \in adj
  BY <1>2
<1>4. F \in Seq(Task) /\ R \in Seq(Task)
  BY <1>1, DirectionTasksType
<1>5. /\ \A a \in DOMAIN F : F[a].x = e[1] /\ F[a].y = e[2]
      /\ \A a, b \in DOMAIN F : a < b => PcalgTaskLess(F[a], F[b])
      /\ \A a \in DOMAIN R : R[a].x = e[2] /\ R[a].y = e[1]
      /\ \A a, b \in DOMAIN R : a < b => PcalgTaskLess(R[a], R[b])
  <2>1. \A x, y \in Vertex :
          /\ \A a \in DOMAIN DirectionTasks(adj, level, x, y) :
               /\ DirectionTasks(adj, level, x, y)[a].x = x
               /\ DirectionTasks(adj, level, x, y)[a].y = y
          /\ \A a, b \in DOMAIN DirectionTasks(adj, level, x, y) :
               a < b => PcalgTaskLess(DirectionTasks(adj, level, x, y)[a],
                                      DirectionTasks(adj, level, x, y)[b])
    BY DirectionAscends
  <2>2. QED
    BY <1>1, <2>1
<1> DEFINE n == Len(F)
<1> HIDE DEF F, R
<1>6. /\ n \in Nat /\ DOMAIN F = 1 .. n /\ DOMAIN R = 1 .. Len(R) /\ Len(R) \in Nat
      /\ DOMAIN (F \o R) = 1 .. n + Len(R)
      /\ \A a \in DOMAIN (F \o R) : (F \o R)[a] = IF a <= n THEN F[a] ELSE R[a - n]
  BY <1>4
<1>7. i \in DOMAIN (F \o R) /\ j \in DOMAIN (F \o R)
  BY <1>2, <1>3
<1>8. i \in Int /\ j \in Int /\ 1 <= i /\ i < j /\ j <= n + Len(R)
  BY <1>6, <1>7
<1> HIDE DEF n
<1>9. PcalgTaskLess((F \o R)[i], (F \o R)[j])
  <2>1. CASE j <= n
    <3>1. i \in DOMAIN F /\ j \in DOMAIN F /\ (F \o R)[i] = F[i] /\ (F \o R)[j] = F[j]
      BY <1>6, <1>7, <1>8, <2>1
    <3>2. QED
      BY <1>5, <1>8, <3>1
  <2>2. CASE i <= n /\ n < j
    <3>1. i \in DOMAIN F /\ j - n \in DOMAIN R
          /\ (F \o R)[i] = F[i] /\ (F \o R)[j] = R[j - n]
      BY <1>6, <1>7, <1>8, <2>2
    <3>2. QED
      BY <1>1, <1>5, <3>1 DEF PcalgTaskLess
  <2>3. CASE n < i
    <3>1. i - n \in DOMAIN R /\ j - n \in DOMAIN R /\ i - n < j - n
          /\ (F \o R)[i] = R[i - n] /\ (F \o R)[j] = R[j - n]
      BY <1>6, <1>7, <1>8, <2>3
    <3>2. QED
      BY <1>5, <3>1
  <2>4. QED
    BY <1>6, <1>8, <2>1, <2>2, <2>3
<1>10. QED
  BY <1>2, <1>3, <1>9

=============================================================================
