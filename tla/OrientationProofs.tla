------------------------- MODULE OrientationProofs -------------------------
(***************************************************************************)
(* The orientation phase for every number of variables, every skeleton and *)
(* every regression verdict: the collider scan gives the graph the         *)
(* collider rule defines, the search always sees one consistent graph, and *)
(* no arrow is undone.                                                     *)
(***************************************************************************)
EXTENDS WanPdag, LayerPlanProofs

-----------------------------------------------------------------------------
(* Recurrences.                                                            *)

\* A set that holds 0 and every successor of its members below n holds 0 .. n.
LEMMA UpTo ==
  ASSUME NEW n \in Nat, NEW T, 0 \in T, \A k \in 0 .. n - 1 : k \in T => k + 1 \in T
  PROVE  0 .. n \subseteq T
<1> DEFINE missed == {k \in 0 .. n : k \notin T}
<1>1. SUFFICES ASSUME missed # {} PROVE FALSE
  OBVIOUS
<1>2. missed \in SUBSET Nat
  OBVIOUS
<1>3. PICK k \in missed : \A j \in missed : k <= j
  <2> HIDE DEF missed
  <2>1. QED
    BY <1>1, <1>2, LeastNat
<1>4. k \in 0 .. n /\ k \notin T /\ k # 0
  OBVIOUS
<1>5. k - 1 \in 0 .. n - 1 /\ k - 1 \notin missed
  BY <1>3, <1>4
<1>6. k - 1 \in T
  BY <1>5
<1>7. k - 1 + 1 \in T
  BY <1>5, <1>6
<1>8. QED
  BY <1>4, <1>7

\* f starts at x0 and goes on with next[k] for k < n.
Runs(f, x0, n, next) == f[0] = x0 /\ \A k \in 0 .. n - 1 : f[k + 1] = next[k][f[k]]

\* Such a function exists when the steps stay within X.
LEMMA Recurrence ==
  ASSUME NEW X, NEW x0 \in X, NEW n \in Nat, NEW next,
         \A k \in 0 .. n - 1 : \A x \in X : next[k][x] \in X
  PROVE  \E f \in [0 .. n -> X] : Runs(f, x0, n, next)
<1> DEFINE T == {m \in 0 .. n : \E f \in [0 .. m -> X] : Runs(f, x0, m, next)}
<1>1. 0 \in T
  <2> DEFINE f == [k \in 0 .. 0 |-> x0]
  <2>1. f \in [0 .. 0 -> X] /\ Runs(f, x0, 0, next)
    BY DEF Runs
  <2> HIDE DEF f
  <2>2. QED
    BY <2>1
<1>2. ASSUME NEW k \in 0 .. n - 1, k \in T
      PROVE  k + 1 \in T
  <2>1. PICK f \in [0 .. k -> X] : Runs(f, x0, k, next)
    BY <1>2
  <2> DEFINE h == [j \in 0 .. k + 1 |-> IF j <= k THEN f[j] ELSE next[k][f[k]]]
  <2>2. f[k] \in X /\ next[k][f[k]] \in X
    OBVIOUS
  <2>3. h \in [0 .. k + 1 -> X]
    BY <2>2
  <2>4. h[0] = x0
    BY <2>1 DEF Runs
  <2>5. ASSUME NEW j \in 0 .. (k + 1) - 1
        PROVE  h[j + 1] = next[j][h[j]]
    <3>1. CASE j = k
      BY <3>1
    <3>2. CASE j # k
      <4>1. j \in 0 .. k - 1
        BY <3>2
      <4>2. h[j + 1] = f[j + 1] /\ h[j] = f[j]
        BY <4>1
      <4>3. f[j + 1] = next[j][f[j]]
        BY <4>1, <2>1 DEF Runs
      <4>4. QED
        BY <4>2, <4>3
    <3>3. QED
      BY <3>1, <3>2
  <2>6. Runs(h, x0, k + 1, next)
    BY <2>4, <2>5 DEF Runs
  <2> HIDE DEF h
  <2>7. QED
    BY <2>3, <2>6
<1>3. n \in T
  <2> HIDE DEF T
  <2>1. 0 .. n \subseteq T
    BY <1>1, <1>2, UpTo
  <2>2. QED
    BY <2>1
<1>4. QED
  BY <1>3

-----------------------------------------------------------------------------
(* Loops over the vertices.                                                *)

Transforms(edit, X) == \A v \in Vertex : \A h \in X : edit[v][h] \in X

\* f is what the matrix g goes through in Loop(edit).
Trace(f, edit, g) ==
  f[0] = g /\ f[P] = Loop(edit)[g] /\ \A v \in Vertex : f[v + 1] = edit[v][f[v]]

LEMMA LoopTrace ==
  ASSUME NEW X \in SUBSET Pdag, NEW edit, Transforms(edit, X), NEW g \in X
  PROVE  \E f \in [0 .. P -> X] : Trace(f, edit, g)
<1> DEFINE Holds(a) == a = [k \in 0 .. P |-> IF k = 0 THEN g ELSE edit[k - 1][a[k - 1]]]
           after == CHOOSE a : Holds(a)
<1>1. \E f \in [0 .. P -> X] : Runs(f, g, P, edit)
  <2>1. \A k \in 0 .. P - 1 : \A x \in X : edit[k][x] \in X
    BY DEF Transforms, Vertex
  <2>2. P \in Nat
    BY PAssumption
  <2>3. QED
    BY <2>1, <2>2, Recurrence
<1>2. PICK f \in [0 .. P -> X] : Runs(f, g, P, edit)
  BY <1>1
<1>3. Holds(f)
  <2>1. ASSUME NEW k \in 0 .. P
        PROVE  f[k] = IF k = 0 THEN g ELSE edit[k - 1][f[k - 1]]
    <3>1. CASE k = 0
      BY <3>1, <1>2 DEF Runs
    <3>2. CASE k # 0
      <4>1. k - 1 \in 0 .. P - 1 /\ (k - 1) + 1 = k
        BY <3>2, PAssumption
      <4>2. f[(k - 1) + 1] = edit[k - 1][f[k - 1]]
        BY <4>1, <1>2 DEF Runs
      <4>3. QED
        BY <3>2, <4>1, <4>2
    <3>3. QED
      BY <3>1, <3>2
  <2>2. QED
    BY <2>1
<1>4. Holds(after)
  BY <1>3
<1>5. Loop(edit)[g] = after[P]
  BY DEF Loop
<1>6. after = [k \in 0 .. P |-> IF k = 0 THEN g ELSE edit[k - 1][after[k - 1]]]
  BY <1>4
<1> HIDE DEF after
<1>7. after[0] = g
  BY <1>6, PAssumption
<1>8. \A v \in Vertex : after[v + 1] = edit[v][after[v]]
  <2>1. SUFFICES ASSUME NEW v \in Vertex PROVE after[v + 1] = edit[v][after[v]]
    OBVIOUS
  <2>2. v + 1 \in 0 .. P /\ v + 1 # 0 /\ (v + 1) - 1 = v
    BY PAssumption DEF Vertex
  <2>3. QED
    BY <1>6, <2>2
<1>9. \A k \in 0 .. P : after[k] \in X
  <2> DEFINE T == {k \in 0 .. P : after[k] \in X}
  <2>1. 0 \in T
    BY <1>7, PAssumption
  <2>2. \A k \in 0 .. P - 1 : k \in T => k + 1 \in T
    BY <1>8, PAssumption DEF Transforms, Vertex
  <2>3. P \in Nat
    BY PAssumption
  <2>4. 0 .. P \subseteq T
    <3> HIDE DEF T
    <3>1. QED
      BY <2>1, <2>2, <2>3, UpTo
  <2>5. QED
    BY <2>4
<1>10. after \in [0 .. P -> X]
  BY <1>6, <1>9
<1>11. Trace(after, edit, g)
  BY <1>5, <1>7, <1>8 DEF Trace
<1>12. QED
  BY <1>10, <1>11

\* A loop reaches whatever its steps lead to.
LEMMA LoopReaches ==
  ASSUME NEW edit, Transforms(edit, Pdag), NEW M \in [0 .. P -> Pdag],
         \A v \in Vertex : edit[v][M[v]] = M[v + 1]
  PROVE  Loop(edit)[M[0]] = M[P]
<1>1. P \in Nat /\ 0 \in 0 .. P /\ P \in 0 .. P
  BY PAssumption
<1>2. M[0] \in Pdag
  BY <1>1
<1>3. PICK f \in [0 .. P -> Pdag] : Trace(f, edit, M[0])
  BY <1>2, LoopTrace
<1> DEFINE T == {k \in 0 .. P : f[k] = M[k]}
<1>4. 0 \in T
  BY <1>1, <1>3 DEF Trace
<1>5. \A k \in 0 .. P - 1 : k \in T => k + 1 \in T
  <2>1. SUFFICES ASSUME NEW k \in 0 .. P - 1, f[k] = M[k] PROVE k + 1 \in T
    OBVIOUS
  <2>2. k \in Vertex /\ k + 1 \in 0 .. P
    BY <1>1 DEF Vertex
  <2>3. f[k + 1] = edit[k][f[k]] /\ edit[k][M[k]] = M[k + 1]
    BY <2>2, <1>3 DEF Trace
  <2>4. QED
    BY <2>1, <2>2, <2>3
<1>6. 0 .. P \subseteq T
  <2> HIDE DEF T
  <2>1. QED
    BY <1>1, <1>4, <1>5, UpTo
<1>7. f[P] = M[P]
  BY <1>1, <1>6
<1>8. QED
  BY <1>3, <1>7 DEF Trace

-----------------------------------------------------------------------------
(* Steps that only turn undirected edges into arrows.                      *)

Orients(g, h) ==
  /\ g \in Pdag /\ h \in Pdag
  /\ \A a \in Vertex : h[<<a, a>>] = g[<<a, a>>]
  /\ \A a, b \in Vertex : a # b =>
       \/ h[<<a, b>>] = g[<<a, b>>] /\ h[<<b, a>>] = g[<<b, a>>]
       \/ Undirected(g, a, b) /\ (Directed(h, a, b) \/ Directed(h, b, a))

OnlyOrients(edit) == \A v \in Vertex : \A h \in Pdag : Orients(h, edit[v][h])

LEMMA OrientsReflexive ==
  ASSUME NEW g \in Pdag
  PROVE  Orients(g, g)
BY DEF Orients

LEMMA OrientsTransitive ==
  ASSUME NEW g, NEW h, NEW k, Orients(g, h), Orients(h, k)
  PROVE  Orients(g, k)
<1>1. g \in Pdag /\ k \in Pdag /\ \A a \in Vertex : k[<<a, a>>] = g[<<a, a>>]
  BY DEF Orients
<1>2. ASSUME NEW a \in Vertex, NEW b \in Vertex, a # b
      PROVE  \/ k[<<a, b>>] = g[<<a, b>>] /\ k[<<b, a>>] = g[<<b, a>>]
             \/ Undirected(g, a, b) /\ (Directed(k, a, b) \/ Directed(k, b, a))
  <2>1. \/ h[<<a, b>>] = g[<<a, b>>] /\ h[<<b, a>>] = g[<<b, a>>]
        \/ Undirected(g, a, b) /\ (Directed(h, a, b) \/ Directed(h, b, a))
    BY <1>2 DEF Orients
  <2>2. \/ k[<<a, b>>] = h[<<a, b>>] /\ k[<<b, a>>] = h[<<b, a>>]
        \/ Undirected(h, a, b) /\ (Directed(k, a, b) \/ Directed(k, b, a))
    BY <1>2 DEF Orients
  <2>3. QED
    BY <2>1, <2>2 DEF Undirected, Directed
<1>3. QED
  BY <1>1, <1>2 DEF Orients

LEMMA OrientsAntisymmetric ==
  ASSUME NEW g, NEW h, Orients(g, h), Orients(h, g)
  PROVE  g = h
<1>1. g \in Pdag /\ h \in Pdag
  BY DEF Orients
<1>2. ASSUME NEW a \in Vertex, NEW b \in Vertex
      PROVE  g[<<a, b>>] = h[<<a, b>>]
  <2>1. CASE a = b
    BY <2>1 DEF Orients
  <2>2. CASE a # b
    <3>1. \/ h[<<a, b>>] = g[<<a, b>>] /\ h[<<b, a>>] = g[<<b, a>>]
          \/ Undirected(g, a, b) /\ (Directed(h, a, b) \/ Directed(h, b, a))
      BY <2>2 DEF Orients
    <3>2. \/ g[<<a, b>>] = h[<<a, b>>] /\ g[<<b, a>>] = h[<<b, a>>]
          \/ Undirected(h, a, b) /\ (Directed(g, a, b) \/ Directed(g, b, a))
      BY <2>2 DEF Orients
    <3>3. QED
      BY <3>1, <3>2 DEF Undirected, Directed
  <2>3. QED
    BY <2>1, <2>2
<1>3. \A e \in Vertex \X Vertex : g[e] = h[e]
  BY <1>2
<1>4. QED
  BY <1>1, <1>3 DEF Pdag

LEMMA OnlyOrientsTransforms ==
  ASSUME NEW edit, OnlyOrients(edit)
  PROVE  Transforms(edit, Pdag)
BY DEF OnlyOrients, Transforms, Orients

LEMMA LoopOrients ==
  ASSUME NEW edit, OnlyOrients(edit), NEW g \in Pdag
  PROVE  Orients(g, Loop(edit)[g])
<1>1. P \in Nat /\ 0 \in 0 .. P /\ P \in 0 .. P
  BY PAssumption
<1>2. PICK f \in [0 .. P -> Pdag] : Trace(f, edit, g)
  BY OnlyOrientsTransforms, LoopTrace
<1> DEFINE T == {k \in 0 .. P : Orients(g, f[k])}
<1>3. 0 \in T
  BY <1>1, <1>2, OrientsReflexive DEF Trace
<1>4. \A k \in 0 .. P - 1 : k \in T => k + 1 \in T
  <2>1. SUFFICES ASSUME NEW k \in 0 .. P - 1, Orients(g, f[k]) PROVE k + 1 \in T
    OBVIOUS
  <2>2. k \in Vertex /\ k \in 0 .. P /\ k + 1 \in 0 .. P
    BY <1>1 DEF Vertex
  <2>3. Orients(f[k], f[k + 1])
    BY <2>2, <1>2 DEF Trace, OnlyOrients
  <2>4. Orients(g, f[k + 1])
    BY <2>1, <2>3, OrientsTransitive
  <2>5. QED
    BY <2>2, <2>4
<1>5. 0 .. P \subseteq T
  <2> HIDE DEF T
  <2>1. QED
    BY <1>1, <1>3, <1>4, UpTo
<1>6. QED
  BY <1>1, <1>2, <1>5 DEF Trace

\* A loop that ends where it started has done nothing on its way.
LEMMA LoopFixed ==
  ASSUME NEW edit, OnlyOrients(edit), NEW g \in Pdag, Loop(edit)[g] = g
  PROVE  \A v \in Vertex : edit[v][g] = g
<1>1. P \in Nat /\ 0 \in 0 .. P /\ P \in 0 .. P
  BY PAssumption
<1>2. PICK f \in [0 .. P -> Pdag] : Trace(f, edit, g)
  BY OnlyOrientsTransforms, LoopTrace
<1>3. \A k \in 0 .. P - 1 : Orients(f[k], f[k + 1])
  <2>1. SUFFICES ASSUME NEW k \in 0 .. P - 1 PROVE Orients(f[k], f[k + 1])
    OBVIOUS
  <2>2. k \in Vertex /\ k \in 0 .. P
    BY <1>1 DEF Vertex
  <2>3. QED
    BY <2>2, <1>2 DEF Trace, OnlyOrients
<1> DEFINE up == {k \in 0 .. P : Orients(g, f[k])}
           down == {k \in 0 .. P : Orients(f[P - k], g)}
<1>4. 0 .. P \subseteq up
  <2>1. 0 \in up
    BY <1>1, <1>2, OrientsReflexive DEF Trace
  <2>2. \A k \in 0 .. P - 1 : k \in up => k + 1 \in up
    <3>1. SUFFICES ASSUME NEW k \in 0 .. P - 1, Orients(g, f[k]) PROVE k + 1 \in up
      OBVIOUS
    <3>2. Orients(g, f[k + 1])
      BY <3>1, <1>3, OrientsTransitive
    <3>3. QED
      BY <3>2, <1>1
  <2>3. QED
    <3> HIDE DEF up
    <3>1. QED
      BY <1>1, <2>1, <2>2, UpTo
<1>5. 0 .. P \subseteq down
  <2>1. 0 \in down
    <3>1. P - 0 = P
      BY <1>1
    <3>2. f[P] = g
      BY <1>2 DEF Trace
    <3>3. QED
      BY <1>1, <3>1, <3>2, OrientsReflexive
  <2>2. \A k \in 0 .. P - 1 : k \in down => k + 1 \in down
    <3>1. SUFFICES ASSUME NEW k \in 0 .. P - 1, Orients(f[P - k], g) PROVE k + 1 \in down
      OBVIOUS
    <3>2. P - (k + 1) \in 0 .. P - 1 /\ (P - (k + 1)) + 1 = P - k
      BY <1>1
    <3>3. Orients(f[P - (k + 1)], f[P - k])
      BY <3>2, <1>3
    <3>4. Orients(f[P - (k + 1)], g)
      BY <3>1, <3>3, OrientsTransitive
    <3>5. QED
      BY <3>4, <1>1
  <2>3. QED
    <3> HIDE DEF down
    <3>1. QED
      BY <1>1, <2>1, <2>2, UpTo
<1>6. \A k \in 0 .. P : f[k] = g
  <2>1. SUFFICES ASSUME NEW k \in 0 .. P PROVE f[k] = g
    OBVIOUS
  <2>2. Orients(g, f[k])
    BY <1>4
  <2>3. P - k \in 0 .. P /\ P - (P - k) = k
    BY <1>1
  <2>4. Orients(f[k], g)
    BY <1>5, <2>3
  <2>5. QED
    BY <2>2, <2>4, OrientsAntisymmetric
<1>7. SUFFICES ASSUME NEW v \in Vertex PROVE edit[v][g] = g
  OBVIOUS
<1>8. v \in 0 .. P /\ v + 1 \in 0 .. P
  BY <1>1 DEF Vertex
<1>9. f[v + 1] = edit[v][f[v]]
  BY <1>2 DEF Trace
<1>10. QED
  BY <1>6, <1>8, <1>9

-----------------------------------------------------------------------------
(* The rules orient edges and stop only when none applies.                 *)

LEMMA SkipOrients ==
  ASSUME NEW h \in Pdag
  PROVE  Orients(h, Skip[h]) /\ Skip[h] = h
BY OrientsReflexive DEF Skip

LEMMA RuleEdgeOrients ==
  ASSUME NEW h \in Pdag, NEW a \in Vertex, NEW b \in Vertex, a # b,
         Undirected(h, a, b), NEW solve
  PROVE  Orients(h, OrientRuleEdge(h, a, b, solve)) /\ OrientRuleEdge(h, a, b, solve) # h
<1> DEFINE k == [h EXCEPT ![<<a, b>>] = 1, ![<<b, a>>] = 0]
<1>1. OrientRuleEdge(h, a, b, solve) = k
  BY DEF OrientRuleEdge, SetDirected, Undirected, Directed
<1>2. <<a, b>> \in Vertex \X Vertex /\ <<b, a>> \in Vertex \X Vertex /\ <<a, b>> # <<b, a>>
  OBVIOUS
<1>3. k \in Pdag
  BY DEF Pdag
<1>4. k[<<a, b>>] = 1 /\ k[<<b, a>>] = 0
  BY <1>2 DEF Pdag
<1>5. \A e \in Vertex \X Vertex : e # <<a, b>> /\ e # <<b, a>> => k[e] = h[e]
  BY DEF Pdag
<1> HIDE DEF k
<1>6. ASSUME NEW c \in Vertex, NEW d \in Vertex, c # d
      PROVE  \/ k[<<c, d>>] = h[<<c, d>>] /\ k[<<d, c>>] = h[<<d, c>>]
             \/ Undirected(h, c, d) /\ (Directed(k, c, d) \/ Directed(k, d, c))
  <2>1. CASE c = a /\ d = b
    BY <2>1, <1>4 DEF Directed
  <2>2. CASE c = b /\ d = a
    BY <2>2, <1>4 DEF Directed, Undirected
  <2>3. CASE ~(c = a /\ d = b) /\ ~(c = b /\ d = a)
    <3>1. <<c, d>> # <<a, b>> /\ <<c, d>> # <<b, a>> /\ <<d, c>> # <<a, b>> /\ <<d, c>> # <<b, a>>
      BY <2>3
    <3>2. QED
      BY <3>1, <1>5
  <2>4. QED
    BY <2>1, <2>2, <2>3
<1>7. \A c \in Vertex : k[<<c, c>>] = h[<<c, c>>]
  BY <1>5
<1>8. Orients(h, k)
  BY <1>3, <1>6, <1>7 DEF Orients
<1>9. h[<<b, a>>] # k[<<b, a>>]
  BY <1>4 DEF Undirected
<1>10. QED
  BY <1>1, <1>8, <1>9

LEMMA Rule1FromOrients ==
  ASSUME NEW solve, NEW a \in Vertex, NEW b \in Vertex
  PROVE  /\ OnlyOrients(Rule1From(solve, a, b))
         /\ \A c \in Vertex, h \in Pdag :
              Rule1From(solve, a, b)[c][h] = h => ~Rule1Applies(h, a, b, c)
<1>1. ASSUME NEW c \in Vertex, NEW h \in Pdag
      PROVE  /\ Orients(h, Rule1From(solve, a, b)[c][h])
             /\ Rule1From(solve, a, b)[c][h] = h => ~Rule1Applies(h, a, b, c)
  <2>1. Rule1From(solve, a, b)[c][h] = IF Rule1Applies(h, a, b, c)
                                       THEN OrientRuleEdge(h, b, c, solve) ELSE h
    BY DEF Rule1From
  <2>2. CASE Rule1Applies(h, a, b, c)
    <3>1. b # c /\ Undirected(h, b, c)
      BY <2>2 DEF Rule1Applies
    <3>2. Orients(h, OrientRuleEdge(h, b, c, solve)) /\ OrientRuleEdge(h, b, c, solve) # h
      BY <3>1, RuleEdgeOrients
    <3>3. QED
      BY <2>1, <2>2, <3>2
  <2>3. CASE ~Rule1Applies(h, a, b, c)
    BY <2>1, <2>3, OrientsReflexive
  <2>4. QED
    BY <2>2, <2>3
<1>2. QED
  BY <1>1 DEF OnlyOrients

LEMMA Rule1ColumnOrients ==
  ASSUME NEW g \in Pdag, NEW solve, NEW b \in Vertex
  PROVE  /\ OnlyOrients(Rule1Column(g, solve, b))
         /\ \A a \in Vertex, c \in Vertex :
              a # b /\ Directed(g, a, b) /\ Rule1Column(g, solve, b)[a][g] = g => ~Rule1Applies(g, a, b, c)
<1>1. ASSUME NEW a \in Vertex, NEW h \in Pdag
      PROVE  Orients(h, Rule1Column(g, solve, b)[a][h])
  <2>1. CASE a # b /\ Directed(g, a, b)
    <3>1. Rule1Column(g, solve, b)[a] = Loop(Rule1From(solve, a, b))
      BY <2>1 DEF Rule1Column
    <3>2. OnlyOrients(Rule1From(solve, a, b))
      BY Rule1FromOrients
    <3>3. QED
      BY <3>1, <3>2, LoopOrients
  <2>2. CASE ~(a # b /\ Directed(g, a, b))
    <3>1. Rule1Column(g, solve, b)[a] = Skip
      BY <2>2 DEF Rule1Column
    <3>2. QED
      BY <3>1, SkipOrients
  <2>3. QED
    BY <2>1, <2>2
<1>2. ASSUME NEW a \in Vertex, NEW c \in Vertex, a # b, Directed(g, a, b),
             Rule1Column(g, solve, b)[a][g] = g
      PROVE  ~Rule1Applies(g, a, b, c)
  <2>1. Rule1Column(g, solve, b)[a] = Loop(Rule1From(solve, a, b))
    BY <1>2 DEF Rule1Column
  <2>2. OnlyOrients(Rule1From(solve, a, b))
    BY Rule1FromOrients
  <2>3. Loop(Rule1From(solve, a, b))[g] = g
    BY <1>2, <2>1
  <2>4. Rule1From(solve, a, b)[c][g] = g
    BY <2>2, <2>3, LoopFixed
  <2>5. QED
    BY <2>4, Rule1FromOrients
<1>3. QED
  BY <1>1, <1>2 DEF OnlyOrients

\* A scan of the columns whose bodies only orient only orients.
LEMMA ColumnsOrient ==
  ASSUME NEW column, \A b \in Vertex : OnlyOrients(column[b]), NEW g \in Pdag
  PROVE  /\ Orients(g, Loop([b \in Vertex |-> Loop(column[b])])[g])
         /\ Loop([b \in Vertex |-> Loop(column[b])])[g] = g => \A a, b \in Vertex : column[b][a][g] = g
<1> DEFINE edit == [b \in Vertex |-> Loop(column[b])]
<1>1. OnlyOrients(edit)
  <2>1. ASSUME NEW b \in Vertex, NEW h \in Pdag PROVE Orients(h, edit[b][h])
    <3>1. OnlyOrients(column[b])
      OBVIOUS
    <3>2. Orients(h, Loop(column[b])[h])
      BY <3>1, LoopOrients
    <3>3. QED
      BY <3>2
  <2>2. QED
    BY <2>1 DEF OnlyOrients
<1>2. \A b \in Vertex : edit[b] = Loop(column[b])
  OBVIOUS
<1> HIDE DEF edit
<1>3. Orients(g, Loop(edit)[g])
  BY <1>1, LoopOrients
<1>4. ASSUME Loop(edit)[g] = g, NEW a \in Vertex, NEW b \in Vertex
      PROVE  column[b][a][g] = g
  <2>1. edit[b][g] = g
    BY <1>1, <1>4, LoopFixed
  <2>2. Loop(column[b])[g] = g
    BY <2>1, <1>2
  <2>3. OnlyOrients(column[b])
    OBVIOUS
  <2>4. QED
    BY <2>2, <2>3, LoopFixed
<1>5. QED
  BY <1>3, <1>4 DEF edit

LEMMA Rule1Orients ==
  ASSUME NEW g \in Pdag, NEW solve
  PROVE  /\ Orients(g, ApplyRule1(g, solve))
         /\ ApplyRule1(g, solve) = g =>
              \A a, b, c \in Vertex : a # b /\ Directed(g, a, b) => ~Rule1Applies(g, a, b, c)
<1> DEFINE column == [b \in Vertex |-> Rule1Column(g, solve, b)]
           scan == [b \in Vertex |-> Loop(column[b])]
<1>1. \A b \in Vertex : OnlyOrients(column[b])
  BY Rule1ColumnOrients
<1>2. scan = [b \in Vertex |-> Loop(Rule1Column(g, solve, b))]
  OBVIOUS
<1>3. ApplyRule1(g, solve) = Loop(scan)[g]
  BY <1>2 DEF ApplyRule1
<1>4. Orients(g, Loop(scan)[g]) /\ (Loop(scan)[g] = g => \A a, b \in Vertex : column[b][a][g] = g)
  <2> HIDE DEF column
  <2>1. QED
    BY <1>1, ColumnsOrient
<1>5. ASSUME Loop(scan)[g] = g, NEW a \in Vertex, NEW b \in Vertex, NEW c \in Vertex,
             a # b, Directed(g, a, b)
      PROVE  ~Rule1Applies(g, a, b, c)
  <2>1. column[b][a][g] = g
    BY <1>4, <1>5
  <2>2. Rule1Column(g, solve, b)[a][g] = g
    BY <2>1
  <2>3. QED
    BY <2>2, <1>5, Rule1ColumnOrients
<1>6. QED
  BY <1>3, <1>4, <1>5

LEMMA Rule2ColumnOrients ==
  ASSUME NEW g \in Pdag, NEW solve, NEW b \in Vertex
  PROVE  /\ OnlyOrients(Rule2Column(g, solve, b))
         /\ \A a \in Vertex : a # b /\ Rule2Column(g, solve, b)[a][g] = g => ~Rule2Applies(g, a, b)
<1>1. ASSUME NEW a \in Vertex, NEW h \in Pdag
      PROVE  /\ Orients(h, Rule2Column(g, solve, b)[a][h])
             /\ a # b /\ Undirected(g, a, b) /\ Rule2Column(g, solve, b)[a][h] = h => ~Rule2Applies(h, a, b)
  <2>1. CASE a # b /\ Undirected(g, a, b) /\ Rule2Applies(h, a, b)
    <3>1. Rule2Column(g, solve, b)[a][h] = OrientRuleEdge(h, a, b, solve)
      BY <2>1 DEF Rule2Column
    <3>2. Undirected(h, a, b)
      BY <2>1 DEF Rule2Applies
    <3>3. Orients(h, OrientRuleEdge(h, a, b, solve)) /\ OrientRuleEdge(h, a, b, solve) # h
      BY <2>1, <3>2, RuleEdgeOrients
    <3>4. QED
      BY <3>1, <3>3
  <2>2. CASE a # b /\ Undirected(g, a, b) /\ ~Rule2Applies(h, a, b)
    <3>1. Rule2Column(g, solve, b)[a][h] = h
      BY <2>2 DEF Rule2Column
    <3>2. QED
      BY <3>1, <2>2, OrientsReflexive
  <2>3. CASE ~(a # b /\ Undirected(g, a, b))
    <3>1. Rule2Column(g, solve, b)[a] = Skip
      BY <2>3 DEF Rule2Column
    <3>2. QED
      BY <3>1, <2>3, SkipOrients
  <2>4. QED
    BY <2>1, <2>2, <2>3
<1>2. \A a \in Vertex : Rule2Applies(g, a, b) => Undirected(g, a, b)
  BY DEF Rule2Applies
<1>3. QED
  BY <1>1, <1>2 DEF OnlyOrients

LEMMA Rule2Orients ==
  ASSUME NEW g \in Pdag, NEW solve
  PROVE  /\ Orients(g, ApplyRule2(g, solve))
         /\ ApplyRule2(g, solve) = g => \A a, b \in Vertex : a # b => ~Rule2Applies(g, a, b)
<1> DEFINE column == [b \in Vertex |-> Rule2Column(g, solve, b)]
           scan == [b \in Vertex |-> Loop(column[b])]
<1>1. \A b \in Vertex : OnlyOrients(column[b])
  BY Rule2ColumnOrients
<1>2. scan = [b \in Vertex |-> Loop(Rule2Column(g, solve, b))]
  OBVIOUS
<1>3. ApplyRule2(g, solve) = Loop(scan)[g]
  BY <1>2 DEF ApplyRule2
<1>4. Orients(g, Loop(scan)[g]) /\ (Loop(scan)[g] = g => \A a, b \in Vertex : column[b][a][g] = g)
  <2> HIDE DEF column
  <2>1. QED
    BY <1>1, ColumnsOrient
<1>5. ASSUME Loop(scan)[g] = g, NEW a \in Vertex, NEW b \in Vertex, a # b
      PROVE  ~Rule2Applies(g, a, b)
  <2>1. column[b][a][g] = g
    BY <1>4, <1>5
  <2>2. Rule2Column(g, solve, b)[a][g] = g
    BY <2>1
  <2>3. QED
    BY <2>2, <1>5, Rule2ColumnOrients
<1>6. QED
  BY <1>3, <1>4, <1>5

LEMMA Rule3ColumnOrients ==
  ASSUME NEW g \in Pdag, NEW solve, NEW b \in Vertex
  PROVE  /\ OnlyOrients(Rule3Column(g, solve, b))
         /\ \A a \in Vertex : a # b /\ Rule3Column(g, solve, b)[a][g] = g => ~Rule3Applies(g, a, b)
<1>1. ASSUME NEW a \in Vertex, NEW h \in Pdag
      PROVE  /\ Orients(h, Rule3Column(g, solve, b)[a][h])
             /\ a # b /\ Undirected(g, a, b) /\ Rule3Column(g, solve, b)[a][h] = h => ~Rule3Applies(h, a, b)
  <2>1. CASE a # b /\ Undirected(g, a, b) /\ Rule3Applies(h, a, b)
    <3>1. Rule3Column(g, solve, b)[a][h] = OrientRuleEdge(h, a, b, solve)
      BY <2>1 DEF Rule3Column
    <3>2. Undirected(h, a, b)
      BY <2>1 DEF Rule3Applies
    <3>3. Orients(h, OrientRuleEdge(h, a, b, solve)) /\ OrientRuleEdge(h, a, b, solve) # h
      BY <2>1, <3>2, RuleEdgeOrients
    <3>4. QED
      BY <3>1, <3>3
  <2>2. CASE a # b /\ Undirected(g, a, b) /\ ~Rule3Applies(h, a, b)
    <3>1. Rule3Column(g, solve, b)[a][h] = h
      BY <2>2 DEF Rule3Column
    <3>2. QED
      BY <3>1, <2>2, OrientsReflexive
  <2>3. CASE ~(a # b /\ Undirected(g, a, b))
    <3>1. Rule3Column(g, solve, b)[a] = Skip
      BY <2>3 DEF Rule3Column
    <3>2. QED
      BY <3>1, <2>3, SkipOrients
  <2>4. QED
    BY <2>1, <2>2, <2>3
<1>2. \A a \in Vertex : Rule3Applies(g, a, b) => Undirected(g, a, b)
  BY DEF Rule3Applies
<1>3. QED
  BY <1>1, <1>2 DEF OnlyOrients

LEMMA Rule3Orients ==
  ASSUME NEW g \in Pdag, NEW solve
  PROVE  /\ Orients(g, ApplyRule3(g, solve))
         /\ ApplyRule3(g, solve) = g => \A a, b \in Vertex : a # b => ~Rule3Applies(g, a, b)
<1> DEFINE column == [b \in Vertex |-> Rule3Column(g, solve, b)]
           scan == [b \in Vertex |-> Loop(column[b])]
<1>1. \A b \in Vertex : OnlyOrients(column[b])
  BY Rule3ColumnOrients
<1>2. scan = [b \in Vertex |-> Loop(Rule3Column(g, solve, b))]
  OBVIOUS
<1>3. ApplyRule3(g, solve) = Loop(scan)[g]
  BY <1>2 DEF ApplyRule3
<1>4. Orients(g, Loop(scan)[g]) /\ (Loop(scan)[g] = g => \A a, b \in Vertex : column[b][a][g] = g)
  <2> HIDE DEF column
  <2>1. QED
    BY <1>1, ColumnsOrient
<1>5. ASSUME Loop(scan)[g] = g, NEW a \in Vertex, NEW b \in Vertex, a # b
      PROVE  ~Rule3Applies(g, a, b)
  <2>1. column[b][a][g] = g
    BY <1>4, <1>5
  <2>2. Rule3Column(g, solve, b)[a][g] = g
    BY <2>1
  <2>3. QED
    BY <2>2, <1>5, Rule3ColumnOrients
<1>6. QED
  BY <1>3, <1>4, <1>5

LEMMA RulesOrient ==
  ASSUME NEW g \in Pdag, NEW solve
  PROVE  /\ Orients(g, ApplyRules(g, solve))
         /\ ApplyRules(g, solve) = g =>
              /\ \A a, b, c \in Vertex : a # b /\ Directed(g, a, b) => ~Rule1Applies(g, a, b, c)
              /\ \A a, b \in Vertex : a # b => ~Rule2Applies(g, a, b) /\ ~Rule3Applies(g, a, b)
<1> DEFINE h == ApplyRule1(g, solve)
           k == ApplyRule2(h, solve)
           l == ApplyRule3(k, solve)
<1>1. Orients(g, h)
  BY Rule1Orients
<1>2. h \in Pdag
  BY <1>1 DEF Orients
<1> HIDE DEF h
<1>3. Orients(h, k)
  BY <1>2, Rule2Orients
<1>4. k \in Pdag
  BY <1>3 DEF Orients
<1> HIDE DEF k
<1>5. Orients(k, l)
  BY <1>4, Rule3Orients
<1> HIDE DEF l
<1>6. ApplyRules(g, solve) = l
  BY DEF ApplyRules, h, k, l
<1>7. Orients(h, l)
  BY <1>3, <1>5, OrientsTransitive
<1>8. Orients(g, l)
  BY <1>1, <1>7, OrientsTransitive
<1>9. ASSUME l = g
      PROVE  /\ \A a, b, c \in Vertex : a # b /\ Directed(g, a, b) => ~Rule1Applies(g, a, b, c)
             /\ \A a, b \in Vertex : a # b => ~Rule2Applies(g, a, b) /\ ~Rule3Applies(g, a, b)
  <2>1. h = g
    BY <1>1, <1>7, <1>9, OrientsAntisymmetric
  <2>2. k = g
    BY <1>3, <1>5, <1>9, <2>1, OrientsAntisymmetric
  <2>3. ApplyRule1(g, solve) = g
    BY <2>1 DEF h
  <2>4. ApplyRule2(g, solve) = g
    BY <2>1, <2>2 DEF k
  <2>5. ApplyRule3(g, solve) = g
    BY <2>2, <1>9 DEF l
  <2>6. QED
    BY <2>3, <2>4, <2>5, Rule1Orients, Rule2Orients, Rule3Orients
<1>10. QED
  BY <1>6, <1>8, <1>9

-----------------------------------------------------------------------------
(* The collider scan.                                                      *)

SkeletonMatrix(g) ==
  /\ g \in [Vertex \X Vertex -> 0 .. 1]
  /\ \A a, b \in Vertex : g[<<a, b>>] = g[<<b, a>>]

\* An arrow <<a, b>> can be drawn along an edge a -- b.
Arrow(g) == {e \in Vertex \X Vertex : e[1] # e[2] /\ g[e] # 0}

HeadsUpTo(Q, y) == \A q \in Q : q[2] <= y

\* The skeleton g with the arrows of Q drawn, those with the smaller head first.
Collided(g, solve, Q) ==
  [e \in Vertex \X Vertex |->
     IF ~AnyEdge(g, e[1], e[2]) THEN 0
     ELSE IF <<e[2], e[1]>> \notin Q THEN 1
     ELSE IF e \notin Q THEN 0
     ELSE IF solve THEN 2
     ELSE IF e[1] < e[2] THEN 1 ELSE 0]

LEMMA CollidedType ==
  ASSUME NEW g, NEW solve, NEW Q
  PROVE  Collided(g, solve, Q) \in Pdag
BY DEF Collided, Pdag

LEMMA CollidedCell ==
  ASSUME NEW g, NEW solve, NEW Q, NEW a \in Vertex, NEW b \in Vertex
  PROVE  Collided(g, solve, Q)[<<a, b>>] =
           IF ~AnyEdge(g, a, b) THEN 0
           ELSE IF <<b, a>> \notin Q THEN 1
           ELSE IF <<a, b>> \notin Q THEN 0
           ELSE IF solve THEN 2
           ELSE IF a < b THEN 1 ELSE 0
BY DEF Collided

\* orient_edge draws one more arrow when no arrow drawn has a larger head.
LEMMA ArrowAdded ==
  ASSUME NEW g, SkeletonMatrix(g), NEW solve \in BOOLEAN, NEW Q \in SUBSET Arrow(g),
         NEW x \in Vertex, NEW y \in Vertex, <<x, y>> \in Arrow(g), HeadsUpTo(Q, y)
  PROVE  OrientEdge(Collided(g, solve, Q), x, y, solve) =
           Collided(g, solve, Q \cup {<<x, y>>})
<1> DEFINE h == Collided(g, solve, Q)
           R == Q \cup {<<x, y>>}
           k == Collided(g, solve, R)
<1>1. h \in Pdag /\ k \in Pdag
  BY CollidedType
<1>2. x # y /\ AnyEdge(g, x, y) /\ AnyEdge(g, y, x)
  BY DEF Arrow, AnyEdge
<1>3. x \in Int /\ y \in Int
  BY DEF Vertex
<1>4. <<y, x>> \in Q => x < y
  BY <1>2, <1>3 DEF HeadsUpTo
<1>5. <<y, x>> \in R <=> <<y, x>> \in Q
  BY <1>2
<1>6. <<x, y>> \in R
  OBVIOUS
<1>7. k[<<x, y>>] = (IF <<y, x>> \notin Q THEN 1 ELSE IF solve THEN 2 ELSE 1)
  <2>1. k[<<x, y>>] = (IF <<y, x>> \notin R THEN 1 ELSE IF solve THEN 2 ELSE IF x < y THEN 1 ELSE 0)
    BY <1>2, <1>6, CollidedCell
  <2>2. QED
    BY <2>1, <1>4, <1>5
<1>8. k[<<y, x>>] = (IF <<y, x>> \notin Q THEN 0 ELSE IF solve THEN 2 ELSE 0)
  <2>1. k[<<y, x>>] = (IF <<y, x>> \notin R THEN 0 ELSE IF solve THEN 2 ELSE IF y < x THEN 1 ELSE 0)
    BY <1>2, <1>6, CollidedCell
  <2>2. <<y, x>> \in Q => ~(y < x)
    BY <1>3, <1>4
  <2>3. QED
    BY <2>1, <2>2, <1>5
<1>9. ASSUME NEW a \in Vertex, NEW b \in Vertex, <<a, b>> # <<x, y>>, <<a, b>> # <<y, x>>
      PROVE  k[<<a, b>>] = h[<<a, b>>]
  <2>1. (<<a, b>> \in R <=> <<a, b>> \in Q) /\ (<<b, a>> \in R <=> <<b, a>> \in Q)
    BY <1>9
  <2>2. QED
    BY <2>1, CollidedCell
<1>10. h[<<x, y>>] = (IF <<y, x>> \notin Q THEN 1 ELSE IF <<x, y>> \notin Q THEN 0
                     ELSE IF solve THEN 2 ELSE 1)
  <2>1. h[<<x, y>>] = (IF <<y, x>> \notin Q THEN 1 ELSE IF <<x, y>> \notin Q THEN 0
                      ELSE IF solve THEN 2 ELSE IF x < y THEN 1 ELSE 0)
    BY <1>2, CollidedCell
  <2>2. QED
    BY <2>1, <1>4
<1>11. \A e \in Vertex \X Vertex : e # <<x, y>> /\ e # <<y, x>> => k[e] = h[e]
  <2> SUFFICES ASSUME NEW e \in Vertex \X Vertex, e # <<x, y>>, e # <<y, x>>
               PROVE  k[e] = h[e]
    OBVIOUS
  <2>1. PICK a \in Vertex, b \in Vertex : e = <<a, b>>
    OBVIOUS
  <2> HIDE DEF h, k
  <2> QED
    BY <1>9, <2>1
<1> HIDE DEF h, k, R
<1>12. <<x, y>> \in Vertex \X Vertex /\ <<y, x>> \in Vertex \X Vertex /\ <<x, y>> # <<y, x>>
  BY <1>2
<1>13. CASE ~solve
  <2>1. OrientEdge(h, x, y, solve) = [h EXCEPT ![<<x, y>>] = 1, ![<<y, x>>] = 0]
    BY <1>13 DEF OrientEdge, SetDirected
  <2>2. k[<<x, y>>] = 1 /\ k[<<y, x>>] = 0
    BY <1>13, <1>7, <1>8
  <2>3. k = [h EXCEPT ![<<x, y>>] = 1, ![<<y, x>>] = 0]
    BY <2>2, <1>1, <1>11, <1>12 DEF Pdag
  <2>4. QED
    BY <2>1, <2>3 DEF h, k, R
<1>14. CASE solve /\ <<y, x>> \notin Q
  <2>1. h[<<x, y>>] = 1
    BY <1>10, <1>14
  <2>2. OrientEdge(h, x, y, solve) = [h EXCEPT ![<<y, x>>] = 0]
    BY <1>14, <2>1 DEF OrientEdge
  <2>3. k[<<x, y>>] = h[<<x, y>>] /\ k[<<y, x>>] = 0
    BY <1>14, <1>7, <1>8, <2>1
  <2>4. k = [h EXCEPT ![<<y, x>>] = 0]
    BY <2>3, <1>1, <1>11, <1>12 DEF Pdag
  <2>5. QED
    BY <2>2, <2>4 DEF h, k, R
<1>15. CASE solve /\ <<y, x>> \in Q
  <2>1. h[<<x, y>>] # 1
    BY <1>10, <1>15
  <2>2. OrientEdge(h, x, y, solve) = [h EXCEPT ![<<x, y>>] = 2, ![<<y, x>>] = 2]
    BY <1>15, <2>1 DEF OrientEdge, SetConflict
  <2>3. k[<<x, y>>] = 2 /\ k[<<y, x>>] = 2
    BY <1>15, <1>7, <1>8
  <2>4. k = [h EXCEPT ![<<x, y>>] = 2, ![<<y, x>>] = 2]
    BY <2>3, <1>1, <1>11, <1>12 DEF Pdag
  <2>5. QED
    BY <2>2, <2>4 DEF h, k, R
<1>16. QED
  BY <1>13, <1>14, <1>15

LEMMA LoopType ==
  ASSUME NEW edit, Transforms(edit, Pdag), NEW g \in Pdag
  PROVE  Loop(edit)[g] \in Pdag
<1>1. PICK f \in [0 .. P -> Pdag] : Trace(f, edit, g)
  BY LoopTrace
<1>2. f[P] \in Pdag
  BY PAssumption
<1>3. QED
  BY <1>1, <1>2 DEF Trace

LEMMA OrientEdgeType ==
  ASSUME NEW h \in Pdag, NEW a \in Vertex, NEW b \in Vertex, NEW solve \in BOOLEAN
  PROVE  OrientEdge(h, a, b, solve) \in Pdag
<1>1. SetDirected(h, a, b) \in Pdag /\ SetConflict(h, a, b) \in Pdag
  BY DEF SetDirected, SetConflict, Pdag
<1>2. [h EXCEPT ![<<b, a>>] = 0] \in Pdag
  BY DEF Pdag
<1>3. CASE ~solve
  BY <1>1, <1>3 DEF OrientEdge
<1>4. CASE solve /\ h[<<a, b>>] = 1
  BY <1>2, <1>4 DEF OrientEdge
<1>5. CASE solve /\ h[<<a, b>>] # 1
  BY <1>1, <1>5 DEF OrientEdge
<1>6. QED
  BY <1>3, <1>4, <1>5

\* The arrows of the colliders x -> y <- z with z < k, of those into y with
\* x < k, and of all with y < k.
ArrowsAt(g, sep, x, y, k) ==
  {e \in Arrow(g) : e[2] = y /\ \E z \in Vertex :
     z < k /\ IsCollider(g, sep, x, y, z) /\ e[1] \in {x, z}}
ArrowsInto(g, sep, y, k) ==
  {e \in Arrow(g) : e[2] = y /\ \E x, z \in Vertex :
     x < k /\ IsCollider(g, sep, x, y, z) /\ e[1] \in {x, z}}
ArrowsUpTo(g, sep, k) ==
  {e \in Arrow(g) : e[2] < k /\ \E x, z \in Vertex :
     IsCollider(g, sep, x, e[2], z) /\ e[1] \in {x, z}}

LEMMA ColliderArrows ==
  ASSUME NEW g, SkeletonMatrix(g), NEW sep, NEW x \in Vertex, NEW y \in Vertex,
         NEW z \in Vertex, IsCollider(g, sep, x, y, z)
  PROVE  <<x, y>> \in Arrow(g) /\ <<z, y>> \in Arrow(g)
<1>1. x # y /\ z # y /\ g[<<x, y>>] # 0 /\ g[<<y, z>>] # 0
  BY DEF IsCollider
<1>2. g[<<z, y>>] # 0
  BY <1>1 DEF SkeletonMatrix
<1>3. QED
  BY <1>1, <1>2 DEF Arrow

LEMMA ArrowsAtGrow ==
  ASSUME NEW g, SkeletonMatrix(g), NEW sep, NEW x \in Vertex, NEW y \in Vertex
  PROVE  /\ ArrowsAt(g, sep, x, y, 0) = {}
         /\ \A z \in Vertex : ArrowsAt(g, sep, x, y, z + 1) =
              ArrowsAt(g, sep, x, y, z)
                \cup (IF IsCollider(g, sep, x, y, z) THEN {<<x, y>>, <<z, y>>} ELSE {})
<1>1. ArrowsAt(g, sep, x, y, 0) = {}
  BY DEF ArrowsAt, Vertex
<1>2. ASSUME NEW z \in Vertex
      PROVE  ArrowsAt(g, sep, x, y, z + 1) =
               ArrowsAt(g, sep, x, y, z)
                 \cup (IF IsCollider(g, sep, x, y, z) THEN {<<x, y>>, <<z, y>>} ELSE {})
  <2>1. \A u \in Vertex : u < z + 1 <=> u < z \/ u = z
    BY DEF Vertex
  <2>2. ASSUME NEW e \in Arrow(g)
        PROVE  e \in ArrowsAt(g, sep, x, y, z + 1) <=>
                 \/ e \in ArrowsAt(g, sep, x, y, z)
                 \/ e[2] = y /\ IsCollider(g, sep, x, y, z) /\ e[1] \in {x, z}
    BY <2>1 DEF ArrowsAt
  <2>3. \A e \in Arrow(g) : e = <<e[1], e[2]>>
    BY DEF Arrow
  <2>4. IsCollider(g, sep, x, y, z) => <<x, y>> \in Arrow(g) /\ <<z, y>> \in Arrow(g)
    BY ColliderArrows
  <2>5. /\ ArrowsAt(g, sep, x, y, z + 1) \subseteq Arrow(g)
        /\ ArrowsAt(g, sep, x, y, z) \subseteq Arrow(g)
    BY DEF ArrowsAt
  <2>6. CASE IsCollider(g, sep, x, y, z)
    <3>1. \A e \in Arrow(g) : e[2] = y /\ e[1] \in {x, z} <=> e \in {<<x, y>>, <<z, y>>}
      BY <2>3
    <3>2. QED
      BY <2>2, <2>4, <2>5, <2>6, <3>1
  <2>7. CASE ~IsCollider(g, sep, x, y, z)
    BY <2>2, <2>5, <2>7
  <2>8. QED
    BY <2>6, <2>7
<1>3. QED
  BY <1>1, <1>2

LEMMA ArrowsIntoGrow ==
  ASSUME NEW g, NEW sep, NEW y \in Vertex
  PROVE  /\ ArrowsInto(g, sep, y, 0) = {}
         /\ \A x \in Vertex : ArrowsInto(g, sep, y, x + 1) =
              ArrowsInto(g, sep, y, x) \cup ArrowsAt(g, sep, x, y, P)
<1>1. ArrowsInto(g, sep, y, 0) = {}
  BY DEF ArrowsInto, Vertex
<1>2. ASSUME NEW x \in Vertex
      PROVE  ArrowsInto(g, sep, y, x + 1) =
               ArrowsInto(g, sep, y, x) \cup ArrowsAt(g, sep, x, y, P)
  <2>1. \A u \in Vertex : (u < x + 1 <=> u < x \/ u = x) /\ u < P
    BY PAssumption DEF Vertex
  <2>2. \A e \in Arrow(g) : e \in ArrowsInto(g, sep, y, x + 1) <=>
          e \in ArrowsInto(g, sep, y, x) \/ e \in ArrowsAt(g, sep, x, y, P)
    BY <2>1 DEF ArrowsInto, ArrowsAt
  <2>3. /\ ArrowsInto(g, sep, y, x + 1) \subseteq Arrow(g)
        /\ ArrowsInto(g, sep, y, x) \subseteq Arrow(g)
        /\ ArrowsAt(g, sep, x, y, P) \subseteq Arrow(g)
    BY DEF ArrowsInto, ArrowsAt
  <2>4. QED
    BY <2>2, <2>3
<1>3. QED
  BY <1>1, <1>2

LEMMA ArrowsUpToGrow ==
  ASSUME NEW g, NEW sep
  PROVE  /\ ArrowsUpTo(g, sep, 0) = {}
         /\ \A y \in Vertex : ArrowsUpTo(g, sep, y + 1) =
              ArrowsUpTo(g, sep, y) \cup ArrowsInto(g, sep, y, P)
<1>1. \A e \in Arrow(g) : e[2] \in Vertex /\ 0 <= e[2]
  BY DEF Arrow, Vertex
<1>2. ArrowsUpTo(g, sep, 0) = {}
  BY <1>1 DEF ArrowsUpTo, Vertex
<1>3. ASSUME NEW y \in Vertex
      PROVE  ArrowsUpTo(g, sep, y + 1) =
               ArrowsUpTo(g, sep, y) \cup ArrowsInto(g, sep, y, P)
  <2>1. \A u \in Vertex : (u < y + 1 <=> u < y \/ u = y) /\ u < P
    BY PAssumption DEF Vertex
  <2>2. \A e \in Arrow(g) : e \in ArrowsUpTo(g, sep, y + 1) <=>
          e \in ArrowsUpTo(g, sep, y) \/ e \in ArrowsInto(g, sep, y, P)
    BY <1>1, <2>1 DEF ArrowsInto, ArrowsUpTo
  <2>3. /\ ArrowsUpTo(g, sep, y + 1) \subseteq Arrow(g)
        /\ ArrowsUpTo(g, sep, y) \subseteq Arrow(g)
        /\ ArrowsInto(g, sep, y, P) \subseteq Arrow(g)
    BY DEF ArrowsInto, ArrowsUpTo
  <2>4. QED
    BY <2>2, <2>3
<1>4. QED
  BY <1>2, <1>3

LEMMA ArrowHeads ==
  ASSUME NEW g, NEW sep, NEW y \in Vertex
  PROVE  /\ \A x, k : HeadsUpTo(ArrowsAt(g, sep, x, y, k), y)
         /\ \A k : HeadsUpTo(ArrowsInto(g, sep, y, k), y)
         /\ HeadsUpTo(ArrowsUpTo(g, sep, y), y)
<1>1. \A e \in Arrow(g) : e[2] \in Int
  BY DEF Arrow, Vertex
<1>2. y \in Int
  BY DEF Vertex
<1>3. QED
  BY <1>1, <1>2 DEF HeadsUpTo, ArrowsAt, ArrowsInto, ArrowsUpTo

\* The loop draws the arrows of A when those of Q have been drawn.
Adds(edit, g, solve, Q, A) ==
  Loop(edit)[Collided(g, solve, Q)] = Collided(g, solve, Q \cup A)

LEMMA CollidersAtType ==
  ASSUME NEW g, NEW sep, NEW solve \in BOOLEAN, NEW x \in Vertex, NEW y \in Vertex
  PROVE  Transforms(CollidersAt(g, sep, solve, x, y), Pdag)
<1>1. SUFFICES ASSUME NEW z \in Vertex, NEW h \in Pdag
               PROVE  CollidersAt(g, sep, solve, x, y)[z][h] \in Pdag
  BY DEF Transforms
<1>2. CASE IsCollider(g, sep, x, y, z)
  <2>1. OrientEdge(h, x, y, solve) \in Pdag
    BY OrientEdgeType
  <2>2. OrientCollider(h, x, y, z, solve) \in Pdag
    BY <2>1, OrientEdgeType DEF OrientCollider
  <2>3. QED
    BY <1>2, <2>2 DEF CollidersAt
<1>3. CASE ~IsCollider(g, sep, x, y, z)
  BY <1>3, SkipOrients DEF CollidersAt
<1>4. QED
  BY <1>2, <1>3

LEMMA CollidersAtReach ==
  ASSUME NEW g, SkeletonMatrix(g), NEW sep, NEW solve \in BOOLEAN, NEW x \in Vertex,
         NEW y \in Vertex, NEW Q \in SUBSET Arrow(g), HeadsUpTo(Q, y)
  PROVE  Adds(CollidersAt(g, sep, solve, x, y), g, solve, Q, ArrowsAt(g, sep, x, y, P))
<1> DEFINE edit == CollidersAt(g, sep, solve, x, y)
           drawn(k) == Q \cup ArrowsAt(g, sep, x, y, k)
           M == [k \in 0 .. P |-> Collided(g, solve, drawn(k))]
<1>1. P \in Nat /\ 0 \in 0 .. P /\ P \in 0 .. P
  BY PAssumption
<1>2. M \in [0 .. P -> Pdag]
  BY CollidedType
<1>3. \A k : drawn(k) \in SUBSET Arrow(g) /\ HeadsUpTo(drawn(k), y)
  <2>1. \A k : ArrowsAt(g, sep, x, y, k) \subseteq Arrow(g)
    BY DEF ArrowsAt
  <2>2. QED
    BY <2>1, ArrowHeads DEF HeadsUpTo
<1>4. ASSUME NEW z \in Vertex
      PROVE  edit[z][M[z]] = M[z + 1]
  <2>1. z \in 0 .. P /\ z + 1 \in 0 .. P
    BY <1>1 DEF Vertex
  <2>2. M[z] = Collided(g, solve, drawn(z)) /\ M[z + 1] = Collided(g, solve, drawn(z + 1))
    BY <2>1
  <2>3. M[z] \in Pdag
    BY <1>2, <2>1
  <2>4. CASE IsCollider(g, sep, x, y, z)
    <3> DEFINE R == drawn(z) \cup {<<x, y>>}
    <3>1. <<x, y>> \in Arrow(g) /\ <<z, y>> \in Arrow(g)
      BY <2>4, ColliderArrows
    <3>2. R \in SUBSET Arrow(g) /\ HeadsUpTo(R, y)
      <4>1. y <= y
        BY DEF Vertex
      <4>2. QED
        BY <3>1, <1>3, <4>1 DEF HeadsUpTo
    <3>3. OrientEdge(Collided(g, solve, drawn(z)), x, y, solve) = Collided(g, solve, R)
      <4> HIDE DEF drawn
      <4>1. QED
        BY <3>1, <1>3, ArrowAdded
    <3>4. OrientEdge(Collided(g, solve, R), z, y, solve) = Collided(g, solve, R \cup {<<z, y>>})
      <4> HIDE DEF R
      <4>1. QED
        BY <3>1, <3>2, ArrowAdded
    <3>5. drawn(z + 1) = R \cup {<<z, y>>}
      BY <2>4, ArrowsAtGrow
    <3>6. edit[z][M[z]] = OrientCollider(M[z], x, y, z, solve)
      <4> HIDE DEF M
      <4>1. QED
        BY <2>3, <2>4 DEF CollidersAt
    <3>7. OrientCollider(M[z], x, y, z, solve) = M[z + 1]
      BY <2>2, <3>3, <3>4, <3>5 DEF OrientCollider
    <3>8. QED
      BY <3>6, <3>7
  <2>5. CASE ~IsCollider(g, sep, x, y, z)
    <3>1. drawn(z + 1) = drawn(z)
      BY <2>5, ArrowsAtGrow
    <3>2. edit[z] = Skip
      BY <2>5 DEF CollidersAt
    <3>3. Skip[M[z]] = M[z]
      BY <2>3, SkipOrients
    <3>4. QED
      BY <2>2, <3>1, <3>2, <3>3
  <2>6. QED
    BY <2>4, <2>5
<1>5. Transforms(edit, Pdag)
  BY CollidersAtType
<1>6. Loop(edit)[M[0]] = M[P]
  <2> HIDE DEF edit, M
  <2>1. QED
    BY <1>2, <1>4, <1>5, LoopReaches
<1>7. drawn(0) = Q
  BY ArrowsAtGrow
<1>8. M[0] = Collided(g, solve, Q) /\ M[P] = Collided(g, solve, drawn(P))
  BY <1>1, <1>7
<1>9. QED
  BY <1>6, <1>8 DEF Adds

LEMMA CollidersIntoType ==
  ASSUME NEW g, NEW sep, NEW solve \in BOOLEAN, NEW y \in Vertex
  PROVE  Transforms(CollidersInto(g, sep, solve, y), Pdag)
<1>1. SUFFICES ASSUME NEW x \in Vertex, NEW h \in Pdag
               PROVE  CollidersInto(g, sep, solve, y)[x][h] \in Pdag
  BY DEF Transforms
<1>2. CollidersInto(g, sep, solve, y)[x] = Loop(CollidersAt(g, sep, solve, x, y))
  BY DEF CollidersInto
<1>3. Loop(CollidersAt(g, sep, solve, x, y))[h] \in Pdag
  BY CollidersAtType, LoopType
<1>4. QED
  BY <1>2, <1>3

LEMMA CollidersIntoReach ==
  ASSUME NEW g, SkeletonMatrix(g), NEW sep, NEW solve \in BOOLEAN,
         NEW y \in Vertex, NEW Q \in SUBSET Arrow(g), HeadsUpTo(Q, y)
  PROVE  Adds(CollidersInto(g, sep, solve, y), g, solve, Q, ArrowsInto(g, sep, y, P))
<1> DEFINE edit == CollidersInto(g, sep, solve, y)
           drawn(k) == Q \cup ArrowsInto(g, sep, y, k)
           M == [k \in 0 .. P |-> Collided(g, solve, drawn(k))]
<1>1. P \in Nat /\ 0 \in 0 .. P /\ P \in 0 .. P
  BY PAssumption
<1>2. M \in [0 .. P -> Pdag]
  BY CollidedType
<1>3. \A k : drawn(k) \in SUBSET Arrow(g) /\ HeadsUpTo(drawn(k), y)
  <2>1. \A k : ArrowsInto(g, sep, y, k) \subseteq Arrow(g)
    BY DEF ArrowsInto
  <2>2. QED
    BY <2>1, ArrowHeads DEF HeadsUpTo
<1>4. ASSUME NEW x \in Vertex
      PROVE  edit[x][M[x]] = M[x + 1]
  <2>1. x \in 0 .. P /\ x + 1 \in 0 .. P
    BY <1>1 DEF Vertex
  <2>2. M[x] = Collided(g, solve, drawn(x)) /\ M[x + 1] = Collided(g, solve, drawn(x + 1))
    BY <2>1
  <2>3. edit[x] = Loop(CollidersAt(g, sep, solve, x, y))
    BY DEF CollidersInto
  <2>4. Adds(CollidersAt(g, sep, solve, x, y), g, solve, drawn(x), ArrowsAt(g, sep, x, y, P))
    <3> HIDE DEF drawn
    <3>1. QED
      BY <1>3, CollidersAtReach
  <2>5. drawn(x + 1) = drawn(x) \cup ArrowsAt(g, sep, x, y, P)
    BY ArrowsIntoGrow
  <2>6. QED
    BY <2>2, <2>3, <2>4, <2>5 DEF Adds
<1>5. Transforms(edit, Pdag)
  BY CollidersIntoType
<1>6. Loop(edit)[M[0]] = M[P]
  <2> HIDE DEF edit, M
  <2>1. QED
    BY <1>2, <1>4, <1>5, LoopReaches
<1>7. drawn(0) = Q
  BY ArrowsIntoGrow
<1>8. M[0] = Collided(g, solve, Q) /\ M[P] = Collided(g, solve, drawn(P))
  BY <1>1, <1>7
<1>9. QED
  BY <1>6, <1>8 DEF Adds

LEMMA CollidersReach ==
  ASSUME NEW g, SkeletonMatrix(g), NEW sep, NEW solve \in BOOLEAN
  PROVE  OrientColliders(g, sep, solve) = Collided(g, solve, ArrowsUpTo(g, sep, P))
<1> DEFINE edit == [y \in Vertex |-> Loop(CollidersInto(g, sep, solve, y))]
           drawn(k) == ArrowsUpTo(g, sep, k)
           M == [k \in 0 .. P |-> Collided(g, solve, drawn(k))]
<1>1. P \in Nat /\ 0 \in 0 .. P /\ P \in 0 .. P
  BY PAssumption
<1>2. M \in [0 .. P -> Pdag]
  BY CollidedType
<1>3. ASSUME NEW y \in Vertex
      PROVE  edit[y][M[y]] = M[y + 1]
  <2>1. y \in 0 .. P /\ y + 1 \in 0 .. P
    BY <1>1 DEF Vertex
  <2>2. M[y] = Collided(g, solve, drawn(y)) /\ M[y + 1] = Collided(g, solve, drawn(y + 1))
    BY <2>1
  <2>3. drawn(y) \in SUBSET Arrow(g) /\ HeadsUpTo(drawn(y), y)
    <3>1. HeadsUpTo(drawn(y), y)
      BY ArrowHeads
    <3>2. QED
      BY <3>1 DEF ArrowsUpTo
  <2>4. Adds(CollidersInto(g, sep, solve, y), g, solve, drawn(y), ArrowsInto(g, sep, y, P))
    <3> HIDE DEF drawn
    <3>1. QED
      BY <2>3, CollidersIntoReach
  <2>5. drawn(y + 1) = drawn(y) \cup ArrowsInto(g, sep, y, P)
    BY ArrowsUpToGrow
  <2>6. QED
    BY <2>2, <2>4, <2>5 DEF Adds
<1>4. Transforms(edit, Pdag)
  <2>1. ASSUME NEW y \in Vertex, NEW h \in Pdag PROVE edit[y][h] \in Pdag
    <3>1. Loop(CollidersInto(g, sep, solve, y))[h] \in Pdag
      BY CollidersIntoType, LoopType
    <3>2. QED
      BY <3>1
  <2> HIDE DEF edit
  <2>2. QED
    BY <2>1 DEF Transforms
<1>5. Loop(edit)[M[0]] = M[P]
  <2> HIDE DEF edit, M
  <2>1. QED
    BY <1>2, <1>3, <1>4, LoopReaches
<1>6. Collided(g, solve, {}) = g
  <2>1. ASSUME NEW a \in Vertex, NEW b \in Vertex
        PROVE  Collided(g, solve, {})[<<a, b>>] = g[<<a, b>>]
    <3>1. Collided(g, solve, {})[<<a, b>>] = IF ~AnyEdge(g, a, b) THEN 0 ELSE 1
      BY DEF Collided
    <3>2. g[<<a, b>>] \in 0 .. 1 /\ g[<<a, b>>] = g[<<b, a>>]
      BY DEF SkeletonMatrix
    <3>3. QED
      BY <3>1, <3>2 DEF AnyEdge
  <2>2. \A e \in Vertex \X Vertex : Collided(g, solve, {})[e] = g[e]
    BY <2>1
  <2>3. QED
    BY <2>2 DEF Collided, SkeletonMatrix
<1>7. M[0] = g /\ M[P] = Collided(g, solve, drawn(P))
  BY <1>1, <1>6, ArrowsUpToGrow
<1>8. OrientColliders(g, sep, solve) = Loop(edit)[g]
  BY DEF OrientColliders
<1>9. QED
  BY <1>5, <1>7, <1>8

LEMMA ColliderSymmetric ==
  ASSUME NEW g, SkeletonMatrix(g), NEW sep, NEW x \in Vertex, NEW y \in Vertex, NEW z \in Vertex
  PROVE  IsCollider(g, sep, x, y, z) => IsCollider(g, sep, z, y, x)
<1>1. {x, z} = {z, x}
  OBVIOUS
<1>2. /\ g[<<x, y>>] = g[<<y, x>>] /\ g[<<y, z>>] = g[<<z, y>>]
      /\ AnyEdge(g, x, z) <=> AnyEdge(g, z, x)
  BY DEF SkeletonMatrix, AnyEdge
<1>3. QED
  BY <1>1, <1>2 DEF IsCollider

\* The scan of the skeleton leaves the graph the collider rule defines.
LEMMA ColliderPhase ==
  ASSUME SkeletonMatrix(adjacency), solve_confl \in BOOLEAN
  PROVE  OrientColliders(adjacency, sepset, solve_confl) = ColliderReference
<1> DEFINE Q == ArrowsUpTo(adjacency, sepset, P)
           Into(a, b) == \E z \in Vertex : IsCollider(adjacency, sepset, a, b, z)
           h == Collided(adjacency, solve_confl, Q)
<1>1. OrientColliders(adjacency, sepset, solve_confl) = h
  BY CollidersReach
<1>2. ASSUME NEW a \in Vertex, NEW b \in Vertex
      PROVE  <<a, b>> \in Q <=> Into(a, b)
  <2>1. b < P
    BY PAssumption DEF Vertex
  <2>2. ASSUME <<a, b>> \in Q PROVE Into(a, b)
    <3>1. PICK x, z \in Vertex : IsCollider(adjacency, sepset, x, b, z) /\ a \in {x, z}
      BY <2>2 DEF ArrowsUpTo
    <3>2. IsCollider(adjacency, sepset, z, b, x)
      BY <3>1, ColliderSymmetric
    <3>3. QED
      BY <3>1, <3>2
  <2>3. ASSUME Into(a, b) PROVE <<a, b>> \in Q
    <3>1. PICK z \in Vertex : IsCollider(adjacency, sepset, a, b, z)
      BY <2>3
    <3>2. <<a, b>> \in Arrow(adjacency)
      BY <3>1, ColliderArrows
    <3>3. QED
      BY <2>1, <3>1, <3>2 DEF ArrowsUpTo
  <2>4. QED
    BY <2>2, <2>3
<1>3. ASSUME NEW a \in Vertex, NEW b \in Vertex
      PROVE  h[<<a, b>>] = ColliderReference[<<a, b>>]
  <2>1. h[<<a, b>>] =
          IF ~AnyEdge(adjacency, a, b) THEN 0
          ELSE IF ~Into(b, a) THEN 1
          ELSE IF ~Into(a, b) THEN 0
          ELSE IF solve_confl THEN 2
          ELSE IF a < b THEN 1 ELSE 0
    <3>1. (<<a, b>> \in Q <=> Into(a, b)) /\ (<<b, a>> \in Q <=> Into(b, a))
      BY <1>2
    <3> HIDE DEF Into, Q
    <3>2. QED
      BY <3>1, CollidedCell
  <2>2. ColliderReference[<<a, b>>] =
          CASE ~AnyEdge(adjacency, a, b) -> 0
            [] Into(a, b) /\ Into(b, a)  -> IF solve_confl THEN 2
                                            ELSE IF a < b THEN 1 ELSE 0
            [] OTHER                     -> IF Into(b, a) THEN 0 ELSE 1
    BY DEF ColliderReference
  <2>3. Into(a, b) /\ Into(b, a) => AnyEdge(adjacency, a, b)
    BY DEF IsCollider, AnyEdge
  <2> HIDE DEF Into, h
  <2>4. QED
    BY <2>1, <2>2, <2>3
<1>4. \A e \in Vertex \X Vertex : h[e] = ColliderReference[e]
  BY <1>3
<1>5. QED
  BY <1>1, <1>4 DEF Collided, ColliderReference

LEMMA ColliderPhaseKeeps ==
  ASSUME SkeletonMatrix(adjacency), solve_confl \in BOOLEAN
  PROVE  /\ OrientColliders(adjacency, sepset, solve_confl) \in Pdag
         /\ \A a, b \in Vertex : a # b =>
              /\ AnyEdge(OrientColliders(adjacency, sepset, solve_confl), a, b) <=> AnyEdge(adjacency, a, b)
              /\ OrientColliders(adjacency, sepset, solve_confl)[<<a, b>>] = 2 =>
                   OrientColliders(adjacency, sepset, solve_confl)[<<b, a>>] = 2 /\ solve_confl
<1> DEFINE Q == ArrowsUpTo(adjacency, sepset, P)
           h == Collided(adjacency, solve_confl, Q)
<1>1. OrientColliders(adjacency, sepset, solve_confl) = h
  BY CollidersReach
<1>2. h \in Pdag
  BY CollidedType
<1>3. ASSUME NEW a \in Vertex, NEW b \in Vertex, a # b
      PROVE  /\ AnyEdge(h, a, b) <=> AnyEdge(adjacency, a, b)
             /\ h[<<a, b>>] = 2 => h[<<b, a>>] = 2 /\ solve_confl
  <2>1. AnyEdge(adjacency, a, b) <=> AnyEdge(adjacency, b, a)
    BY DEF AnyEdge
  <2>2. /\ h[<<a, b>>] = (IF ~AnyEdge(adjacency, a, b) THEN 0
                          ELSE IF <<b, a>> \notin Q THEN 1
                          ELSE IF <<a, b>> \notin Q THEN 0
                          ELSE IF solve_confl THEN 2 ELSE IF a < b THEN 1 ELSE 0)
        /\ h[<<b, a>>] = (IF ~AnyEdge(adjacency, b, a) THEN 0
                          ELSE IF <<a, b>> \notin Q THEN 1
                          ELSE IF <<b, a>> \notin Q THEN 0
                          ELSE IF solve_confl THEN 2 ELSE IF b < a THEN 1 ELSE 0)
    BY CollidedCell
  <2>3. a \in Int /\ b \in Int
    BY DEF Vertex
  <2> HIDE DEF h, Q
  <2>4. AnyEdge(h, a, b) <=> h[<<a, b>>] # 0 \/ h[<<b, a>>] # 0
    BY DEF AnyEdge
  <2>5. CASE ~AnyEdge(adjacency, a, b)
    BY <2>1, <2>2, <2>4, <2>5
  <2>6. CASE AnyEdge(adjacency, a, b)
    BY <1>3, <2>1, <2>2, <2>3, <2>4, <2>6
  <2>7. QED
    BY <2>5, <2>6
<1>4. QED
  BY <1>1, <1>2, <1>3

-----------------------------------------------------------------------------
(* The search.                                                             *)

\* No undirected edge is left at v.
Settled(g, v) == \A b \in Vertex \ {v} : ~Undirected(g, v, b)

LEMMA GeneralizedOrients ==
  ASSUME NEW g \in Pdag, NEW v \in Vertex, NEW T \in SUBSET UndirectedNeighborhoods(g)[v]
  PROVE  /\ Orients(g, ApplyGeneralized(g, v, T, UndirectedNeighborhoods(g)[v]))
         /\ Settled(ApplyGeneralized(g, v, T, UndirectedNeighborhoods(g)[v]), v)
<1> DEFINE N == UndirectedNeighborhoods(g)[v]
           out == N \ T
           h == ApplyGeneralized(g, v, T, N)
<1>1. N = {b \in Vertex \ {v} : Undirected(g, v, b)}
  BY DEF UndirectedNeighborhoods
<1>2. {b \in N \ T : Undirected(g, v, b)} = out
  BY <1>1
<1>3. DOMAIN g = Vertex \X Vertex
  BY DEF Pdag
<1>4. h = [e \in Vertex \X Vertex |->
             CASE (e[2] = v /\ e[1] \in T) \/ (e[1] = v /\ e[2] \in out) -> 1
               [] (e[1] = v /\ e[2] \in T) \/ (e[2] = v /\ e[1] \in out) -> 0
               [] OTHER -> g[e]]
  BY <1>2, <1>3 DEF ApplyGeneralized
<1>5. T \subseteq Vertex \ {v} /\ out \subseteq Vertex \ {v} /\ T \cap out = {}
  BY <1>1
<1>6. \A b \in Vertex : b \in N <=> b \in T \/ b \in out
  OBVIOUS
<1> HIDE DEF h, out, N
<1>7. \A a, b \in Vertex : h[<<a, b>>] =
        CASE (b = v /\ a \in T) \/ (a = v /\ b \in out) -> 1
          [] (a = v /\ b \in T) \/ (b = v /\ a \in out) -> 0
          [] OTHER -> g[<<a, b>>]
  BY <1>4
<1>8. \A b \in T : h[<<b, v>>] = 1 /\ h[<<v, b>>] = 0
  BY <1>5, <1>7
<1>9. \A b \in out : h[<<v, b>>] = 1 /\ h[<<b, v>>] = 0
  BY <1>5, <1>7
<1>10. \A b \in Vertex \ {v} : b \notin N => h[<<b, v>>] = g[<<b, v>>] /\ h[<<v, b>>] = g[<<v, b>>]
  BY <1>5, <1>6, <1>7
<1>11. \A a, b \in Vertex : a # v /\ b # v => h[<<a, b>>] = g[<<a, b>>]
  BY <1>7
<1>12. h[<<v, v>>] = g[<<v, v>>]
  BY <1>5, <1>7
<1>13. h \in Pdag
  <2>1. ASSUME NEW a \in Vertex, NEW b \in Vertex PROVE h[<<a, b>>] \in 0 .. 2
    <3>1. g[<<a, b>>] \in 0 .. 2
      BY DEF Pdag
    <3>2. QED
      BY <3>1, <1>7
  <2>2. \A e \in Vertex \X Vertex : h[e] \in 0 .. 2
    BY <2>1
  <2>3. h = [e \in Vertex \X Vertex |-> h[e]]
    BY <1>4
  <2>4. QED
    BY <2>2, <2>3 DEF Pdag
<1>14. ASSUME NEW b \in Vertex \ {v}
       PROVE  /\ \/ h[<<b, v>>] = g[<<b, v>>] /\ h[<<v, b>>] = g[<<v, b>>]
                 \/ Undirected(g, v, b) /\ (Directed(h, v, b) \/ Directed(h, b, v))
              /\ ~Undirected(h, v, b)
  <2>1. CASE b \in N
    <3>1. Undirected(g, v, b)
      BY <2>1, <1>1
    <3>2. Directed(h, v, b) \/ Directed(h, b, v)
      BY <2>1, <1>6, <1>8, <1>9 DEF Directed
    <3>3. QED
      BY <3>1, <3>2 DEF Directed, Undirected
  <2>2. CASE b \notin N
    <3>1. ~Undirected(g, v, b)
      BY <2>2, <1>1
    <3>2. QED
      BY <2>2, <3>1, <1>10 DEF Undirected
  <2>3. QED
    BY <2>1, <2>2
<1>15. ASSUME NEW a \in Vertex, NEW b \in Vertex, a # b
       PROVE  \/ h[<<a, b>>] = g[<<a, b>>] /\ h[<<b, a>>] = g[<<b, a>>]
              \/ Undirected(g, a, b) /\ (Directed(h, a, b) \/ Directed(h, b, a))
  <2>1. CASE a = v
    BY <2>1, <1>14, <1>15
  <2>2. CASE b = v
    BY <2>2, <1>14, <1>15 DEF Undirected
  <2>3. CASE a # v /\ b # v
    BY <2>3, <1>11
  <2>4. QED
    BY <2>1, <2>2, <2>3
<1>16. Orients(g, h)
  BY <1>11, <1>12, <1>13, <1>15 DEF Orients
<1>17. Settled(h, v)
  BY <1>14 DEF Settled
<1>18. QED
  BY <1>16, <1>17 DEF h, N

LEMMA VertexCount == Cardinality(Vertex) = P
<1>1. P \in Int /\ P >= 1
  BY PAssumption
<1> DEFINE last == P - 1
<1>2. Cardinality(0 .. last) = IF 0 > last THEN 0 ELSE last - 0 + 1
  <2>1. last \in Int
    BY <1>1
  <2> HIDE DEF last
  <2>2. QED
    BY <2>1, FS_Interval
<1>3. Cardinality(Vertex) = P - 1 + 1
  BY <1>1, <1>2 DEF Vertex
<1>4. QED
  BY <1>1, <1>3

LEMMA NeighborCount ==
  ASSUME NEW N \in SUBSET Vertex, NEW v \in Vertex, v \notin N
  PROVE  IsFiniteSet(N) /\ Cardinality(N) \in 0 .. P - 1
<1>1. IsFiniteSet(Vertex) /\ IsFiniteSet(N)
  BY VertexFinite, FS_Subset
<1>2. N \subseteq Vertex \ {v} /\ IsFiniteSet(Vertex \ {v}) /\ Cardinality(Vertex \ {v}) = P - 1
  <2>1. IsFiniteSet(Vertex \ {v}) /\ Cardinality(Vertex \ {v}) = Cardinality(Vertex) - 1
    BY <1>1, FS_RemoveElement
  <2>2. QED
    BY <2>1, VertexCount
<1>3. Cardinality(N) <= Cardinality(Vertex \ {v})
  BY <1>2, FS_Subset
<1>4. Cardinality(N) \in Nat
  BY <1>1, FS_CardinalityType
<1>5. P \in Nat
  BY PAssumption
<1>6. QED
  BY <1>1, <1>2, <1>3, <1>4, <1>5

\* The subsets of any size up to that of a neighbourhood can be listed.
LEMMA SubsetsToTry ==
  ASSUME NEW N \in SUBSET Vertex, NEW k \in 0 .. Cardinality(N), Cardinality(N) \in Nat
  PROVE  /\ EnumerateCombinations(N, k) \in Seq(SUBSET N)
         /\ EnumerateCombinations(N, k) # << >>
<1> DEFINE n == Cardinality(N)
           T == {j \in 0 .. n : kSubset(n - j, N) # {}}
<1>1. IsFiniteSet(N)
  BY VertexFinite, FS_Subset
<1>2. 0 .. n \subseteq T
  <2>1. 0 \in T
    <3>1. N \in kSubset(n, N) /\ n - 0 = n
      BY DEF kSubset
    <3>2. QED
      BY <3>1
  <2>2. ASSUME NEW j \in 0 .. n - 1, j \in T PROVE j + 1 \in T
    <3>1. PICK A \in SUBSET N : Cardinality(A) = n - j
      BY <2>2 DEF kSubset
    <3>2. IsFiniteSet(A)
      BY <1>1, FS_Subset
    <3>3. A # {}
      BY <3>1, <3>2, FS_EmptySet
    <3>4. PICK a : a \in A
      BY <3>3
    <3>5. Cardinality(A \ {a}) = Cardinality(A) - 1
      BY <3>2, <3>4, FS_RemoveElement
    <3>6. Cardinality(A \ {a}) = n - (j + 1)
      BY <3>1, <3>5
    <3>7. A \ {a} \in kSubset(n - (j + 1), N)
      BY <3>6 DEF kSubset
    <3>8. QED
      BY <3>7
  <2>3. QED
    <3> HIDE DEF T
    <3>1. n \in Nat
      OBVIOUS
    <3> HIDE DEF n
    <3>2. QED
      BY <3>1, <2>1, <2>2, UpTo
<1>3. n - k \in 0 .. n /\ n - (n - k) = k
  OBVIOUS
<1>4. PICK A : A \in kSubset(k, N)
  BY <1>2, <1>3
<1>5. k \in Nat
  OBVIOUS
<1> DEFINE c == EnumerateCombinations(N, k)
<1>6. c \in Seq(SUBSET Vertex) /\ \A i \in DOMAIN c : c[i] \in kSubset(k, N)
  BY <1>5, CombinationsType
<1>7. \E i \in DOMAIN c : c[i] = A
  BY <1>4, <1>5, CombinationsInOrder
<1> HIDE DEF c
<1>8. \A i \in DOMAIN c : c[i] \in SUBSET N
  BY <1>6 DEF kSubset
<1>9. c \in Seq(SUBSET N) /\ c # << >>
  BY <1>6, <1>7, <1>8
<1>10. QED
  BY <1>9 DEF c

-----------------------------------------------------------------------------
(* The invariant.                                                          *)

InputInv == SkeletonMatrix(adjacency) /\ solve_confl \in BOOLEAN

\* Where the walk over sizes, vertices and subsets stands: the subsets still to
\* try, never none, are drawn from the neighbourhood of a vertex.
WalkInv ==
  /\ phase \in {"collider", "size", "vertex", "subset", "rules", "done"}
  /\ neighborhoods \in [Vertex -> SUBSET Vertex]
  /\ \A v \in Vertex : v \notin neighborhoods[v]
  /\ s \in 1 .. P /\ V \in 0 .. P
  /\ phase \in {"vertex", "subset", "rules"} => s <= P - 1
  /\ IF phase \in {"subset", "rules"}
     THEN /\ V \in Vertex
          /\ s2 \in 1 .. Cardinality(neighborhoods[V])
          /\ subsets \in Seq(SUBSET neighborhoods[V])
          /\ subsets # << >>
     ELSE s2 = 0 /\ subsets = << >>

\* A vertex keeps no undirected edge from its acceptance on, the passes of the
\* rules that follow it included.
GraphInv ==
  /\ pdag \in Pdag
  /\ nbhd_updated \subseteq Vertex
  /\ phase = "collider" => pdag = adjacency /\ nbhd_updated = {}
  /\ \A v \in nbhd_updated : Settled(pdag, v)
  /\ phase = "rules" => Settled(pdag, V)

OrientInv == InputInv /\ WalkInv /\ GraphInv /\ SearchSound

LEMMA NeighborhoodsType ==
  ASSUME NEW g
  PROVE  /\ UndirectedNeighborhoods(g) \in [Vertex -> SUBSET Vertex]
         /\ \A v \in Vertex : v \notin UndirectedNeighborhoods(g)[v]
         /\ \A v \in Vertex : Settled(g, v) => UndirectedNeighborhoods(g)[v] = {}
BY DEF UndirectedNeighborhoods, Settled

LEMMA OrientInit == Init => OrientInv
<1> SUFFICES ASSUME Init PROVE OrientInv
  OBVIOUS
<1>1. PICK adj \in SUBSET Pair :
        adjacency = [e \in Vertex \X Vertex |-> IF {e[1], e[2]} \in adj THEN 1 ELSE 0]
  BY DEF Init
<1>2. adjacency \in [Vertex \X Vertex -> 0 .. 1]
  BY <1>1
<1>3. \A a, b \in Vertex : adjacency[<<a, b>>] = adjacency[<<b, a>>]
  <2>1. SUFFICES ASSUME NEW a \in Vertex, NEW b \in Vertex
                 PROVE  adjacency[<<a, b>>] = adjacency[<<b, a>>]
    OBVIOUS
  <2>2. {a, b} = {b, a}
    OBVIOUS
  <2>3. /\ adjacency[<<a, b>>] = (IF {a, b} \in adj THEN 1 ELSE 0)
        /\ adjacency[<<b, a>>] = (IF {b, a} \in adj THEN 1 ELSE 0)
    BY <1>1
  <2>4. QED
    BY <2>2, <2>3
<1>4. InputInv
  BY <1>2, <1>3 DEF InputInv, SkeletonMatrix, Init
<1>5. /\ pdag = adjacency /\ nbhd_updated = {} /\ phase = "collider"
      /\ neighborhoods = [v \in Vertex |-> {}]
      /\ s = 1 /\ V = 0 /\ s2 = 0 /\ subsets = << >>
  BY DEF Init
<1>6. WalkInv
  BY <1>5, PAssumption DEF WalkInv
<1>7. pdag \in Pdag
  BY <1>2, <1>5 DEF Pdag
<1>8. GraphInv
  BY <1>5, <1>7 DEF GraphInv
<1>9. \A a, b \in Vertex : adjacency[<<a, b>>] # 2
  <2>1. SUFFICES ASSUME NEW a \in Vertex, NEW b \in Vertex PROVE adjacency[<<a, b>>] # 2
    OBVIOUS
  <2>2. adjacency[<<a, b>>] \in 0 .. 1
    BY <1>2
  <2>3. QED
    BY <2>2
<1>10. SearchSound
  <2>1. SkeletonKept
    <3>1. SUFFICES ASSUME NEW a \in Vertex, NEW b \in Vertex, a # b
                   PROVE  /\ AnyEdge(pdag, a, b) <=> AnyEdge(adjacency, a, b)
                          /\ pdag[<<a, b>>] = 2 => pdag[<<b, a>>] = 2 /\ solve_confl
      BY Zenon DEF SkeletonKept
    <3>2. pdag = adjacency
      BY <1>5
    <3>3. QED
      BY <3>1, <3>2, <1>9
  <2>2. CollidersMatch /\ NeighborhoodsFresh /\ UpdatedIsSettled /\ RulesClosed
    BY <1>5 DEF CollidersMatch, NeighborhoodsFresh, UpdatedIsSettled, RulesClosed
  <2>3. QED
    BY <2>1, <2>2 DEF SearchSound
<1>11. QED
  BY <1>4, <1>6, <1>8, <1>10 DEF OrientInv

\* What an orienting step keeps, and what it must change.
LEMMA OrientsKeeps ==
  ASSUME NEW g, NEW h, Orients(g, h)
  PROVE  /\ \A a, b \in Vertex : a # b =>
              /\ AnyEdge(h, a, b) <=> AnyEdge(g, a, b)
              /\ h[<<a, b>>] = 2 => g[<<a, b>>] = 2 /\ h[<<b, a>>] = g[<<b, a>>]
              /\ Directed(g, a, b) => Directed(h, a, b)
         /\ \A v \in Vertex : Settled(g, v) => Settled(h, v)
         /\ g # h => \E a, b \in Vertex : Undirected(g, a, b) /\ Directed(h, a, b)
<1>1. ASSUME NEW a \in Vertex, NEW b \in Vertex, a # b
      PROVE  /\ AnyEdge(h, a, b) <=> AnyEdge(g, a, b)
             /\ h[<<a, b>>] = 2 => g[<<a, b>>] = 2 /\ h[<<b, a>>] = g[<<b, a>>]
             /\ Directed(g, a, b) => Directed(h, a, b)
             /\ Undirected(h, a, b) => Undirected(g, a, b)
  <2>1. CASE h[<<a, b>>] = g[<<a, b>>] /\ h[<<b, a>>] = g[<<b, a>>]
    BY <2>1 DEF AnyEdge, Directed, Undirected
  <2>2. CASE Undirected(g, a, b) /\ (Directed(h, a, b) \/ Directed(h, b, a))
    BY <2>2 DEF AnyEdge, Directed, Undirected
  <2>3. QED
    BY <1>1, <2>1, <2>2 DEF Orients
<1>2. \A v \in Vertex : Settled(g, v) => Settled(h, v)
  BY <1>1 DEF Settled
<1>3. ASSUME g # h
      PROVE  \E a, b \in Vertex : Undirected(g, a, b) /\ Directed(h, a, b)
  <2>1. SUFFICES ASSUME \A a, b \in Vertex : ~(Undirected(g, a, b) /\ Directed(h, a, b))
                 PROVE  FALSE
    OBVIOUS
  <2>2. ASSUME NEW a \in Vertex, NEW b \in Vertex
        PROVE  h[<<a, b>>] = g[<<a, b>>]
    <3>1. CASE a = b
      BY <3>1 DEF Orients
    <3>2. CASE a # b
      <4>1. ~(Undirected(g, a, b) /\ (Directed(h, a, b) \/ Directed(h, b, a)))
        BY <2>1 DEF Undirected
      <4>2. QED
        BY <3>2, <4>1 DEF Orients
    <3>3. QED
      BY <3>1, <3>2
  <2>3. \A e \in Vertex \X Vertex : h[e] = g[e]
    BY <2>2
  <2>4. QED
    BY <1>3, <2>3 DEF Orients, Pdag
<1>4. QED
  BY <1>1, <1>2, <1>3

LEMMA SkeletonStaysKept ==
  ASSUME SkeletonKept, Orients(pdag, pdag'), UNCHANGED input
  PROVE  SkeletonKept'
<1>1. adjacency' = adjacency /\ solve_confl' = solve_confl
  BY DEF input
<1>2. SUFFICES ASSUME NEW a \in Vertex, NEW b \in Vertex, a # b
               PROVE  /\ AnyEdge(pdag', a, b) <=> AnyEdge(adjacency, a, b)
                      /\ pdag'[<<a, b>>] = 2 => pdag'[<<b, a>>] = 2 /\ solve_confl
  BY <1>1 DEF SkeletonKept, AnyEdge
<1>3. /\ AnyEdge(pdag, a, b) <=> AnyEdge(adjacency, a, b)
      /\ pdag[<<a, b>>] = 2 => pdag[<<b, a>>] = 2 /\ solve_confl
  BY <1>2 DEF SkeletonKept
<1>4. /\ AnyEdge(pdag', a, b) <=> AnyEdge(pdag, a, b)
      /\ pdag'[<<a, b>>] = 2 => pdag[<<a, b>>] = 2 /\ pdag'[<<b, a>>] = pdag[<<b, a>>]
  BY <1>2, OrientsKeeps
<1>5. QED
  BY <1>3, <1>4

-----------------------------------------------------------------------------
(* Every step keeps the invariant and the arrows.                          *)

Good == OrientInv' /\ OrientationKept

\* A step of the walk that touches neither the graph nor the neighbourhoods.
LEMMA GraphUnchanged ==
  ASSUME OrientInv, WalkInv', UNCHANGED <<input, pdag, neighborhoods, nbhd_updated>>,
         \/ phase \in {"size", "vertex", "subset"} /\ phase' \in {"size", "vertex", "subset", "done"}
         \/ phase' = phase /\ V' = V
  PROVE  Good
<1>1. /\ adjacency' = adjacency /\ sepset' = sepset /\ solve_confl' = solve_confl
      /\ pdag' = pdag /\ neighborhoods' = neighborhoods /\ nbhd_updated' = nbhd_updated
  BY DEF input
<1>2. InputInv'
  BY <1>1 DEF OrientInv, InputInv, SkeletonMatrix
<1>3. GraphInv'
  BY <1>1 DEF OrientInv, GraphInv
<1>4. ColliderReference' = ColliderReference
  BY <1>1 DEF ColliderReference
<1>5. CollidersMatch'
  BY <1>1, <1>4 DEF OrientInv, SearchSound, CollidersMatch
<1>6. SkeletonKept'
  BY <1>1 DEF OrientInv, SearchSound, SkeletonKept
<1>7. NeighborhoodsFresh'
  BY <1>1 DEF OrientInv, SearchSound, NeighborhoodsFresh
<1>8. UpdatedIsSettled'
  BY <1>1 DEF OrientInv, SearchSound, UpdatedIsSettled
<1>9. RulesClosed'
  BY <1>1 DEF OrientInv, SearchSound, RulesClosed
<1>10. OrientationKept
  BY <1>1 DEF OrientationKept
<1>11. QED
  BY <1>2, <1>3, <1>5, <1>6, <1>7, <1>8, <1>9, <1>10 DEF Good, OrientInv, SearchSound

LEMMA StutterKeeps ==
  ASSUME OrientInv, UNCHANGED vars
  PROVE  Good
<1>1. /\ UNCHANGED <<input, pdag, neighborhoods, nbhd_updated>>
      /\ phase' = phase /\ V' = V /\ s' = s /\ s2' = s2 /\ subsets' = subsets
      /\ neighborhoods' = neighborhoods
  BY DEF vars, input
<1>2. WalkInv'
  BY <1>1 DEF OrientInv, WalkInv
<1>3. QED
  BY <1>1, <1>2, GraphUnchanged

LEMMA CollidersKeeps ==
  ASSUME OrientInv, Colliders
  PROVE  Good
<1> DEFINE g == OrientColliders(adjacency, sepset, solve_confl)
<1>1. /\ phase = "collider" /\ pdag = adjacency /\ nbhd_updated = {}
      /\ SkeletonMatrix(adjacency) /\ solve_confl \in BOOLEAN
  BY DEF Colliders, OrientInv, GraphInv, InputInv
<1>2. /\ pdag' = g /\ neighborhoods' = UndirectedNeighborhoods(g)
      /\ phase' \in {"size", "done"}
      /\ adjacency' = adjacency /\ sepset' = sepset /\ solve_confl' = solve_confl
      /\ nbhd_updated' = nbhd_updated /\ s' = s /\ V' = V /\ s2' = s2 /\ subsets' = subsets
  BY <1>1 DEF Colliders, input
<1>3. /\ g \in Pdag
      /\ \A a, b \in Vertex : a # b =>
           /\ AnyEdge(g, a, b) <=> AnyEdge(adjacency, a, b)
           /\ g[<<a, b>>] = 2 => g[<<b, a>>] = 2 /\ solve_confl
  BY <1>1, ColliderPhaseKeeps
<1>4. g = ColliderReference
  BY <1>1, ColliderPhase
<1> HIDE DEF g
<1>5. InputInv'
  BY <1>2 DEF OrientInv, InputInv, SkeletonMatrix
<1>6. WalkInv'
  <2>1. /\ UndirectedNeighborhoods(g) \in [Vertex -> SUBSET Vertex]
        /\ \A v \in Vertex : v \notin UndirectedNeighborhoods(g)[v]
    BY NeighborhoodsType
  <2>2. s \in 1 .. P /\ V \in 0 .. P /\ s2 = 0 /\ subsets = << >>
    BY <1>1 DEF OrientInv, WalkInv
  <2>3. QED
    BY <1>2, <2>1, <2>2 DEF WalkInv
<1>7. GraphInv'
  BY <1>1, <1>2, <1>3 DEF GraphInv
<1>8. ColliderReference' = ColliderReference
  BY <1>2 DEF ColliderReference
<1>9. CollidersMatch'
  BY <1>2, <1>4, <1>8 DEF CollidersMatch
<1>10. SkeletonKept'
  BY <1>2, <1>3 DEF SkeletonKept
<1>11. NeighborhoodsFresh'
  BY <1>2 DEF NeighborhoodsFresh
<1>12. UpdatedIsSettled' /\ RulesClosed'
  BY <1>1, <1>2 DEF UpdatedIsSettled, RulesClosed
<1>13. OrientationKept
  BY <1>1 DEF OrientationKept
<1>14. QED
  BY <1>5, <1>6, <1>7, <1>9, <1>10, <1>11, <1>12, <1>13 DEF Good, OrientInv, SearchSound

LEMMA NextSizeKeeps ==
  ASSUME OrientInv, NextSize
  PROVE  Good
<1>1. WalkInv
  BY DEF OrientInv
<1>2. /\ phase = "size" /\ s2 = 0 /\ subsets = << >> /\ s \in 1 .. P
      /\ neighborhoods \in [Vertex -> SUBSET Vertex]
      /\ \A v \in Vertex : v \notin neighborhoods[v]
  BY <1>1 DEF NextSize, WalkInv
<1>3. /\ phase' \in {"vertex", "done"} /\ V' = 0 /\ s' = s /\ s2' = s2 /\ subsets' = subsets
      /\ neighborhoods' = neighborhoods
      /\ UNCHANGED <<input, pdag, neighborhoods, nbhd_updated>>
      /\ phase' = "vertex" => MoreSizes
  BY DEF NextSize
<1>4. MoreSizes => s <= P - 1
  <2>1. SUFFICES ASSUME NEW v \in Vertex, Cardinality(neighborhoods[v]) >= s PROVE s <= P - 1
    BY DEF MoreSizes
  <2>2. Cardinality(neighborhoods[v]) \in 0 .. P - 1
    BY <1>2, NeighborCount
  <2>3. QED
    BY <1>2, <2>1, <2>2, PAssumption
<1>5. WalkInv'
  BY <1>2, <1>3, <1>4, PAssumption DEF WalkInv
<1>6. QED
  BY <1>2, <1>3, <1>5, GraphUnchanged

\* What a step of the search starts from.
LEMMA WalkFacts ==
  ASSUME OrientInv
  PROVE  /\ s \in Int /\ V \in Int /\ P \in Int
         /\ \A v \in Vertex : /\ neighborhoods[v] \in SUBSET Vertex
                              /\ v \notin neighborhoods[v]
                              /\ Cardinality(neighborhoods[v]) \in 0 .. P - 1
                              /\ Cardinality(neighborhoods[v]) \in Nat
<1>1. /\ neighborhoods \in [Vertex -> SUBSET Vertex]
      /\ \A v \in Vertex : v \notin neighborhoods[v]
      /\ s \in Int /\ V \in Int
  BY DEF OrientInv, WalkInv
<1>2. P \in Int
  BY PAssumption
<1>3. ASSUME NEW v \in Vertex
      PROVE  Cardinality(neighborhoods[v]) \in 0 .. P - 1 /\ Cardinality(neighborhoods[v]) \in Nat
  <2>1. Cardinality(neighborhoods[v]) \in 0 .. P - 1
    BY <1>1, NeighborCount
  <2>2. QED
    BY <2>1, <1>2
<1>4. QED
  BY <1>1, <1>2, <1>3

LEMMA VisitVertexKeeps ==
  ASSUME OrientInv, VisitVertex
  PROVE  Good
<1>1. /\ phase = "vertex" /\ V < P /\ s2 = 0 /\ subsets = << >> /\ V \in Vertex
      /\ s \in 1 .. P /\ s <= P - 1
      /\ neighborhoods \in [Vertex -> SUBSET Vertex]
      /\ \A v \in Vertex : v \notin neighborhoods[v]
  BY WalkFacts DEF OrientInv, WalkInv, VisitVertex, Vertex
<1>2. neighborhoods' = neighborhoods /\ s' = s
      /\ UNCHANGED <<input, pdag, neighborhoods, nbhd_updated>>
  BY DEF VisitVertex
<1> DEFINE size == Cardinality(neighborhoods[V])
<1>3. size \in Nat /\ neighborhoods[V] \in SUBSET Vertex
  BY <1>1, WalkFacts
<1>4. CASE Eligible /\ size > 0
  <2>1. /\ s2' = size /\ phase' = "subset" /\ V' = V
        /\ subsets' = EnumerateCombinations(neighborhoods[V], size)
    BY <1>4 DEF VisitVertex
  <2>2. size \in 0 .. Cardinality(neighborhoods[V]) /\ size \in 1 .. size
    BY <1>3, <1>4
  <2>3. subsets' \in Seq(SUBSET neighborhoods[V]) /\ subsets' # << >>
    BY <1>3, <2>1, <2>2, SubsetsToTry
  <2>4. WalkInv'
    BY <1>1, <1>2, <2>1, <2>2, <2>3, WalkFacts DEF WalkInv
  <2>5. QED
    BY <1>1, <1>2, <2>1, <2>4, GraphUnchanged
<1>5. CASE ~(Eligible /\ size > 0)
  <2>1. V' = V + 1 /\ s2' = s2 /\ subsets' = subsets /\ phase' = phase
    BY <1>5 DEF VisitVertex
  <2>2. V' \in 0 .. P
    BY <1>1, <2>1, WalkFacts DEF Vertex
  <2>3. WalkInv'
    BY <1>1, <1>2, <2>1, <2>2 DEF WalkInv
  <2>4. QED
    BY <1>1, <1>2, <2>1, <2>3, GraphUnchanged
<1>6. QED
  BY <1>4, <1>5

LEMMA EndOfRoundKeeps ==
  ASSUME OrientInv, EndOfRound
  PROVE  Good
<1>1. /\ phase = "vertex" /\ s2 = 0 /\ subsets = << >> /\ V \in 0 .. P
      /\ s \in 1 .. P /\ s <= P - 1
      /\ neighborhoods \in [Vertex -> SUBSET Vertex]
      /\ \A v \in Vertex : v \notin neighborhoods[v]
  BY DEF OrientInv, WalkInv, EndOfRound
<1>2. /\ neighborhoods' = neighborhoods /\ s' = s + 1 /\ phase' = "size"
      /\ V' = V /\ s2' = s2 /\ subsets' = subsets
      /\ UNCHANGED <<input, pdag, neighborhoods, nbhd_updated>>
  BY DEF EndOfRound
<1>3. s' \in 1 .. P
  BY <1>1, <1>2, WalkFacts
<1>4. WalkInv'
  BY <1>1, <1>2, <1>3 DEF WalkInv
<1>5. QED
  BY <1>1, <1>2, <1>4, GraphUnchanged

LEMMA RefuseKeeps ==
  ASSUME OrientInv, Refuse
  PROVE  Good
<1>1. /\ phase = "subset" /\ V \in Vertex /\ s \in 1 .. P /\ s <= P - 1
      /\ neighborhoods \in [Vertex -> SUBSET Vertex]
      /\ \A v \in Vertex : v \notin neighborhoods[v]
      /\ s2 \in 1 .. Cardinality(neighborhoods[V])
      /\ subsets \in Seq(SUBSET neighborhoods[V]) /\ subsets # << >>
  BY DEF OrientInv, WalkInv, Refuse
<1>2. /\ neighborhoods' = neighborhoods /\ s' = s /\ NextSubset
      /\ UNCHANGED <<input, pdag, neighborhoods, nbhd_updated>>
  BY DEF Refuse
<1>3. Cardinality(neighborhoods[V]) \in Nat /\ neighborhoods[V] \in SUBSET Vertex
  BY <1>1, WalkFacts
<1>4. WalkInv' /\ phase' \in {"subset", "vertex"}
  <2>1. CASE Len(subsets) > 1 /\ subsets' = Tail(subsets) /\ UNCHANGED <<s2, V, phase>>
    <3>1. subsets' \in Seq(SUBSET neighborhoods[V]) /\ subsets' # << >>
      BY <1>1, <2>1
    <3>2. QED
      BY <1>1, <1>2, <2>1, <3>1, WalkFacts DEF WalkInv, Vertex
  <2>2. CASE /\ s2 > 1 /\ s2' = s2 - 1 /\ UNCHANGED <<V, phase>>
             /\ subsets' = EnumerateCombinations(neighborhoods[V], s2 - 1)
    <3>1. s2 - 1 \in 0 .. Cardinality(neighborhoods[V]) /\ s2' \in 1 .. Cardinality(neighborhoods[V])
      BY <1>1, <1>3, <2>2
    <3>2. subsets' \in Seq(SUBSET neighborhoods[V]) /\ subsets' # << >>
      BY <1>3, <2>2, <3>1, SubsetsToTry
    <3>3. QED
      BY <1>1, <1>2, <2>2, <3>1, <3>2, WalkFacts DEF WalkInv, Vertex
  <2>3. CASE s2' = 0 /\ subsets' = << >> /\ V' = V + 1 /\ phase' = "vertex"
    <3>1. V' \in 0 .. P
      BY <1>1, <2>3, WalkFacts DEF Vertex
    <3>2. QED
      BY <1>1, <1>2, <2>3, <3>1 DEF WalkInv
  <2>4. QED
    BY <1>2, <2>1, <2>2, <2>3 DEF NextSubset
<1>5. QED
  BY <1>1, <1>2, <1>4, GraphUnchanged

\* A step that edits the graph by turning undirected edges into arrows, and
\* leaves the search in the middle of the rules.
LEMMA GraphOriented ==
  ASSUME OrientInv, phase \in {"subset", "rules"}, phase' = "rules",
         Orients(pdag, pdag'), Settled(pdag', V),
         UNCHANGED <<input, neighborhoods, nbhd_updated, s, V, s2, subsets>>
  PROVE  Good
<1>1. /\ adjacency' = adjacency /\ sepset' = sepset /\ solve_confl' = solve_confl
      /\ UNCHANGED input
      /\ neighborhoods' = neighborhoods /\ nbhd_updated' = nbhd_updated
      /\ s' = s /\ V' = V /\ s2' = s2 /\ subsets' = subsets
  BY DEF input
<1>2. InputInv'
  BY <1>1 DEF OrientInv, InputInv, SkeletonMatrix
<1>3. WalkInv'
  BY <1>1 DEF OrientInv, WalkInv
<1>4. /\ \A v \in Vertex : Settled(pdag, v) => Settled(pdag', v)
      /\ \A a, b \in Vertex : a # b /\ Directed(pdag, a, b) => Directed(pdag', a, b)
      /\ pdag # pdag' => \E a, b \in Vertex : Undirected(pdag, a, b) /\ Directed(pdag', a, b)
  BY OrientsKeeps
<1>5. nbhd_updated \subseteq Vertex /\ \A v \in nbhd_updated : Settled(pdag, v)
  BY DEF OrientInv, GraphInv
<1>6. GraphInv'
  BY <1>1, <1>4, <1>5 DEF GraphInv, Orients
<1>7. SkeletonKept'
  BY <1>1, SkeletonStaysKept DEF OrientInv, SearchSound
<1>8. UpdatedIsSettled'
  BY <1>1 DEF OrientInv, SearchSound, UpdatedIsSettled
<1>9. CollidersMatch' /\ NeighborhoodsFresh' /\ RulesClosed'
  BY DEF CollidersMatch, NeighborhoodsFresh, RulesClosed
<1>10. OrientationKept
  BY <1>4 DEF OrientationKept
<1>11. QED
  BY <1>2, <1>3, <1>6, <1>7, <1>8, <1>9, <1>10 DEF Good, OrientInv, SearchSound

LEMMA AcceptKeeps ==
  ASSUME OrientInv, Accept
  PROVE  Good
<1>1. /\ phase = "subset" /\ V \in Vertex /\ pdag \in Pdag
      /\ subsets \in Seq(SUBSET neighborhoods[V]) /\ subsets # << >>
      /\ neighborhoods = UndirectedNeighborhoods(pdag)
  BY DEF OrientInv, WalkInv, GraphInv, SearchSound, NeighborhoodsFresh, Accept
<1>2. /\ pdag' = ApplyGeneralized(pdag, V, Head(subsets), neighborhoods[V])
      /\ phase' = "rules"
      /\ UNCHANGED <<input, neighborhoods, nbhd_updated, s, V, s2, subsets>>
  BY DEF Accept
<1>3. Head(subsets) \in SUBSET UndirectedNeighborhoods(pdag)[V]
  BY <1>1
<1>4. Orients(pdag, pdag') /\ Settled(pdag', V)
  BY <1>1, <1>2, <1>3, GeneralizedOrients
<1>5. QED
  BY <1>1, <1>2, <1>4, GraphOriented

LEMMA RulePassKeeps ==
  ASSUME OrientInv, RulePass
  PROVE  Good
<1>1. phase = "rules" /\ V \in Vertex /\ pdag \in Pdag /\ Settled(pdag, V)
  BY DEF OrientInv, WalkInv, GraphInv, RulePass
<1>2. /\ pdag' = ApplyRules(pdag, solve_confl) /\ phase' = phase
      /\ UNCHANGED <<input, neighborhoods, nbhd_updated, s, V, s2, subsets>>
  BY DEF RulePass
<1>3. Orients(pdag, pdag')
  BY <1>1, <1>2, RulesOrient
<1>4. Settled(pdag', V)
  BY <1>1, <1>3, OrientsKeeps
<1>5. QED
  BY <1>1, <1>2, <1>3, <1>4, GraphOriented

LEMMA RulesDoneKeeps ==
  ASSUME OrientInv, RulesDone
  PROVE  Good
<1>1. /\ phase = "rules" /\ V \in Vertex /\ pdag \in Pdag
      /\ nbhd_updated \subseteq Vertex /\ s \in 1 .. P /\ s <= P - 1
      /\ \A v \in nbhd_updated : Settled(pdag, v)
      /\ Settled(pdag, V)
  BY DEF OrientInv, WalkInv, GraphInv, RulesDone
<1>2. /\ adjacency' = adjacency /\ sepset' = sepset /\ solve_confl' = solve_confl
      /\ pdag' = pdag /\ s' = s
      /\ neighborhoods' = UndirectedNeighborhoods(pdag)
      /\ nbhd_updated' = nbhd_updated \cup {V}
      /\ s2' = 0 /\ subsets' = << >> /\ V' = V + 1 /\ phase' = "vertex"
  BY DEF RulesDone, Refreshed, input
<1>3. InputInv'
  BY <1>2 DEF OrientInv, InputInv, SkeletonMatrix
<1>4. V' \in 0 .. P
  BY <1>1, <1>2, WalkFacts DEF Vertex
<1>5. WalkInv'
  BY <1>1, <1>2, <1>4, NeighborhoodsType DEF WalkInv
<1>6. GraphInv'
  BY <1>1, <1>2 DEF GraphInv
<1>7. SkeletonKept'
  BY <1>2 DEF OrientInv, SearchSound, SkeletonKept
<1>8. NeighborhoodsFresh'
  BY <1>2 DEF NeighborhoodsFresh
<1>9. UpdatedIsSettled'
  BY <1>1, <1>2, NeighborhoodsType DEF UpdatedIsSettled
<1>10. CollidersMatch'
  BY <1>2 DEF CollidersMatch
<1>11. ApplyRules(pdag, solve_confl) = pdag
  BY DEF RulesDone, Converged
<1>12. /\ \A a, b, c \in Vertex : a # b /\ Directed(pdag, a, b) => ~Rule1Applies(pdag, a, b, c)
       /\ \A a, b \in Vertex : a # b => ~Rule2Applies(pdag, a, b) /\ ~Rule3Applies(pdag, a, b)
  BY <1>1, <1>11, RulesOrient
<1>13. RulesClosed'
  <2>1. SUFFICES ASSUME NEW a \in Vertex, NEW b \in Vertex, a # b
                 PROVE  /\ ~Rule2Applies(pdag, a, b) /\ ~Rule3Applies(pdag, a, b)
                        /\ \A c \in Vertex : Directed(pdag, a, b) /\ c \notin {a, b}
                              => AnyEdge(pdag, a, c) \/ ~Undirected(pdag, b, c)
    BY <1>2, Zenon DEF RulesClosed
  <2>2. QED
    BY <1>12, <2>1 DEF Rule1Applies
<1>14. OrientationKept
  BY <1>2 DEF OrientationKept
<1>15. QED
  BY <1>3, <1>5, <1>6, <1>7, <1>8, <1>9, <1>10, <1>13, <1>14 DEF Good, OrientInv, SearchSound

-----------------------------------------------------------------------------
(* The theorems.                                                           *)

LEMMA StepKeeps == OrientInv /\ [Next]_vars => Good
<1> SUFFICES ASSUME OrientInv, [Next]_vars PROVE Good
  OBVIOUS
<1>1. CASE Colliders
  BY <1>1, CollidersKeeps
<1>2. CASE NextSize
  BY <1>2, NextSizeKeeps
<1>3. CASE VisitVertex
  BY <1>3, VisitVertexKeeps
<1>4. CASE EndOfRound
  BY <1>4, EndOfRoundKeeps
<1>5. CASE Refuse
  BY <1>5, RefuseKeeps
<1>6. CASE Accept
  BY <1>6, AcceptKeeps
<1>7. CASE RulePass
  BY <1>7, RulePassKeeps
<1>8. CASE RulesDone
  BY <1>8, RulesDoneKeeps
<1>9. CASE UNCHANGED vars
  BY <1>9, StutterKeeps
<1>10. QED
  BY <1>1, <1>2, <1>3, <1>4, <1>5, <1>6, <1>7, <1>8, <1>9 DEF Next, Done

\* The inductive invariant of the orientation phase of orient_wanpdag_native.
THEOREM OrientationInvariant == Spec => []OrientInv
<1>1. OrientInv /\ [Next]_vars => OrientInv'
  BY StepKeeps DEF Good
<1>2. QED
  BY OrientInit, <1>1, PTL DEF Spec

\* Every variable keeps its type: the rounds stop at the largest neighbourhood,
\* so s never passes P, and the subsets to try are drawn from the neighbourhood
\* of the vertex visited.
THEOREM OrientationTypes == Spec => []TypeOK
<1>1. ASSUME OrientInv PROVE TypeOK
  <2>1. /\ pdag \in Pdag /\ nbhd_updated \subseteq Vertex
        /\ neighborhoods \in [Vertex -> SUBSET Vertex]
        /\ s \in 1 .. P /\ V \in 0 .. P
        /\ phase \in {"collider", "size", "vertex", "subset", "rules", "done"}
    BY <1>1 DEF OrientInv, WalkInv, GraphInv
  <2>2. /\ s2 \in 0 .. P - 1
        /\ \A k \in DOMAIN subsets : subsets[k] \subseteq neighborhoods[V]
    <3>1. CASE phase \in {"subset", "rules"}
      <4>1. /\ V \in Vertex /\ s2 \in 1 .. Cardinality(neighborhoods[V])
            /\ subsets \in Seq(SUBSET neighborhoods[V])
        BY <1>1, <3>1 DEF OrientInv, WalkInv
      <4>2. Cardinality(neighborhoods[V]) \in 0 .. P - 1 /\ P \in Int
        BY <1>1, <4>1, WalkFacts
      <4>3. s2 \in 0 .. P - 1
        BY <4>1, <4>2
      <4>4. QED
        BY <4>1, <4>3
    <3>2. CASE phase \notin {"subset", "rules"}
      BY <1>1, <3>2, PAssumption DEF OrientInv, WalkInv
    <3>3. QED
      BY <3>1, <3>2
  <2>3. QED
    BY <2>1, <2>2 DEF TypeOK
<1>2. QED
  BY OrientationInvariant, <1>1, PTL

\* Between acceptances the search works on one consistent graph: the edges of
\* the skeleton, the neighbourhoods of the graph as it is, no edge left at a
\* vertex it accepted, no rule of apply_rules_until_converged left to apply;
\* and until the first acceptance the graph orient_colliders defines, whatever
\* order its scan meets the triples in.
THEOREM SearchStaysSound == Spec => []SearchSound
<1>1. OrientInv => SearchSound
  BY DEF OrientInv
<1>2. QED
  BY OrientationInvariant, <1>1, PTL

\* After the collider phase no acceptance and no rule turns an arrow round,
\* erases it or marks it, and a step that edits the graph orients an edge.
THEOREM ArrowsFinal == Spec => OrientationsKept
<1>1. OrientInv /\ [Next]_vars => OrientationKept
  BY StepKeeps DEF Good
<1>2. QED
  BY OrientationInvariant, <1>1, PTL DEF Spec, OrientationsKept

=============================================================================
