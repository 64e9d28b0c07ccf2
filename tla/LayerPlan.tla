----------------------------- MODULE LayerPlan -----------------------------
(***************************************************************************)
(* The layer plan of one conditioning level: make_layer_plan of            *)
(* fastkpc/src/skeleton_task_scheduler.cpp, shared by the CPU engine, the  *)
(* CUDA batch engine and the strict one-call frontier engine.              *)
(*                                                                         *)
(* A skeleton over P variables is a p x p adjacency matrix; it is kept here *)
(* as the set of its nonzero ordered cells, because the code reads and     *)
(* writes the two orientations of an edge separately.                      *)
(***************************************************************************)
EXTENDS Integers, FiniteSets, Sequences, FiniteSetsExt

CONSTANT P          \* number of variables (columns of the data matrix)

ASSUME PAssumption == P \in Nat \ {0}

Vertex == 0 .. P - 1

Cell == Vertex \X Vertex

\* The edges a level visits: edge_key = x * p + y with x < y.
Edge == {e \in Cell : e[1] < e[2]}

\* neighbors_from_snapshot: column `vertex` of the matrix, without `excluded`.
NeighborsFromSnapshot(adj, vertex, excluded) ==
  {i \in Vertex : i # excluded /\ <<i, vertex>> \in adj}

\* The visiting order of enumerate_combinations is the lexicographic order of
\* ascending vectors of one length; on sets of one size that is decided by the
\* least element in which they differ.
LexLess(A, B) ==
  \E k \in A \ B : \A j \in (A \ B) \cup (B \ A) : k <= j

\* enumerate_combinations: the k-subsets in visiting order.
EnumerateCombinations(S, k) ==
  LET combos == kSubset(k, S)
      rank(A) == Cardinality({B \in combos : LexLess(B, A)})
  IN  [i \in 1 .. Cardinality(combos) |-> CHOOSE A \in combos : rank(A) = i - 1]

\* A CI task tests orientation x against y given S; `opens` is opens_next_level.
Task == [x : Vertex, y : Vertex, S : SUBSET Vertex, opens : BOOLEAN]

\* The first task of a direction opens the next level when the direction has
\* enough neighbours for it.  (Mutant: off by one.)
MutOpensNextLevel(nbrs, level, i) == i = 1 /\ Cardinality(nbrs) > level + 1

OpensNextLevel(nbrs, level, i) == i = 1 /\ Cardinality(nbrs) > level

DirectionTasks(adj, level, x, y) ==
  LET nbrs   == NeighborsFromSnapshot(adj, x, y)
      combos == EnumerateCombinations(nbrs, level)
  IN  [i \in DOMAIN combos |->
         [x |-> x, y |-> y, S |-> combos[i],
          opens |-> OpensNextLevel(nbrs, level, i)]]

\* The tasks of edge e in plan order: orientation (x, y) first, then (y, x).
EdgeTasks(adj, level, e) ==
  IF e \in adj
  THEN DirectionTasks(adj, level, e[1], e[2])
         \o DirectionTasks(adj, level, e[2], e[1])
  ELSE << >>

\* make_layer_plan, indexed by edge as edge_tasks of the frontier engine is.
MakeLayerPlan(adj, level) == [e \in Edge |-> EdgeTasks(adj, level, e)]

\* The planned tasks are named by their edge and their position in its list.
TaskIds(plan) == UNION {{e} \X DOMAIN plan[e] : e \in Edge}

\* plan.tasks: the flat task list, edges in ascending edge_key order.
TaskLess(s, t) ==
  LET key(u) == u[1][1] * P + u[1][2]
  IN  key(s) < key(t) \/ (key(s) = key(t) /\ s[2] < t[2])

TaskList(plan) ==
  LET ids == TaskIds(plan)
      rank(t) == Cardinality({s \in ids : TaskLess(s, t)})
  IN  [k \in 1 .. Cardinality(ids) |-> CHOOSE t \in ids : rank(t) = k - 1]

\* pcalg_task_less: the order in which pcalg (and R's random stream) sees tasks.
PcalgTaskLess(s, t) ==
  \/ s.x < t.x
  \/ s.x = t.x /\ s.y < t.y
  \/ s.x = t.x /\ s.y = t.y /\ LexLess(s.S, t.S)

=============================================================================
