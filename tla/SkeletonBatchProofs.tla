------------------------ MODULE SkeletonBatchProofs ------------------------
(***************************************************************************)
(* The CUDA batch engine and the CPU engine it falls back to implement the *)
(* level semantics of SkeletonLevels: for every number of variables, every *)
(* batch size and both fallback policies, with NaN p-values.               *)
(***************************************************************************)
EXTENDS SkeletonBatch, LayerPlanProofs

\* What the walk over a level's task list knows: the tasks it has passed were
\* tested or belong to an edge it has deleted, and it tests a task only when
\* the sequential engine would.
WalkInv ==
  /\ status = "running" /\ level <= MaxLevel
  /\ plan = MakeLayerPlan(adj, level)
  /\ tasks = TaskList(plan)
  /\ cursor \in 0 .. Len(tasks)
  /\ outcomes \in [DOMAIN outcomes -> PValue]
  /\ \A t \in DOMAIN outcomes :
       /\ Reached(outcomes, t[1], t[2])
       /\ \E k \in 1 .. cursor : tasks[k] = t
  /\ \A k \in 1 .. cursor : tasks[k] \in DOMAIN outcomes \/ tasks[k][1] \in edge_done
  /\ edge_done = RemovedEdges(outcomes)
  /\ delete_edges = UNION {Cells(e) : e \in edge_done}

\* What the batches know: they tile the task list before the walk begins.
BatchesInv ==
  /\ evaluated \in Nat
  /\ phase = "evaluate" => engine = "cuda" /\ cursor = 0 /\ evaluated < Len(tasks)
  /\ phase = "replay" /\ engine = "cuda" => evaluated = Len(tasks)

BatchInv ==
  /\ level \in Nat
  /\ phase \in {"plan", "evaluate", "replay"}
  /\ status = "running" => level <= MaxLevel
  /\ phase = "plan" => outcomes = NoOutcome
  /\ phase # "plan" => WalkInv
  /\ BatchesInv

-----------------------------------------------------------------------------
LEMMA InitBatch == Init => BatchInv
BY MaxLevelAssumption DEF Init, BatchInv, BatchesInv

\* Nothing tested, nothing deleted.
LEMMA NothingRemoved == DOMAIN NoOutcome = {} /\ RemovedEdges(NoOutcome) = {}
BY DEF NoOutcome, RemovedEdges, Separators

LEMMA BeginBatch ==
  ASSUME BatchInv, BeginLevel
  PROVE  BatchInv'
<1>1. /\ outcomes' = NoOutcome /\ status' = "running" /\ level' = level /\ adj' = adj
      /\ engine' = engine /\ level \in Nat /\ level <= MaxLevel
      /\ plan' = MakeLayerPlan(adj, level) /\ tasks' = TaskList(plan')
      /\ cursor' = 0 /\ evaluated' = 0 /\ edge_done' = {} /\ delete_edges' = {}
      /\ phase' = IF engine = "cuda" /\ tasks' # << >> THEN "evaluate" ELSE "replay"
  BY DEF BeginLevel, BatchInv, resultVars
<1>2. plan' \in [Edge -> Seq(Task)]
  BY <1>1, PlanType
<1>3. Len(tasks') \in Nat /\ tasks' \in [1 .. Len(tasks') -> TaskIds(plan')]
  BY <1>1, <1>2, TaskListInOrder
<1>4. tasks' # << >> <=> Len(tasks') # 0
  BY <1>3
<1>5. WalkInv'
  BY <1>1, <1>3, NothingRemoved DEF WalkInv
<1>6. BatchesInv'
  BY <1>1, <1>3, <1>4 DEF BatchesInv
<1>7. QED
  BY <1>1, <1>5, <1>6 DEF BatchInv

LEMMA EvaluateBatchInv ==
  ASSUME BatchInv, EvaluateBatch
  PROVE  BatchInv'
<1>1. /\ phase = "evaluate" /\ evaluated' = BatchEnd
      /\ phase' = IF MoreBatches THEN "evaluate" ELSE "replay"
      /\ UNCHANGED <<engine, status, level, adj, sepsets, pmax, outcomes, plan, tasks,
                     cursor, edge_done, delete_edges>>
  BY DEF EvaluateBatch, resultVars
<1>2. WalkInv /\ BatchesInv /\ engine = "cuda" /\ cursor = 0 /\ evaluated \in Nat
  BY <1>1 DEF BatchInv, BatchesInv
<1>3. plan \in [Edge -> Seq(Task)]
  BY <1>2, PlanType DEF WalkInv, BatchInv
<1>4. Len(tasks) \in Nat
  BY <1>2, <1>3, TaskListInOrder DEF WalkInv
<1>5. /\ BatchEnd \in Nat /\ BatchEnd <= Len(tasks)
  <2> DEFINE a == evaluated + BatchSize
             b == Len(tasks)
  <2>1. a \in Nat /\ b \in Nat
    BY <1>2, <1>4, BatchAssumption
  <2> HIDE DEF a, b
  <2>2. Min({a, b}) \in {a, b} /\ Min({a, b}) <= b
    BY <2>1 DEF Min
  <2>3. QED
    BY <2>1, <2>2 DEF BatchEnd, a, b
<1>6. WalkInv'
  BY <1>1, <1>2 DEF WalkInv
<1>7. BatchesInv'
  BY <1>1, <1>2, <1>4, <1>5 DEF BatchesInv, MoreBatches
<1>8. QED
  BY <1>1, <1>2, <1>6, <1>7 DEF BatchInv

\* The task the walk comes to.
LEMMA NextOfWalk ==
  ASSUME BatchInv, phase = "replay", cursor < Len(tasks)
  PROVE  /\ cursor \in Nat /\ cursor + 1 \in 1 .. Len(tasks)
         /\ plan \in [Edge -> Seq(Task)]
         /\ tasks[cursor + 1] = <<tasks[cursor + 1][1], tasks[cursor + 1][2]>>
         /\ tasks[cursor + 1][1] \in Edge
         /\ tasks[cursor + 1][2] \in DOMAIN plan[tasks[cursor + 1][1]]
         /\ tasks[cursor + 1] \notin DOMAIN outcomes
<1>1. WalkInv /\ level \in Nat
  BY DEF BatchInv
<1>2. plan \in [Edge -> Seq(Task)]
  BY <1>1, PlanType DEF WalkInv
<1>3. /\ Len(tasks) \in Nat /\ tasks \in [1 .. Len(tasks) -> TaskIds(plan)]
      /\ \A j, k \in 1 .. Len(tasks) : tasks[j] = tasks[k] => j = k
  BY <1>1, <1>2, TaskListInOrder DEF WalkInv
<1>4. cursor \in Nat /\ cursor + 1 \in 1 .. Len(tasks)
  BY <1>1, <1>3 DEF WalkInv
<1>5. tasks[cursor + 1] \in TaskIds(plan)
  BY <1>3, <1>4
<1>6. tasks[cursor + 1] \notin DOMAIN outcomes
  <2>1. SUFFICES ASSUME NEW k \in 1 .. cursor, tasks[k] = tasks[cursor + 1]
                 PROVE  FALSE
    BY <1>1 DEF WalkInv
  <2>2. k \in 1 .. Len(tasks)
    BY <1>3, <1>4
  <2>3. k = cursor + 1
    BY <1>3, <1>4, <2>1, <2>2
  <2>4. QED
    BY <1>4, <2>3
<1>7. QED
  BY <1>2, <1>4, <1>5, <1>6, TaskIdsShape

LEMMA SkipTaskInv ==
  ASSUME BatchInv, SkipTask
  PROVE  BatchInv'
<1>1. /\ phase = "replay" /\ cursor < Len(tasks) /\ cursor' = cursor + 1
      /\ tasks[cursor + 1][1] \in edge_done
      /\ UNCHANGED <<engine, status, level, adj, sepsets, pmax, outcomes, phase, plan,
                     tasks, evaluated, edge_done, delete_edges>>
  BY DEF SkipTask, resultVars, EdgePresent
<1>2. WalkInv /\ BatchesInv
  BY <1>1 DEF BatchInv
<1>3. cursor \in Nat /\ cursor + 1 \in 1 .. Len(tasks)
  BY <1>1, NextOfWalk
<1>4. \A k : k \in 1 .. cursor + 1 <=> k \in 1 .. cursor \/ k = cursor + 1
  BY <1>3
<1>5. Len(tasks) \in Nat
  BY <1>2, <1>3 DEF WalkInv
<1>6. WalkInv'
  BY <1>1, <1>2, <1>3, <1>4, <1>5 DEF WalkInv
<1>7. BatchesInv'
  BY <1>1, <1>2 DEF BatchesInv
<1>8. QED
  BY <1>1, <1>6, <1>7 DEF BatchInv

\* A task of a present edge is reached: what comes before it in its edge's list
\* comes before it in the walk.
LEMMA WalkReaches ==
  ASSUME BatchInv, phase = "replay", cursor < Len(tasks),
         EdgePresent(tasks[cursor + 1][1])
  PROVE  Reached(outcomes, tasks[cursor + 1][1], tasks[cursor + 1][2])
<1> DEFINE e == tasks[cursor + 1][1]
           i == tasks[cursor + 1][2]
<1>1. WalkInv /\ cursor \in Nat /\ cursor + 1 \in 1 .. Len(tasks)
      /\ plan \in [Edge -> Seq(Task)] /\ e \in Edge /\ i \in DOMAIN plan[e]
  BY NextOfWalk DEF BatchInv
<1>2. e \notin RemovedEdges(outcomes) /\ e \notin edge_done
  BY <1>1 DEF WalkInv, EdgePresent
<1>3. SUFFICES ASSUME NEW j \in 1 .. i - 1
               PROVE  <<e, j>> \in DOMAIN outcomes /\ ~Independent(outcomes[<<e, j>>])
  BY DEF Reached
<1>4. i \in Nat /\ j \in Int /\ j < i /\ j \in DOMAIN plan[e]
  <2>1. DOMAIN plan[e] = 1 .. Len(plan[e]) /\ Len(plan[e]) \in Nat
    BY <1>1
  <2>2. QED
    BY <1>1, <1>3, <2>1
<1>5. <<e, j>> \in TaskIds(plan)
  BY <1>1, <1>4, TaskIdsElements
<1>6. PICK k \in 1 .. Len(tasks) : tasks[k] = <<e, j>>
  <2> HIDE DEF e, i
  <2>1. tasks = TaskList(plan)
    BY <1>1 DEF WalkInv
  <2>2. QED
    BY <1>1, <1>5, <2>1, TaskListInOrder
<1>7. k < cursor + 1
  <2> HIDE DEF e, i
  <2>1. tasks[k][1] = e /\ tasks[k][2] = j
    BY <1>6
  <2>2. tasks[cursor + 1][1] = e /\ tasks[cursor + 1][2] = i
    BY DEF e, i
  <2>3. \A a, b \in 1 .. Len(tasks) :
          tasks[a][1] = e /\ tasks[b][1] = e /\ tasks[a][2] < tasks[b][2] => a < b
    <3>1. tasks = TaskList(plan)
      BY <1>1 DEF WalkInv
    <3>2. QED
      BY <1>1, <3>1, TaskListInOrder
  <2>4. QED
    BY <1>1, <1>4, <2>1, <2>2, <2>3
<1>8. k \in 1 .. cursor /\ <<e, j>>[1] = e
  BY <1>1, <1>7
<1>9. <<e, j>> \in DOMAIN outcomes
  <2> HIDE DEF e, i
  <2>1. \A c \in 1 .. cursor : tasks[c] \in DOMAIN outcomes \/ tasks[c][1] \in edge_done
    BY <1>1 DEF WalkInv
  <2>2. tasks[k] \in DOMAIN outcomes \/ tasks[k][1] \in edge_done
    BY <1>8, <2>1
  <2>3. QED
    BY <1>2, <1>6, <1>8, <2>2
<1>10. ~Independent(outcomes[<<e, j>>])
  BY <1>2, <1>8, <1>9 DEF RemovedEdges, Separators
<1>11. QED
  BY <1>9, <1>10

\* What one more outcome changes.
LEMMA OneMoreOutcome ==
  ASSUME NEW t, NEW p \in PValue, outcomes \in [DOMAIN outcomes -> PValue],
         t \notin DOMAIN outcomes, outcomes' = WithOutcome(outcomes, t, p)
  PROVE  /\ DOMAIN outcomes' = DOMAIN outcomes \cup {t}
         /\ outcomes'[t] = p /\ \A u \in DOMAIN outcomes : outcomes'[u] = outcomes[u]
         /\ outcomes' \in [DOMAIN outcomes' -> PValue]
         /\ RemovedEdges(outcomes') =
              RemovedEdges(outcomes) \cup (IF Independent(p) THEN {t[1]} ELSE {})
         /\ \A e, i : Reached(outcomes, e, i) => Reached(outcomes', e, i)
<1>1. /\ DOMAIN outcomes' = DOMAIN outcomes \cup {t}
      /\ outcomes'[t] = p /\ \A u \in DOMAIN outcomes : outcomes'[u] = outcomes[u]
  BY DEF WithOutcome
<1>2. outcomes' \in [DOMAIN outcomes' -> PValue]
  BY <1>1 DEF WithOutcome
<1>3. Separators(outcomes') = Separators(outcomes) \cup (IF Independent(p) THEN {t} ELSE {})
  BY <1>1 DEF Separators
<1>4. RemovedEdges(outcomes') =
        RemovedEdges(outcomes) \cup (IF Independent(p) THEN {t[1]} ELSE {})
  BY <1>3 DEF RemovedEdges
<1>5. \A e, i : Reached(outcomes, e, i) => Reached(outcomes', e, i)
  BY <1>1 DEF Reached
<1>6. QED
  BY <1>1, <1>2, <1>4, <1>5

LEMMA ResolvedIsPValue ==
  ASSUME NEW e, NEW raw \in RawPValues(e)
  PROVE  Resolved(raw) \in PValue
BY PTopAssumption DEF RawPValues, Resolved, PValue, NotANumber

LEMMA ReplayTaskInv ==
  ASSUME BatchInv, NEW raw, ReplayTask(raw)
  PROVE  BatchInv'
<1> DEFINE t == tasks[cursor + 1]
           e == t[1]
           p == Resolved(raw)
<1>1. /\ phase = "replay" /\ cursor < Len(tasks) /\ EdgePresent(e)
      /\ cursor' = cursor + 1 /\ outcomes' = WithOutcome(outcomes, t, p)
      /\ edge_done' = IF Independent(p) THEN edge_done \cup {e} ELSE edge_done
      /\ delete_edges' =
           IF Independent(p) THEN delete_edges \cup Cells(e) ELSE delete_edges
      /\ UNCHANGED <<engine, status, level, adj, phase, plan, tasks, evaluated>>
  BY DEF ReplayTask
<1>2. p \in PValue
  BY ResolvedIsPValue DEF ReplayTask
<1>3. WalkInv /\ BatchesInv
  BY <1>1 DEF BatchInv
<1>4. cursor \in Nat /\ cursor + 1 \in 1 .. Len(tasks) /\ t \notin DOMAIN outcomes
      /\ e \in Edge
  BY <1>1, NextOfWalk
<1>5. Reached(outcomes, t[1], t[2])
  BY <1>1, WalkReaches
<1> HIDE DEF t, p
<1>6. /\ DOMAIN outcomes' = DOMAIN outcomes \cup {t}
      /\ outcomes' \in [DOMAIN outcomes' -> PValue]
      /\ RemovedEdges(outcomes') =
           RemovedEdges(outcomes) \cup (IF Independent(p) THEN {t[1]} ELSE {})
      /\ \A f, i : Reached(outcomes, f, i) => Reached(outcomes', f, i)
  BY <1>1, <1>2, <1>3, <1>4, OneMoreOutcome DEF WalkInv
<1>7. \A k : k \in 1 .. cursor + 1 <=> k \in 1 .. cursor \/ k = cursor + 1
  BY <1>4
<1>8. Len(tasks) \in Nat /\ cursor' \in 0 .. Len(tasks)
  BY <1>1, <1>3, <1>4 DEF WalkInv
<1>9. edge_done' = RemovedEdges(outcomes') /\ edge_done \subseteq edge_done'
  BY <1>1, <1>3, <1>6 DEF WalkInv
<1>10. delete_edges' = UNION {Cells(f) : f \in edge_done'}
  BY <1>1, <1>3 DEF WalkInv
<1>11. \A u \in DOMAIN outcomes' :
         /\ Reached(outcomes', u[1], u[2])
         /\ \E k \in 1 .. cursor' : tasks[k] = u
  <2>1. SUFFICES ASSUME NEW u \in DOMAIN outcomes'
                 PROVE  /\ Reached(outcomes', u[1], u[2])
                        /\ \E k \in 1 .. cursor' : tasks[k] = u
    OBVIOUS
  <2>2. CASE u = t
    BY <1>1, <1>4, <1>5, <1>6, <1>7, <2>2 DEF t
  <2>3. CASE u \in DOMAIN outcomes
    <3>1. /\ Reached(outcomes, u[1], u[2])
          /\ \E k \in 1 .. cursor : tasks[k] = u
      BY <1>3, <2>3 DEF WalkInv
    <3>2. QED
      BY <1>1, <1>6, <1>7, <3>1
  <2>4. QED
    BY <1>6, <2>2, <2>3
<1>12. \A k \in 1 .. cursor' : tasks[k] \in DOMAIN outcomes' \/ tasks[k][1] \in edge_done'
  BY <1>1, <1>3, <1>6, <1>7, <1>9 DEF WalkInv, t
<1>13. WalkInv'
  BY <1>1, <1>3, <1>6, <1>8, <1>9, <1>10, <1>11, <1>12 DEF WalkInv
<1>14. BatchesInv'
  BY <1>1, <1>3 DEF BatchesInv
<1>15. QED
  BY <1>1, <1>13, <1>14 DEF BatchInv

LEMMA CommitBatch ==
  ASSUME BatchInv, CommitLevel
  PROVE  BatchInv'
<1>1. WalkInv /\ level \in Nat /\ evaluated \in Nat
  BY DEF BatchInv, BatchesInv, CommitLevel
<1>2. QED
  BY <1>1, MaxLevelAssumption
     DEF CommitLevel, BatchInv, BatchesInv, WalkInv, walkVarsButPhase

LEMMA ErrorBatch ==
  ASSUME BatchInv, EngineError
  PROVE  BatchInv'
BY MaxLevelAssumption DEF EngineError, BatchInv, BatchesInv

LEMMA StutterBatch ==
  ASSUME BatchInv, UNCHANGED vars
  PROVE  BatchInv'
BY DEF vars, resultVars, walkVars, walkVarsButPhase, BatchInv, BatchesInv, WalkInv

LEMMA NextBatch ==
  ASSUME BatchInv, [Next]_vars
  PROVE  BatchInv'
<1>1. CASE BeginLevel
  BY <1>1, BeginBatch
<1>2. CASE EvaluateBatch
  BY <1>2, EvaluateBatchInv
<1>3. CASE SkipTask
  BY <1>3, SkipTaskInv
<1>4. ASSUME NEW raw \in PValue \cup {NotANumber}, ReplayTask(raw)
      PROVE  BatchInv'
  BY <1>4, ReplayTaskInv
<1>5. CASE CommitLevel
  BY <1>5, CommitBatch
<1>6. CASE EngineError
  BY <1>6, ErrorBatch
<1>7. CASE UNCHANGED vars
  BY <1>7, StutterBatch
<1>8. QED
  BY <1>1, <1>2, <1>3, <1>4, <1>5, <1>6, <1>7 DEF Next, Progress, Returned

THEOREM BatchInvariant == Spec => []BatchInv
<1>1. Init => BatchInv
  BY InitBatch
<1>2. BatchInv /\ [Next]_vars => BatchInv'
  BY NextBatch
<1>3. QED
  BY <1>1, <1>2, PTL DEF Spec

\* The batches tile the task list, the short last one included: the replay
\* never reads a p-value that no batch has written.
THEOREM ReplayEvaluated == Spec => []ReplayReadsEvaluated
<1>1. BatchInv => ReplayReadsEvaluated
  BY DEF BatchInv, BatchesInv, ReplayReadsEvaluated
<1>2. QED
  BY <1>1, BatchInvariant, PTL

-----------------------------------------------------------------------------
(* The specification's operators are this module's.                        *)

LEMMA SameCombinations ==
  ASSUME NEW S, NEW k
  PROVE  Levels!EnumerateCombinations(S, k) = EnumerateCombinations(S, k)
BY DEF Levels!EnumerateCombinations, EnumerateCombinations, Levels!kSubset,
       kSubset, Levels!LexLess, LexLess, Levels!Cardinality, Cardinality

LEMMA SamePlan ==
  ASSUME NEW a, NEW l
  PROVE  Levels!MakeLayerPlan(a, l) = MakeLayerPlan(a, l)
<1>1. Levels!Edge = Edge /\ Levels!Vertex = Vertex
  BY DEF Levels!Edge, Edge, Levels!Cell, Cell, Levels!Vertex, Vertex
<1>2. \A x, y : Levels!NeighborsFromSnapshot(a, x, y) = NeighborsFromSnapshot(a, x, y)
  BY <1>1 DEF Levels!NeighborsFromSnapshot, NeighborsFromSnapshot
<1>3. \A A : Levels!Cardinality(A) = Cardinality(A)
  BY DEF Levels!Cardinality, Cardinality
<1>4. \A N, i : Levels!OpensNextLevel(N, l, i) = OpensNextLevel(N, l, i)
  BY <1>3 DEF Levels!OpensNextLevel, OpensNextLevel
<1>5. \A x, y : Levels!DirectionTasks(a, l, x, y) = DirectionTasks(a, l, x, y)
  BY <1>2, <1>4, SameCombinations DEF Levels!DirectionTasks, DirectionTasks
<1>6. QED
  BY <1>1, <1>5 DEF Levels!MakeLayerPlan, MakeLayerPlan, Levels!EdgeTasks, EdgeTasks

LEMMA SameOps ==
  /\ Levels!Edge = Edge /\ Levels!PValue = PValue
  /\ Levels!NoOutcome = NoOutcome
  /\ \A pv : Levels!RemovedEdges(pv) = RemovedEdges(pv)
  /\ \A pv, e, i : Levels!Reached(pv, e, i) <=> Reached(pv, e, i)
  /\ \A pl, pv : Levels!PassComplete(pl, pv) <=> PassComplete(pl, pv)
  /\ \A pl : Levels!TaskIds(pl) = TaskIds(pl)
  /\ \A e : Levels!Cells(e) = Cells(e)
  /\ \A pv, t, p : Levels!WithOutcome(pv, t, p) = WithOutcome(pv, t, p)
  /\ \A pm, e, p : Levels!PmaxWith(pm, e, p) = PmaxWith(pm, e, p)
  /\ \A ss, e, S, p : Levels!SepsetsWith(ss, e, S, p) = SepsetsWith(ss, e, S, p)
  /\ Levels!InitialAdjacency = InitialAdjacency
  /\ Levels!InitialSepsets = InitialSepsets /\ Levels!InitialPmax = InitialPmax
<1>1. Levels!Edge = Edge /\ Levels!Cell = Cell
  BY DEF Levels!Edge, Edge, Levels!Cell, Cell, Levels!Vertex, Vertex
<1>2. Levels!NoOutcome = NoOutcome /\ Levels!PValue = PValue /\ Levels!MinusInfinity = MinusInfinity
  BY DEF Levels!NoOutcome, NoOutcome, Levels!PValue, PValue, Levels!MinusInfinity, MinusInfinity
<1>3. \A p : Levels!Independent(p) <=> Independent(p)
  BY DEF Levels!Independent, Independent
<1>4. \A pv : Levels!RemovedEdges(pv) = RemovedEdges(pv)
  BY <1>3 DEF Levels!RemovedEdges, RemovedEdges, Levels!Separators, Separators
<1>5. \A pv, e, i : Levels!Reached(pv, e, i) <=> Reached(pv, e, i)
  BY <1>3 DEF Levels!Reached, Reached
<1>6. \A pl, pv : Levels!PassComplete(pl, pv) <=> PassComplete(pl, pv)
  BY <1>1, <1>5 DEF Levels!PassComplete, PassComplete
<1>7. \A pl : Levels!TaskIds(pl) = TaskIds(pl)
  BY <1>1 DEF Levels!TaskIds, TaskIds
<1>8. \A e : Levels!Cells(e) = Cells(e)
  BY DEF Levels!Cells, Cells
<1>9. \A pv, t, p : Levels!WithOutcome(pv, t, p) = WithOutcome(pv, t, p)
  BY DEF Levels!WithOutcome, WithOutcome
<1>10. \A pm, e, p : Levels!PmaxWith(pm, e, p) = PmaxWith(pm, e, p)
  BY <1>1, <1>8 DEF Levels!PmaxWith, PmaxWith
<1>11. \A ss, e, S, p : Levels!SepsetsWith(ss, e, S, p) = SepsetsWith(ss, e, S, p)
  BY <1>1, <1>3, <1>8 DEF Levels!SepsetsWith, SepsetsWith
<1>12. /\ Levels!InitialAdjacency = InitialAdjacency
       /\ Levels!InitialSepsets = InitialSepsets /\ Levels!InitialPmax = InitialPmax
  BY <1>1, <1>2 DEF Levels!InitialAdjacency, InitialAdjacency, Levels!InitialSepsets,
     InitialSepsets, Levels!InitialPmax, InitialPmax
<1>13. QED
  BY <1>1, <1>2, <1>4, <1>5, <1>6, <1>7, <1>8, <1>9, <1>10, <1>11, <1>12

-----------------------------------------------------------------------------
(* Every step is one of the specification's, or leaves the result alone.   *)

LEMMA ReplayRefines ==
  ASSUME BatchInv, NEW raw, ReplayTask(raw)
  PROVE  Levels!Next
<1> DEFINE t == tasks[cursor + 1]
           e == t[1]
           i == t[2]
           p == Resolved(raw)
<1>1. /\ status = "running" /\ phase = "replay" /\ cursor < Len(tasks) /\ EdgePresent(e)
      /\ outcomes' = WithOutcome(outcomes, t, p)
      /\ pmax' = PmaxWith(pmax, e, p)
      /\ sepsets' = SepsetsWith(sepsets, e, plan[e][i].S, p)
      /\ UNCHANGED <<level, adj, status>>
  BY DEF ReplayTask
<1>2. p \in PValue
  BY ResolvedIsPValue DEF ReplayTask
<1>3. plan = MakeLayerPlan(adj, level)
  BY <1>1 DEF BatchInv, WalkInv
<1>4. t = <<e, i>> /\ e \in Edge /\ i \in DOMAIN plan[e] /\ t \notin DOMAIN outcomes
  BY <1>1, NextOfWalk
<1>5. Reached(outcomes, e, i)
  BY <1>1, WalkReaches
<1> HIDE DEF t, e, i, p
<1>6. Levels!Test(e, i, p)
  BY <1>1, <1>3, <1>4, <1>5, SameOps, SamePlan DEF Levels!Test
<1>7. QED
  BY <1>2, <1>3, <1>4, <1>6, SameOps, SamePlan DEF Levels!Next

\* At the end of the walk every task the sequential pass reaches is tested.
LEMMA WalkComplete ==
  ASSUME BatchInv, phase = "replay", cursor = Len(tasks)
  PROVE  PassComplete(plan, outcomes)
<1>1. WalkInv /\ level \in Nat
  BY DEF BatchInv
<1>2. plan \in [Edge -> Seq(Task)]
  BY <1>1, PlanType DEF WalkInv
<1>3. tasks = TaskList(plan)
  BY <1>1 DEF WalkInv
<1>4. SUFFICES ASSUME NEW e \in Edge, NEW i \in DOMAIN plan[e], Reached(outcomes, e, i),
                      <<e, i>> \notin DOMAIN outcomes
               PROVE  FALSE
  BY DEF PassComplete
<1>5. <<e, i>> \in TaskIds(plan)
  BY <1>2, TaskIdsElements
<1>6. PICK k \in 1 .. Len(tasks) : tasks[k] = <<e, i>>
  BY <1>2, <1>3, <1>5, TaskListInOrder
<1>7. e \in RemovedEdges(outcomes)
  <2>1. tasks[k][1] = e
    BY <1>6
  <2>2. QED
    BY <1>1, <1>4, <1>6, <2>1 DEF WalkInv
<1>8. PICK s \in Separators(outcomes) : s[1] = e
  BY <1>7 DEF RemovedEdges
<1>9. s \in DOMAIN outcomes /\ Independent(outcomes[s]) /\ Reached(outcomes, s[1], s[2])
  BY <1>1, <1>8 DEF Separators, WalkInv
<1>10. s \in TaskIds(plan)
  <2>1. PICK j \in 1 .. cursor : tasks[j] = s
    BY <1>1, <1>9 DEF WalkInv
  <2>2. tasks \in [1 .. Len(tasks) -> TaskIds(plan)]
    BY <1>2, <1>3, TaskListInOrder
  <2>3. QED
    BY <2>1, <2>2
<1>11. s = <<e, s[2]>> /\ s[2] \in DOMAIN plan[e]
  BY <1>2, <1>8, <1>10, TaskIdsShape
<1>12. s[2] \in Nat \ {0} /\ i \in Nat \ {0}
  BY <1>2, <1>11
<1>13. CASE s[2] < i
  <2>1. s[2] \in 1 .. i - 1
    BY <1>12, <1>13
  <2>2. QED
    BY <1>4, <1>9, <1>11, <2>1 DEF Reached
<1>14. CASE i < s[2]
  <2>1. i \in 1 .. s[2] - 1
    BY <1>12, <1>14
  <2>2. QED
    BY <1>4, <1>8, <1>9, <2>1 DEF Reached
<1>15. CASE s[2] = i
  BY <1>4, <1>9, <1>11, <1>15
<1>16. QED
  BY <1>12, <1>13, <1>14, <1>15

LEMMA CommitRefines ==
  ASSUME BatchInv, CommitLevel
  PROVE  Levels!CommitLevel
<1>1. /\ status = "running" /\ phase = "replay" /\ cursor = Len(tasks)
      /\ adj' = adj \ delete_edges /\ outcomes' = NoOutcome /\ level' = level + 1
      /\ status' = IF level = MaxLevel THEN "done" ELSE "running"
      /\ UNCHANGED <<sepsets, pmax>>
  BY DEF CommitLevel
<1>2. /\ level \in Nat /\ level <= MaxLevel /\ plan = MakeLayerPlan(adj, level)
      /\ delete_edges = UNION {Cells(e) : e \in RemovedEdges(outcomes)}
  BY <1>1 DEF BatchInv, WalkInv
<1>3. PassComplete(MakeLayerPlan(adj, level), outcomes)
  BY <1>1, <1>2, WalkComplete
<1>4. \/ status' = "running" /\ level' <= MaxLevel
      \/ status' = "done" /\ level' > MaxLevel
  BY <1>1, <1>2, MaxLevelAssumption
<1>5. {Levels!Cells(e) : e \in Levels!RemovedEdges(outcomes)}
        = {Cells(e) : e \in RemovedEdges(outcomes)}
  BY SameOps
<1>6. QED
  BY <1>1, <1>2, <1>3, <1>4, <1>5, SameOps, SamePlan DEF Levels!CommitLevel

LEMMA ErrorRefines ==
  ASSUME EngineError
  PROVE  Levels!Next
<1>1. Levels!Blank'
  BY SameOps DEF EngineError, Levels!Blank
<1>2. CASE status' = "running"
  BY <1>1, <1>2 DEF EngineError, Levels!Next, Levels!Restart, Levels!Start
<1>3. CASE status' = "failed"
  BY <1>1, <1>3 DEF EngineError, Levels!Next, Levels!Fail
<1>4. QED
  BY <1>2, <1>3 DEF EngineError

\* Evaluating tasks nobody reaches, deleting edges during the walk and starting
\* again on the CPU are invisible: both engines compute what the sequential
\* level semantics allows, for every batch size and NaN rule.
THEOREM BatchImplementsLevels == Spec => RefinesLevels
<1>1. Init => Levels!Start
  BY SameOps DEF Init, Levels!Start, Levels!Blank
<1>2. BatchInv /\ [Next]_vars => [Levels!Next]_(Levels!levelVars)
  <2> SUFFICES ASSUME BatchInv, [Next]_vars
               PROVE  Levels!Next \/ UNCHANGED Levels!levelVars
    OBVIOUS
  <2>1. CASE BeginLevel \/ EvaluateBatch \/ SkipTask \/ UNCHANGED vars
    BY <2>1 DEF BeginLevel, EvaluateBatch, SkipTask, vars, resultVars, Levels!levelVars
  <2>2. ASSUME NEW raw \in PValue \cup {NotANumber}, ReplayTask(raw)
        PROVE  Levels!Next
    BY <2>2, ReplayRefines
  <2>3. CASE CommitLevel
    BY <2>3, CommitRefines DEF Levels!Next
  <2>4. CASE EngineError
    BY <2>4, ErrorRefines
  <2>5. QED
    BY <2>1, <2>2, <2>3, <2>4 DEF Next, Progress, Returned
<1>3. QED
  BY <1>1, <1>2, BatchInvariant, PTL DEF Spec, RefinesLevels, Levels!Spec

=============================================================================
