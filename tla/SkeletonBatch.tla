--------------------------- MODULE SkeletonBatch ---------------------------
(***************************************************************************)
(* The development engines: the CUDA batch engine run_skeleton_cuda_batch  *)
(* (fastkpc/src/skeleton_engine_cuda.cpp) and the CPU engine               *)
(* run_skeleton_exact (fastkpc/src/skeleton_engine.cpp) it falls back to.  *)
(*                                                                         *)
(* On CUDA a level evaluates ALL its planned tasks in batches, reachable   *)
(* or not, and a replay in plan order then reads the p-values of the tasks *)
(* whose edge is still present.  On the CPU the same walk computes each    *)
(* p-value when it needs it.  A CUDA error throws the partial result away  *)
(* and runs everything again on the CPU, if the options allow it.          *)
(*                                                                         *)
(* The p-value of an evaluated task is drawn when the replay reads it.     *)
(***************************************************************************)
EXTENDS SkeletonOps

CONSTANTS BatchSize,            \* CI tasks per CUDA call
          NaDelete,             \* a non-finite p-value counts as 1.0, else as 0.0
          CudaMemoryFallback,   \* rerun on the CPU after a CUDA error (never set
                                \* for dcc.gamma, which has no fallback)
          MarginalPairs         \* bound: edges the data separate at level 0

ASSUME BatchAssumption ==
  /\ BatchSize \in Nat \ {0}
  /\ NaDelete \in BOOLEAN
  /\ CudaMemoryFallback \in BOOLEAN
  /\ MarginalPairs \subseteq Edge

VARIABLES engine,         \* "cuda" or "cpu"
          level, adj, sepsets, pmax, outcomes, status,   \* as in SkeletonLevels
          phase,          \* "plan", "evaluate" or "replay"
          plan, tasks,    \* the level's plan, and its flat task list
          evaluated,      \* tasks whose p-value a CUDA batch has written
          cursor,         \* tasks the replay has passed
          edge_done,      \* edges the replay has deleted
          delete_edges    \* cells to clear at the end of the level

walkVarsButPhase == <<plan, tasks, evaluated, cursor, edge_done, delete_edges>>
walkVars == <<phase, walkVarsButPhase>>
resultVars == <<level, adj, sepsets, pmax, outcomes>>
vars == <<engine, status, resultVars, walkVars>>

\* A permutation method without a seed, or a missing device, starts on the CPU.
Init ==
  /\ engine \in {"cuda", "cpu"}
  /\ status = "running"
  /\ level = 0
  /\ adj = InitialAdjacency
  /\ sepsets = InitialSepsets
  /\ pmax = InitialPmax
  /\ outcomes = NoOutcome
  /\ phase = "plan"
  /\ plan = [e \in Edge |-> << >>] /\ tasks = << >>
  /\ evaluated = 0 /\ cursor = 0
  /\ edge_done = {} /\ delete_edges = {}

BeginLevel ==
  /\ status = "running" /\ phase = "plan"
  /\ plan' = MakeLayerPlan(adj, level)
  /\ tasks' = TaskList(plan')
  /\ evaluated' = 0 /\ cursor' = 0
  /\ edge_done' = {} /\ delete_edges' = {}
  /\ phase' = IF engine = "cuda" /\ tasks' # << >> THEN "evaluate" ELSE "replay"
  /\ UNCHANGED <<engine, status, resultVars>>

-----------------------------------------------------------------------------
\* The last task of the batch that starts after the evaluated ones.
BatchEnd == Min({evaluated + BatchSize, Len(tasks)})

MoreBatches == BatchEnd < Len(tasks)

EvaluateBatch ==
  /\ status = "running" /\ phase = "evaluate"
  /\ evaluated' = BatchEnd
  /\ phase' = IF MoreBatches THEN "evaluate" ELSE "replay"
  /\ UNCHANGED <<engine, status, resultVars, plan, tasks, cursor, edge_done,
                 delete_edges>>

\* pvalues starts as NaN, and a test may return NaN.
NotANumber == -2

RawPValues(e) ==
  IF engine = "cuda" /\ cursor >= evaluated
  THEN {NotANumber}
  ELSE {p \in PValue : level = 0 /\ e \in MarginalPairs => Independent(p)}
         \cup {NotANumber}

\* The na_delete rule.
Resolved(raw) ==
  IF raw # NotANumber THEN raw ELSE IF NaDelete THEN PTop ELSE 0

\* (Mutant: the flag of a deleted edge is not looked at.)
MutEdgePresent(e) == TRUE

EdgePresent(e) == e \notin edge_done

\* The walk passes a task of a deleted edge.
SkipTask ==
  /\ status = "running" /\ phase = "replay"
  /\ cursor < Len(tasks)
  /\ ~EdgePresent(tasks[cursor + 1][1])
  /\ cursor' = cursor + 1
  /\ UNCHANGED <<engine, status, resultVars, phase, plan, tasks, evaluated,
                 edge_done, delete_edges>>

\* The walk reads the p-value of a task of a present edge.
ReplayTask(raw) ==
  LET t == tasks[cursor + 1]
      e == t[1]
      p == Resolved(raw)
  IN  /\ status = "running" /\ phase = "replay"
      /\ cursor < Len(tasks)
      /\ EdgePresent(e)
      /\ raw \in RawPValues(e)
      /\ cursor' = cursor + 1
      /\ outcomes' = WithOutcome(outcomes, t, p)
      /\ pmax' = PmaxWith(pmax, e, p)
      /\ sepsets' = SepsetsWith(sepsets, e, plan[e][t[2]].S, p)
      /\ edge_done' = IF Independent(p) THEN edge_done \cup {e} ELSE edge_done
      /\ delete_edges' =
           IF Independent(p) THEN delete_edges \cup Cells(e) ELSE delete_edges
      /\ UNCHANGED <<engine, status, level, adj, phase, plan, tasks, evaluated>>

\* The deletions, and the end after the last level.
CommitLevel ==
  /\ status = "running" /\ phase = "replay"
  /\ cursor = Len(tasks)
  /\ adj' = adj \ delete_edges
  /\ outcomes' = NoOutcome
  /\ level' = level + 1
  /\ status' = IF level = MaxLevel THEN "done" ELSE "running"
  /\ phase' = "plan"
  /\ UNCHANGED <<engine, sepsets, pmax, walkVarsButPhase>>

\* An exception: everything the run built is dropped.
EngineError ==
  /\ status = "running"
  /\ IF engine = "cuda" /\ CudaMemoryFallback
     THEN engine' = "cpu" /\ status' = "running"
     ELSE engine' = engine /\ status' = "failed"
  /\ level' = 0
  /\ adj' = InitialAdjacency
  /\ sepsets' = InitialSepsets
  /\ pmax' = InitialPmax
  /\ outcomes' = NoOutcome
  /\ phase' = "plan"
  /\ plan' = [e \in Edge |-> << >>] /\ tasks' = << >>
  /\ evaluated' = 0 /\ cursor' = 0
  /\ edge_done' = {} /\ delete_edges' = {}

Progress ==
  \/ BeginLevel
  \/ EvaluateBatch
  \/ SkipTask
  \/ \E raw \in PValue \cup {NotANumber} : ReplayTask(raw)
  \/ CommitLevel

\* The call has returned or thrown.
Returned == status # "running" /\ UNCHANGED vars

Next == Progress \/ EngineError \/ Returned

Spec == Init /\ [][Next]_vars

\* One thread; only the device can make it wait.
FairSpec == Spec /\ WF_vars(Progress)

-----------------------------------------------------------------------------
(* Properties *)

\* The replay never meets a p-value no batch has written: the batches tile the
\* task list, the short last one included.
ReplayReadsEvaluated ==
  phase = "replay" /\ engine = "cuda" => evaluated = Len(tasks)

\* Evaluating unreachable tasks and restarting on the CPU are invisible: the
\* engines implement the sequential level semantics.
Levels == INSTANCE SkeletonLevels

RefinesLevels == Levels!Spec

\* Every run returns or throws, after a fallback too.
Terminates == <>(status # "running")

=============================================================================
