------------------------- MODULE PrecisionSkeleton -------------------------
(***************************************************************************)
(* The native skeleton engines R calls with its own p-values or residuals: *)
(* the C_precision_run_skeleton_*_native entry points of                   *)
(* fastkpc/src/r_api_cuda.cpp.                                             *)
(*                                                                         *)
(* They differ in where a level's p-values come from (a table, an R        *)
(* function, lm residuals, residuals of an R function), and the legacy     *)
(* dCov engine also in WHEN it computes them: for the whole level before   *)
(* the replay, for pending tasks of different edges as the plan is walked  *)
(* ("canonical"), or for one task per edge and round ("round").  "dcov0"   *)
(* runs level 0 alone; "batched_r" is the batched driver in R, which plans *)
(* the level itself and hands its p-values to the native replay.  Each     *)
(* entry point has its own copy of the replay and of the report.           *)
(*                                                                         *)
(* A residual is named by its key <<target, S>>, a raw data column by      *)
(* <<target, {}>>.  The p-value of an evaluated task is drawn when the     *)
(* replay reads it.                                                        *)
(***************************************************************************)
EXTENDS SkeletonOps, SequencesExt

CONSTANT MarginalPairs    \* bound: edges the data separate at level 0

MarginalAssumption == MarginalPairs \subseteq Edge

VARIABLES engine,         \* the entry point
          mode,           \* FASTKPC_NATIVE_LEGACY_DCOV_BATCH
          level, adj, sepsets, pmax, outcomes, status,   \* as in SkeletonLevels
          phase,          \* "plan", "evaluate", "scan", "batch", "replay" or
                          \* "commit"
          plan, tasks,    \* the level's plan, and its flat task list
          requests,       \* request_by_key: the residual keys, in column order
          cursor,         \* canonical: tasks the walk has passed
          pending,        \* pending_task_indices: the tasks of the next batch
          inputs,         \* task index -> the two columns its test reads
          replayed,       \* tasks given to replay_task
          edge_done,      \* edges this level has deleted
          pcalg_done,     \* no replayed test opens the next level
          tally,          \* tests_replayed, ignored_after_delete, deletions
          rows,           \* the level's trace: its tasks in replay order
          report          \* level_rows

levelVars == <<level, adj, sepsets, pmax, outcomes, status>>
walkVars == <<plan, tasks, requests, cursor, pending, inputs, replayed,
              edge_done, pcalg_done, tally, rows>>
vars == <<engine, mode, levelVars, phase, walkVars, report>>

Engine == {"ptable", "provider", "dcov0", "exact_ci", "residual_provider",
           "legacy_dcov", "batched_r"}
Mode == {"none", "level", "canonical", "round"}

NoInput == [i \in {} |-> << >>]

NoTally == [tests |-> 0, ignored |-> 0, deletions |-> 0]

Init ==
  /\ engine \in Engine
  /\ mode \in Mode /\ (engine # "legacy_dcov" => mode = "none")
  /\ level = 0 /\ status = "running"
  /\ adj = InitialAdjacency
  /\ sepsets = InitialSepsets
  /\ pmax = InitialPmax
  /\ outcomes = NoOutcome
  /\ phase = "plan"
  /\ plan = [e \in Edge |-> << >>] /\ tasks = << >>
  /\ requests = << >> /\ cursor = 0 /\ pending = << >>
  /\ inputs = NoInput /\ replayed = {}
  /\ edge_done = {} /\ pcalg_done = TRUE
  /\ tally = NoTally /\ rows = << >> /\ report = << >>

TaskAt(i) == plan[tasks[i][1]][tasks[i][2]]

\* The replay's `ignored`.
Ignored(i) == tasks[i][1] \in edge_done \/ tasks[i][1] \notin adj

-----------------------------------------------------------------------------
\* The R driver's plan.  utils::combn(v, 1) takes one integer v for the range
\* 1 .. v: the only neighbour v gives the sets {1}, ..., {v}.
BatchedPrecisionCombinations(nbrs, k) ==
  EnumerateCombinations(IF k = 1 /\ Cardinality(nbrs) = 1 THEN 0 .. Max(nbrs)
                        ELSE nbrs, k)

BatchedPrecisionLayerPlan(a, k) ==
  LET side(x, y) ==
        LET combos == BatchedPrecisionCombinations(NeighborsFromSnapshot(a, x, y), k)
        IN  [i \in DOMAIN combos |->
               [x |-> x, y |-> y, S |-> combos[i], opens |-> FALSE]]
  IN  [e \in Edge |-> IF e \in a THEN side(e[1], e[2]) \o side(e[2], e[1])
                      ELSE << >>]

\* C_precision_make_layer_plan_native is the plan the other engines make.
LevelPlan(a, k) ==
  IF engine = "batched_r" THEN BatchedPrecisionLayerPlan(a, k)
  ELSE MakeLayerPlan(a, k)

-----------------------------------------------------------------------------
\* The two residual keys of a task, x first; (mutant: only x is requested).
NativeResidualKeys(t) == << <<t.x, t.S>>, <<t.y, t.S>> >>

RequestKeys(t) == NativeResidualKeys(t)

\* The deduplicated requests of the level, in the order the plan meets them.
Requests(pl, ts) ==
  LET add(rs, id) ==
        LET t == pl[id[1]][id[2]]
        IN  IF t.S = {} THEN rs
            ELSE rs \o SelectSeq(RequestKeys(t), LAMBDA k : k \notin ToSet(rs))
  IN  FoldLeft(add, << >>, ts)

UsesResidualProvider == engine \in {"residual_provider", "legacy_dcov"}

\* request_by_key[key]: a key that was never requested would read column 0.
ResidualColumn(key) ==
  IF key \in ToSet(requests)
  THEN requests[CHOOSE c \in DOMAIN requests : requests[c] = key]
  ELSE requests[1]

\* task_input_pointers: raw columns without a conditioning set.
TaskInputs(i) ==
  LET t == TaskAt(i)
  IN  IF UsesResidualProvider /\ t.S # {}
      THEN <<ResidualColumn(NativeResidualKeys(t)[1]),
             ResidualColumn(NativeResidualKeys(t)[2])>>
      ELSE << <<t.x, t.S>>, <<t.y, t.S>> >>

\* run_dcov_batch_for_tasks writes the p-values of the tasks is.
Evaluated(is) == [i \in DOMAIN inputs \cup is |-> IF i \in is THEN TaskInputs(i)
                                                  ELSE inputs[i]]

-----------------------------------------------------------------------------
\* A level starts: its plan, and its residual columns where a provider
\* answers the requests.
BeginLevel ==
  /\ status = "running" /\ phase = "plan"
  /\ plan' = LevelPlan(adj, level)
  /\ tasks' = TaskList(plan')
  /\ requests' = IF UsesResidualProvider THEN Requests(plan', tasks') ELSE << >>
  /\ cursor' = 0 /\ pending' = << >> /\ inputs' = NoInput /\ replayed' = {}
  /\ edge_done' = {} /\ pcalg_done' = TRUE
  /\ tally' = NoTally /\ rows' = << >>
  /\ phase' = IF mode \in {"canonical", "round"} THEN "scan" ELSE "evaluate"
  /\ UNCHANGED <<engine, mode, levelVars, report>>

\* The level's p-values, all its tasks before the replay ...
EvaluateLevel(kind) ==
  /\ status = "running" /\ phase = "evaluate" /\ engine = kind
  /\ inputs' = Evaluated(DOMAIN tasks)
  /\ phase' = "replay"
  /\ UNCHANGED <<engine, mode, levelVars, plan, tasks, requests, cursor,
                 pending, replayed, edge_done, pcalg_done, tally, rows,
                 report>>

\* ... from the table, from one call of the R provider with the task table,
\* from lm residuals computed for each task, from the provider's residual
\* columns with the exact dCov test ...
EvaluatePtable == EvaluateLevel("ptable")

EvaluateProvider == EvaluateLevel("provider")

EvaluateDcov0 == EvaluateLevel("dcov0")

EvaluateExactCi == EvaluateLevel("exact_ci")

EvaluateResidualProvider == EvaluateLevel("residual_provider")

\* ... from the CUDA batch and the verifier of the R driver ...
EvaluateBatchedR == EvaluateLevel("batched_r")

\* ... or with the legacy dCov test: one batch, or one scalar call per task.
EvaluateLegacyLevel == EvaluateLevel("legacy_dcov")

-----------------------------------------------------------------------------
\* The replay counts the ignored tasks is and adds them to the trace.  (With
\* trace_level "logical" the legacy engine leaves their rows out.)
Record(is) ==
  /\ tally' = [tally EXCEPT !.ignored = @ + Len(is)]
  /\ rows' = rows \o is

PendingEdges == {tasks[i][1] : i \in ToSet(pending)}

\* Canonical: the walk adds the next task to the pending ones while it is not
\* ignored and its edge has no pending task.  (Mutant: no conflict check.)
MutMayPend(i) == ~Ignored(i)

MayPend(i) == ~Ignored(i) /\ tasks[i][1] \notin PendingEdges

PendTask ==
  /\ status = "running" /\ phase = "scan" /\ mode = "canonical"
  /\ cursor < Len(tasks)
  /\ MayPend(cursor + 1)
  /\ pending' = Append(pending, cursor + 1)
  /\ cursor' = cursor + 1
  /\ UNCHANGED <<engine, mode, levelVars, phase, plan, tasks, requests, inputs,
                 replayed, edge_done, pcalg_done, tally, rows, report>>

\* Otherwise, and at the end, it flushes the pending tasks first ...
FlushPending ==
  /\ status = "running" /\ phase = "scan" /\ mode = "canonical"
  /\ pending # << >>
  /\ cursor < Len(tasks) => ~MayPend(cursor + 1)
  /\ inputs' = Evaluated(ToSet(pending))
  /\ phase' = "batch"
  /\ UNCHANGED <<engine, mode, levelVars, plan, tasks, requests, cursor,
                 pending, replayed, edge_done, pcalg_done, tally, rows,
                 report>>

\* ... and passes an ignored task.
PassIgnored ==
  /\ status = "running" /\ phase = "scan" /\ mode = "canonical"
  /\ cursor < Len(tasks)
  /\ pending = << >> /\ Ignored(cursor + 1)
  /\ replayed' = replayed \cup {cursor + 1}
  /\ cursor' = cursor + 1
  /\ Record(<<cursor + 1>>)
  /\ UNCHANGED <<engine, mode, levelVars, phase, plan, tasks, requests, pending,
                 inputs, edge_done, pcalg_done, report>>

\* Round: one pass over the tasks not yet replayed.  The ignored ones are
\* replayed at once; of the others the first of each edge is pending.
FirstOfEdge(is) ==
  {i \in is : \A j \in is : tasks[j][1] = tasks[i][1] => i <= j}

CollectRound ==
  LET open == {i \in DOMAIN tasks \ replayed : ~Ignored(i)}
  IN  /\ status = "running" /\ phase = "scan" /\ mode = "round"
      /\ replayed # DOMAIN tasks
      /\ replayed' = replayed \cup (DOMAIN tasks \ open)
      /\ Record(SelectSeq([i \in DOMAIN tasks |-> i],
                          LAMBDA i : i \notin replayed \cup open))
      /\ pending' = SetToSortSeq(FirstOfEdge(open), LAMBDA i, j : i < j)
      /\ inputs' = Evaluated(FirstOfEdge(open))
      /\ phase' = "batch"
      /\ UNCHANGED <<engine, mode, levelVars, plan, tasks, requests, cursor,
                     edge_done, pcalg_done, report>>

-----------------------------------------------------------------------------
\* replay_task on a task that is not ignored; a non-finite p-value is 1.0.
ReplayTask(i, p) ==
  LET e == tasks[i][1]
  IN  /\ level = 0 /\ e \in MarginalPairs => Independent(p)
      /\ replayed' = replayed \cup {i}
      /\ IF Ignored(i)
         THEN /\ p = PTop
              /\ Record(<<i>>)
              /\ UNCHANGED <<outcomes, pmax, sepsets, edge_done, pcalg_done>>
         ELSE /\ tally' = [tally EXCEPT !.tests = @ + 1,
                             !.deletions = @ + IF Independent(p) THEN 1 ELSE 0]
              /\ rows' = Append(rows, i)
              /\ outcomes' = WithOutcome(outcomes, tasks[i], p)
              /\ pmax' = PmaxWith(pmax, e, p)
              /\ sepsets' = SepsetsWith(sepsets, e, TaskAt(i).S, p)
              /\ edge_done' = IF Independent(p) THEN edge_done \cup {e}
                              ELSE edge_done
              /\ pcalg_done' = (pcalg_done /\ ~TaskAt(i).opens)

\* A flushed batch is replayed in its order.
ReplayPending(p) ==
  /\ status = "running" /\ phase = "batch" /\ pending # << >>
  /\ ReplayTask(Head(pending), p)
  /\ pending' = Tail(pending)
  /\ UNCHANGED <<engine, mode, level, adj, status, phase, plan, tasks, requests,
                 cursor, inputs, report>>

BatchReplayed ==
  /\ status = "running" /\ phase = "batch" /\ pending = << >>
  /\ phase' = "scan"
  /\ UNCHANGED <<engine, mode, levelVars, walkVars, report>>

\* A level that was evaluated as a whole is replayed in plan order, by the
\* entry point's own loop.
ReplayOf(kind, p) ==
  /\ status = "running" /\ phase = "replay" /\ engine = kind
  /\ cursor < Len(tasks)
  /\ ReplayTask(cursor + 1, p)
  /\ cursor' = cursor + 1
  /\ UNCHANGED <<engine, mode, level, adj, status, phase, plan, tasks, requests,
                 pending, inputs, report>>

ReplayPtable(p) == ReplayOf("ptable", p)

ReplayProvider(p) == ReplayOf("provider", p)

ReplayDcov0(p) == ReplayOf("dcov0", p)

ReplayExactCi(p) == ReplayOf("exact_ci", p)

ReplayResidualProvider(p) == ReplayOf("residual_provider", p)

ReplayLegacyLevel(p) == ReplayOf("legacy_dcov", p)

\* C_precision_replay_layer_native: the R driver's level.
ReplayLayer(p) == ReplayOf("batched_r", p)

LevelReplayed ==
  \/ phase = "replay" /\ cursor = Len(tasks)
  \/ phase = "scan" /\ mode = "canonical" /\ cursor = Len(tasks) /\ pending = << >>
  \/ phase = "scan" /\ mode = "round" /\ replayed = DOMAIN tasks

StopsEarly == pcalg_done /\ engine = "legacy_dcov"

LevelRow ==
  [level |-> level, planned |-> Len(tasks), tests |-> tally.tests,
   ignored |-> tally.ignored, deletions |-> tally.deletions]

\* The level's deletions take effect and its row joins the report.
CommitOf(kind) ==
  /\ status = "running" /\ LevelReplayed /\ engine = kind
  /\ adj' = adj \ UNION {Cells(e) : e \in edge_done}
  /\ outcomes' = NoOutcome
  /\ level' = level + 1
  /\ report' = Append(report, LevelRow)
  /\ UNCHANGED <<engine, mode, sepsets, pmax, walkVars>>

Continue ==
  /\ status' = IF level = MaxLevel \/ StopsEarly THEN "done" ELSE "running"
  /\ phase' = "plan"

CommitPtable == CommitOf("ptable") /\ Continue

CommitProvider == CommitOf("provider") /\ Continue

CommitExactCi == CommitOf("exact_ci") /\ Continue

CommitResidualProvider == CommitOf("residual_provider") /\ Continue

CommitLegacyLevel == CommitOf("legacy_dcov") /\ Continue

\* The R driver takes the matrices, and the sepsets from the level's log.
CommitLayer == CommitOf("batched_r") /\ Continue

\* dcov0 returns after level 0: the result of a run with maximal size 0.
CommitDcov0 == CommitOf("dcov0") /\ phase' = "end" /\ status' = status

\* The summary each entry point returns with its rows.
Total(field) == MapThenSumSet(LAMBDA k : report[k][field], DOMAIN report)

Summary ==
  [levels |-> Len(report), tasks_planned |-> Total("planned"),
   tests_replayed |-> Total("tests"),
   tasks_ignored_after_delete |-> Total("ignored"),
   deletions |-> Total("deletions")]

\* A provider that answers with the wrong shape, or a failing test: no result.
EngineError ==
  /\ status = "running"
  /\ phase \in {"evaluate", "scan"}
  /\ status' = "failed"
  /\ level' = 0
  /\ adj' = InitialAdjacency
  /\ sepsets' = InitialSepsets
  /\ pmax' = InitialPmax
  /\ outcomes' = NoOutcome
  /\ UNCHANGED <<engine, mode, phase, walkVars, report>>

Progress ==
  \/ BeginLevel
  \/ EvaluatePtable
  \/ EvaluateProvider
  \/ EvaluateDcov0
  \/ EvaluateExactCi
  \/ EvaluateResidualProvider
  \/ EvaluateLegacyLevel
  \/ EvaluateBatchedR
  \/ PendTask
  \/ FlushPending
  \/ PassIgnored
  \/ CollectRound
  \/ \E p \in PValue :
       \/ ReplayPending(p) \/ ReplayPtable(p) \/ ReplayProvider(p)
       \/ ReplayDcov0(p) \/ ReplayExactCi(p) \/ ReplayResidualProvider(p)
       \/ ReplayLegacyLevel(p) \/ ReplayLayer(p)
  \/ BatchReplayed
  \/ CommitPtable \/ CommitProvider \/ CommitDcov0 \/ CommitExactCi
  \/ CommitResidualProvider \/ CommitLegacyLevel \/ CommitLayer

Returned == (status # "running" \/ phase = "end") /\ UNCHANGED vars

Next == Progress \/ EngineError \/ Returned

Spec == Init /\ [][Next]_vars

-----------------------------------------------------------------------------
(* Properties *)

\* However the tests are grouped, and whether the early stop of pcalg applies
\* or not, every engine computes the level semantics.
Levels == INSTANCE SkeletonLevels

RefinesLevels == Levels!Spec

\* The canonical and the round batches test what a sequential pass would: no
\* task is evaluated whose edge an earlier task of the same level removes.
NoWastedTest ==
  mode \in {"canonical", "round"} /\ phase = "batch" =>
    \A i \in ToSet(pending) : Reached(outcomes, tasks[i][1], tasks[i][2])

\* The deduplicated request table has a column for every task: no test reads
\* the residuals of another target or another conditioning set, although a key
\* that is missing would silently read the first column.
ReadsOwnResiduals ==
  status = "running" /\ phase # "plan" =>
    \A i \in DOMAIN inputs : inputs[i] = NativeResidualKeys(TaskAt(i))

\* A caller that adds up the report finds every planned task once: tested or
\* ignored, a row of the trace, in plan order unless the level was run in
\* rounds, and the deletions are the edges the graph has lost.
ReportAddsUp ==
  status # "failed" =>
    /\ phase # "plan" /\ LevelReplayed =>
         /\ tally.tests = Cardinality(DOMAIN outcomes)
         /\ tally.tests + tally.ignored = Len(tasks)
         /\ Len(rows) = Len(tasks)
         /\ IF mode = "round" THEN ToSet(rows) = DOMAIN tasks
            ELSE rows = [i \in DOMAIN tasks |-> i]
    /\ phase \in {"plan", "end"} =>
         /\ Summary.levels = level
         /\ Summary.tests_replayed + Summary.tasks_ignored_after_delete =
              Summary.tasks_planned
         /\ Summary.deletions = Cardinality(Edge \ adj)

\* The plan of the R driver is the native one.
PlanAgrees ==
  status = "running" /\ phase \notin {"plan", "end"} =>
    LET native == MakeLayerPlan(adj, level)
    IN  \A e \in Edge :
          /\ DOMAIN plan[e] = DOMAIN native[e]
          /\ \A i \in DOMAIN plan[e] :
               /\ plan[e][i].S = native[e][i].S
               /\ plan[e][i].x = native[e][i].x

=============================================================================
