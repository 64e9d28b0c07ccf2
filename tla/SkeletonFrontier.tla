-------------------------- MODULE SkeletonFrontier --------------------------
(***************************************************************************)
(* The frontier engine of the strict route: the level loop of              *)
(* full_cuda_ci_one_call_skeleton_method (full_cuda_ci_one_call.cpp).      *)
(*                                                                         *)
(* Every edge with tasks has one next task; edges whose next tasks share a *)
(* conditioning set wait in one ready bucket, because the GPU fits the     *)
(* residuals of a conditioning set once.  The engine repeatedly takes a    *)
(* wave of buckets, executes them, and advances their edges.  The physical *)
(* order therefore differs from the plan's; a canonical replay at the end  *)
(* of the level must give what the sequential engine gives.                *)
(*                                                                         *)
(* Buckets are sets here: the order inside one only numbers the requests.  *)
(* A p-value is drawn when its edge advances; nothing reads it before.     *)
(***************************************************************************)
EXTENDS SkeletonOps

CONSTANTS MarginalPairs,       \* edges the data make independent at level 0: a
                               \* bound on the instance ({} bounds nothing)
          WaveCapacity,        \* groups per wave (1 unless ci_method is dcc.gamma)
          PositiveMissOnly,    \* a wave may end early on a cache prediction
          LegacyRPermutation   \* one task at a time, in pcalg order

ASSUME WaveAssumption ==
  /\ MarginalPairs \subseteq Edge
  /\ WaveCapacity \in Nat \ {0}
  /\ PositiveMissOnly \in BOOLEAN
  /\ LegacyRPermutation \in BOOLEAN
  /\ LegacyRPermutation => WaveCapacity = 1

VARIABLES level, adj, sepsets, pmax, status,   \* the result, as in SkeletonLevels
          outcomes,       \* consumed and task_p_values: the tasks consumed so far
          phase,          \* "plan", "select" or "execute"
          plan,           \* edge_tasks of the level
          edge_positions, \* tasks of each edge consumed or skipped
          ready,          \* ready_by_conditioning: conditioning set -> edges
          wave,           \* the groups still to execute, in order
          active_edges, remaining, ignored,
          delete_edges,   \* cells to clear at the end of the level
          pcalg_done,     \* no consumed task opens the next level
          n_edgetests     \* tests replayed, by level

resultVars == <<level, adj, sepsets, pmax, status, n_edgetests>>
frontierVars == <<edge_positions, active_edges, remaining, ignored, delete_edges,
                  pcalg_done, outcomes>>
vars == <<resultVars, frontierVars, phase, plan, ready, wave>>

-----------------------------------------------------------------------------
NoBucket == [S \in SUBSET Vertex |-> {}]

\* The locals of the call before its first level.
Blank ==
  /\ level = 0
  /\ adj = InitialAdjacency
  /\ sepsets = InitialSepsets
  /\ pmax = InitialPmax
  /\ n_edgetests = << >>
  /\ outcomes = NoOutcome
  /\ phase = "plan"
  /\ plan = [e \in Edge |-> << >>]
  /\ edge_positions = [e \in Edge |-> 0]
  /\ ready = NoBucket
  /\ wave = << >>
  /\ active_edges = 0 /\ remaining = 0 /\ ignored = 0
  /\ delete_edges = {}
  /\ pcalg_done = TRUE

Init == Blank /\ status = "running"

\* The edges that still have a task to run, and the next task of one.
Unfinished == {e \in Edge : edge_positions[e] < Len(plan[e])}

NextTask(e) == plan[e][edge_positions[e] + 1]

\* Every edge with tasks enters the bucket of its first task.
BeginLevel ==
  /\ status = "running" /\ phase = "plan"
  /\ plan' = MakeLayerPlan(adj, level)
  /\ edge_positions' = [e \in Edge |-> 0]
  /\ outcomes' = NoOutcome
  /\ ready' = [S \in SUBSET Vertex |->
                 {e \in Edge : Len(plan'[e]) > 0 /\ plan'[e][1].S = S}]
  /\ active_edges' = Cardinality({e \in Edge : Len(plan'[e]) > 0})
  /\ remaining' = Cardinality(TaskIds(plan'))
  /\ ignored' = 0
  /\ delete_edges' = {}
  /\ pcalg_done' = TRUE
  /\ phase' = "select"
  /\ UNCHANGED <<resultVars, wave>>

-----------------------------------------------------------------------------
Buckets == {S \in SUBSET Vertex : ready[S] # {}}

\* The bucket a wave may take next: a largest one, or the largest among those
\* whose setup is live on the device when that is at least a quarter of it.
\* Which setups are live is left open, so any nonempty set may be one of them.
\* (Mutant: only live setups are considered.)
MutSelectable(S) ==
  S # {} /\ \A B \in Buckets : Cardinality(ready[S]) * 4 >= Cardinality(ready[B])

Selectable(S) ==
  LET largest == Max({Cardinality(ready[B]) : B \in Buckets})
  IN  \/ Cardinality(ready[S]) = largest
      \/ S # {} /\ Cardinality(ready[S]) * 4 >= largest

SelectBucket(S) ==
  /\ ~LegacyRPermutation
  /\ Selectable(S)
  /\ wave' = Append(wave, ready[S])
  /\ ready' = [ready EXCEPT ![S] = {}]

\* In permutation mode: the ready edge whose next task is first in pcalg order.
\* (Mutant: any ready edge is taken.)
MutSelectTask(S, e) ==
  /\ LegacyRPermutation
  /\ wave' = Append(wave, {e})
  /\ ready' = [ready EXCEPT ![S] = @ \ {e}]

SelectTask(S, e) ==
  /\ LegacyRPermutation
  /\ \A f \in UNION {ready[B] : B \in Buckets} :
       f # e => PcalgTaskLess(NextTask(e), NextTask(f))
  /\ wave' = Append(wave, {e})
  /\ ready' = [ready EXCEPT ![S] = @ \ {e}]

SelectGroup ==
  /\ status = "running" /\ phase = "select"
  /\ active_edges > 0
  /\ Len(wave) < WaveCapacity
  /\ \E S \in Buckets : SelectBucket(S) \/ \E e \in ready[S] : SelectTask(S, e)
  /\ UNCHANGED <<resultVars, frontierVars, phase, plan>>

\* The wave is full, or nothing is ready, or a cache prediction ended it early.
StartWave ==
  /\ status = "running" /\ phase = "select"
  /\ wave # << >>
  /\ Len(wave) = WaveCapacity \/ Buckets = {} \/ PositiveMissOnly
  /\ phase' = "execute"
  /\ UNCHANGED <<resultVars, frontierVars, plan, ready, wave>>

-----------------------------------------------------------------------------
\* Edge e leaves the group being executed; the wave ends with its last group.
WithoutEdge(w, e) ==
  IF w[1] = {e} THEN Tail(w) ELSE [w EXCEPT ![1] = @ \ {e}]

LeaveGroup(e) ==
  /\ wave' = WithoutEdge(wave, e)
  /\ phase' = IF wave' = << >> THEN "select" ELSE "execute"

\* The next task of e is consumed with p-value p.
Consume(e, p) ==
  /\ status = "running" /\ phase = "execute"
  /\ e \in wave[1]
  /\ outcomes' = WithOutcome(outcomes, <<e, edge_positions[e] + 1>>, p)
  /\ pcalg_done' = (pcalg_done /\ ~NextTask(e).opens)
  /\ LeaveGroup(e)
  /\ UNCHANGED <<resultVars, plan>>

\* The p-values the data may give the next task of e.
PossibleP(e) ==
  {p \in PValue : level = 0 /\ e \in MarginalPairs => Independent(p)}

MutNoTrailing(e) == 0

Trailing(e) == Len(plan[e]) - (edge_positions[e] + 1)

\* Both orientations are marked.  (Mutant: one only.)
MutMarkDeleted(e) == delete_edges \cup {e}

MarkDeleted(e) == delete_edges \cup Cells(e)

\* An independent outcome deletes the edge and skips its trailing tasks.
AdvanceDeleted(e, p) ==
  /\ Consume(e, p)
  /\ Independent(p)
  /\ delete_edges' = MarkDeleted(e)
  /\ ignored' = ignored + Trailing(e)
  /\ remaining' = remaining - 1 - Trailing(e)
  /\ edge_positions' = [edge_positions EXCEPT ![e] = Len(plan[e])]
  /\ active_edges' = active_edges - 1
  /\ UNCHANGED ready

\* The edge survives its last task.
AdvanceExhausted(e, p) ==
  /\ Consume(e, p)
  /\ ~Independent(p)
  /\ edge_positions[e] + 1 = Len(plan[e])
  /\ remaining' = remaining - 1
  /\ edge_positions' = [edge_positions EXCEPT ![e] = @ + 1]
  /\ active_edges' = active_edges - 1
  /\ UNCHANGED <<delete_edges, ignored, ready>>

\* The conditioning set an edge waits for next.  (Mutant: that of the task just
\* consumed.)
MutFollowingKey(e) == plan[e][edge_positions[e] + 1].S

FollowingKey(e) == plan[e][edge_positions[e] + 2].S

\* The edge becomes ready in the bucket of its following task.
AdvanceRequeued(e, p) ==
  /\ Consume(e, p)
  /\ ~Independent(p)
  /\ edge_positions[e] + 1 < Len(plan[e])
  /\ remaining' = remaining - 1
  /\ edge_positions' = [edge_positions EXCEPT ![e] = @ + 1]
  /\ ready' = [ready EXCEPT ![FollowingKey(e)] = @ \cup {e}]
  /\ UNCHANGED <<delete_edges, ignored, active_edges>>

-----------------------------------------------------------------------------
\* The require() that closes the frontier loop.
FrontierDrained == remaining = 0 /\ Buckets = {}

\* The canonical replay, the deletions and the decision to go on.
CommitLevel ==
  /\ status = "running" /\ phase = "select"
  /\ active_edges = 0
  /\ FrontierDrained
  /\ adj' = adj \ delete_edges
  /\ sepsets' = ReplayedSepsets(sepsets, plan, outcomes)
  /\ pmax' = ReplayedPmax(pmax, outcomes)
  /\ n_edgetests' = Append(n_edgetests, Cardinality(DOMAIN outcomes))
  /\ level' = level + 1
  /\ status' = IF pcalg_done \/ level = MaxLevel THEN "done" ELSE "running"
  /\ phase' = "plan"
  /\ outcomes' = NoOutcome
  /\ UNCHANGED <<plan, ready, wave, edge_positions, active_edges, remaining,
                 ignored, delete_edges, pcalg_done>>

\* Any require(), CUDA error or non-finite p-value unwinds the call: no result.
Fail ==
  /\ status = "running" /\ status' = "failed"
  /\ level' = 0
  /\ adj' = InitialAdjacency
  /\ sepsets' = InitialSepsets
  /\ pmax' = InitialPmax
  /\ n_edgetests' = << >>
  /\ outcomes' = NoOutcome
  /\ phase' = "plan"
  /\ plan' = [e \in Edge |-> << >>]
  /\ edge_positions' = [e \in Edge |-> 0]
  /\ ready' = NoBucket
  /\ wave' = << >>
  /\ active_edges' = 0 /\ remaining' = 0 /\ ignored' = 0
  /\ delete_edges' = {}
  /\ pcalg_done' = TRUE

Progress ==
  \/ BeginLevel
  \/ SelectGroup
  \/ StartWave
  \/ \E e \in Edge : \E p \in PossibleP(e) :
       AdvanceDeleted(e, p) \/ AdvanceExhausted(e, p) \/ AdvanceRequeued(e, p)
  \/ CommitLevel

\* The call has returned or thrown.
Returned == status # "running" /\ UNCHANGED vars

Next == Progress \/ Fail \/ Returned

Spec == Init /\ [][Next]_vars

\* The engine is one thread that never waits for anything but the device.
FairSpec == Spec /\ WF_vars(Progress)

-----------------------------------------------------------------------------
(* Properties *)

\* Every variable has the type the code declares it with.
TypeOK ==
  /\ level \in Nat
  /\ adj \in SUBSET Cell
  /\ sepsets \in [Cell -> SUBSET Vertex]
  /\ pmax \in [Cell -> PValue \cup {MinusInfinity}]
  /\ status \in {"running", "done", "failed"}
  /\ n_edgetests \in Seq(Nat)
  /\ phase \in {"plan", "select", "execute"}
  /\ plan \in [Edge -> Seq(Task)]
  /\ edge_positions \in [Edge -> Nat]
  /\ outcomes \in [DOMAIN outcomes -> PValue]
  /\ DOMAIN outcomes \subseteq TaskIds(plan)
  /\ ready \in [SUBSET Vertex -> SUBSET Edge]
  /\ wave \in Seq(SUBSET Edge)
  /\ active_edges \in Nat /\ remaining \in Nat /\ ignored \in Nat
  /\ delete_edges \in SUBSET Cell
  /\ pcalg_done \in BOOLEAN

ReadyEdgesWait ==
  \A S \in SUBSET Vertex : \A e \in ready[S] :
    /\ e \in Unfinished
    /\ NextTask(e).S = S
    /\ \A k \in DOMAIN wave : e \notin wave[k]

GroupsWait ==
  \A k \in DOMAIN wave :
    /\ wave[k] # {}
    /\ wave[k] \subseteq Unfinished
    /\ \A e, f \in wave[k] : NextTask(e).S = NextTask(f).S
    /\ \A l \in DOMAIN wave : l # k => wave[k] \cap wave[l] = {}

NoEdgeLost ==
  \A e \in Unfinished :
    \/ e \in ready[NextTask(e).S]
    \/ \E k \in DOMAIN wave : e \in wave[k]

\* The frontier is a partition: between waves and inside them, an edge with a
\* task left waits in exactly one place (the bucket of that task's conditioning
\* set, or one group of the wave, whose tasks all share a conditioning set),
\* and a finished edge waits nowhere.  The require()s on batches that mix
\* conditioning sets, on edge positions and on progress rest on it.
FrontierPartition == ReadyEdgesWait /\ GroupsWait /\ NoEdgeLost

\* The tasks a level has not consumed or skipped yet.
PendingTasks == {t \in TaskIds(plan) : t[2] > edge_positions[t[1]]}

\* The counters the loop runs on agree with the work that is left, so the loop
\* ends exactly when every edge is finished, and the closing require() holds:
\* consumed + ignored + remaining = planned.
FrontierAccounting ==
  /\ active_edges = Cardinality(Unfinished)
  /\ remaining = Cardinality(PendingTasks)
  /\ phase # "plan" =>
       Cardinality(DOMAIN outcomes) + ignored + remaining = Cardinality(TaskIds(plan))

\* Whatever order the waves ran in, an edge has consumed exactly the tasks the
\* sequential engine would have: a prefix of its list, all of it unless its last
\* consumed task was independent; the edges marked for deletion are those, and
\* none of them waits for another task.
ConsumedPrefix ==
  phase # "plan" =>
    /\ \A e \in Edge : \A i \in DOMAIN plan[e] :
         /\ <<e, i>> \in DOMAIN outcomes =>
              i <= edge_positions[e] /\ Reached(outcomes, e, i)
         /\ i <= edge_positions[e] =>
              <<e, i>> \in DOMAIN outcomes \/ e \in RemovedEdges(outcomes)
    /\ RemovedEdges(outcomes) \cap Unfinished = {}
    /\ delete_edges = UNION {Cells(e) : e \in RemovedEdges(outcomes)}

\* The inductive invariant: the four above, and what a phase says of the wave.
WavePhase ==
  /\ phase = "plan" => wave = << >>
  /\ phase = "execute" => wave # << >>

FrontierInv ==
  TypeOK /\ FrontierPartition /\ FrontierAccounting /\ ConsumedPrefix /\ WavePhase

\* In permutation mode the tests consume R's random stream, so a task may run
\* only when every task before it in pcalg order has run or lost its edge.
StreamOrderKept ==
  \A t \in DOMAIN outcomes' \ DOMAIN outcomes :
    \A s \in TaskIds(plan) :
      PcalgTaskLess(plan[s[1]][s[2]], plan[t[1]][t[2]]) =>
        s \in DOMAIN outcomes \/ s[1] \in RemovedEdges(outcomes)

\* The engine implements the sequential level semantics, early stop included:
\* the sequential engine writes pmax and sepsets task by task, this one when it
\* replays the level, so the mapping replays what has been consumed so far.
Levels == INSTANCE SkeletonLevels WITH
            sepsets <- ReplayedSepsets(sepsets, plan, outcomes),
            pmax <- ReplayedPmax(pmax, outcomes)

RefinesLevels == Levels!Spec

\* The call ends: the frontier never stalls with edges still active.
Terminates == <>(status # "running")

=============================================================================
