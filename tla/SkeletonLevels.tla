--------------------------- MODULE SkeletonLevels ---------------------------
(***************************************************************************)
(* What every skeleton engine promises: the PC-stable level semantics that *)
(* run_skeleton_exact (fastkpc/src/skeleton_engine.cpp) computes.  Within  *)
(* a level an edge of the snapshot is tested on its own task list, in list *)
(* order, up to and including the first independent outcome; the edges     *)
(* proceed independently of each other, and nothing a level finds is       *)
(* visible to its own tests.  Engines that batch, reorder or parallelise   *)
(* the tests are shown to implement this specification.                    *)
(***************************************************************************)
EXTENDS SkeletonOps

VARIABLES level,      \* the conditioning size being run
          adj,        \* adjacency: its nonzero cells
          sepsets,    \* sepsets[<<x, y>>]; the empty vector until assigned
          pmax,       \* pmax[<<x, y>>]
          outcomes,   \* p-values of the tasks this level has tested
          status      \* "running", "done" or "failed"

levelVars == <<level, adj, sepsets, pmax, outcomes, status>>

\* No result yet.
Blank ==
  /\ level = 0
  /\ adj = InitialAdjacency
  /\ sepsets = InitialSepsets
  /\ pmax = InitialPmax
  /\ outcomes = NoOutcome

Start == Blank /\ status = "running"

\* One reachable, not yet tested task gets its outcome.
Test(e, i, p) ==
  /\ status = "running"
  /\ <<e, i>> \notin DOMAIN outcomes
  /\ outcomes' = WithOutcome(outcomes, <<e, i>>, p)
  /\ Reached(outcomes, e, i)
  /\ i \in DOMAIN MakeLayerPlan(adj, level)[e]
  /\ pmax' = PmaxWith(pmax, e, p)
  /\ sepsets' = SepsetsWith(sepsets, e, MakeLayerPlan(adj, level)[e][i].S, p)
  /\ UNCHANGED <<level, adj, status>>

\* The level's deletions take effect, all at once.  An engine may stop when no
\* later level has a task, and must after the last one.
CommitLevel ==
  /\ status = "running"
  /\ PassComplete(MakeLayerPlan(adj, level), outcomes)
  /\ adj' = adj \ UNION {Cells(e) : e \in RemovedEdges(outcomes)}
  /\ outcomes' = NoOutcome
  /\ level' = level + 1
  /\ \/ status' = "running" /\ level' <= MaxLevel
     \/ /\ status' = "done"
        /\ level' > MaxLevel \/ TaskIds(MakeLayerPlan(adj', level')) = {}
  /\ UNCHANGED <<sepsets, pmax>>

\* An engine that cannot finish reports an error and no result.
Fail == status = "running" /\ status' = "failed" /\ Blank'

\* An engine may drop everything it has and start again (CPU fallback).
Restart == status = "running" /\ Start'

Next ==
  \/ LET plan == MakeLayerPlan(adj, level)
     IN  \E e \in Edge, p \in PValue : \E i \in DOMAIN plan[e] : Test(e, i, p)
  \/ CommitLevel
  \/ Fail
  \/ Restart

Spec == Start /\ [][Next]_levelVars

=============================================================================
