------------------------------ MODULE MCEngines -----------------------------
(* The engines that batch or reorder a level's tests, on small instances.  *)
(* `subject` is the one whose behaviours are explored; the others stay in  *)
(* one of their initial states. A variable two of them call alike carries  *)
(* the name of its instance.                                               *)
EXTENDS SkeletonBatch

CONSTANTS
    Subjects

VARIABLES
    subject,
    precisionEngine, mode, precisionLevel, precisionAdj, precisionSepsets,
    precisionPmax, precisionOutcomes, precisionStatus, precisionPhase,
    precisionPlan, precisionTasks, requests, precisionCursor, pending, inputs,
    replayed, precisionEdge_done, pcalg_done, tally, rows, report,
    frontierLevel, frontierAdj, frontierSepsets, frontierPmax, frontierStatus,
    frontierOutcomes, frontierPhase, frontierPlan, edge_positions, ready,
    wave, active_edges, remaining, ignored, frontierDelete_edges,
    frontierPcalg_done, n_edgetests

LastTwoPairs == {<<1, 3>>, <<2, 3>>}
LastVertex == {<<0, 3>>, <<1, 3>>, <<2, 3>>}

Precision == INSTANCE PrecisionSkeleton WITH
    MarginalPairs <- LastVertex, engine <- precisionEngine,
    level <- precisionLevel, adj <- precisionAdj, sepsets <- precisionSepsets,
    pmax <- precisionPmax, outcomes <- precisionOutcomes,
    status <- precisionStatus, phase <- precisionPhase, plan <- precisionPlan,
    tasks <- precisionTasks, cursor <- precisionCursor,
    edge_done <- precisionEdge_done

Frontier == INSTANCE SkeletonFrontier WITH
    MarginalPairs <- LastVertex, WaveCapacity <- 2, PositiveMissOnly <- TRUE,
    LegacyRPermutation <- FALSE, level <- frontierLevel, adj <- frontierAdj,
    sepsets <- frontierSepsets, pmax <- frontierPmax,
    status <- frontierStatus, outcomes <- frontierOutcomes,
    phase <- frontierPhase, plan <- frontierPlan,
    delete_edges <- frontierDelete_edges, pcalg_done <- frontierPcalg_done

precisionVars == <<precisionEngine, mode, precisionLevel, precisionAdj,
                   precisionSepsets, precisionPmax, precisionOutcomes,
                   precisionStatus, precisionPhase, precisionPlan,
                   precisionTasks, requests, precisionCursor, pending, inputs,
                   replayed, precisionEdge_done, pcalg_done, tally, rows,
                   report>>
frontierVars == <<frontierLevel, frontierAdj, frontierSepsets, frontierPmax,
                  frontierStatus, frontierOutcomes, frontierPhase,
                  frontierPlan, edge_positions, ready, wave, active_edges,
                  remaining, ignored, frontierDelete_edges,
                  frontierPcalg_done, n_edgetests>>
all == <<subject, vars, precisionVars, frontierVars>>

ASSUME Precision!MarginalAssumption

MCInit ==
    /\ subject \in Subjects
    /\ Init
    /\ subject # "batch" => engine = "cpu"
    /\ Precision!Init
    /\ subject # "precision" => precisionEngine = "ptable"
    /\ Frontier!Init

MCNext ==
    /\ UNCHANGED subject
    /\ \/ subject = "batch" /\ Next
          /\ UNCHANGED <<precisionVars, frontierVars>>
       \/ subject = "precision" /\ Precision!Next
          /\ UNCHANGED <<vars, frontierVars>>
       \/ subject = "frontier" /\ Frontier!Next
          /\ UNCHANGED <<vars, precisionVars>>

MCSpec == MCInit /\ [][MCNext]_all

-----------------------------------------------------------------------------
(* The order in which a native engine evaluates a level and the waves of    *)
(* the one-call frontier are invisible, also when p-values above alpha      *)
(* differ and pmax has to keep the largest: both implement the sequential   *)
(* level semantics, as the batch engine does (RefinesLevels).  The levels   *)
(* whose plan the R driver gets wrong are left out.                         *)
EnginesRefineLevels ==
    /\ Precision!Levels!Start /\ Frontier!Levels!Start
    /\ [][/\ subject = "precision" /\ Precision!PlanAgrees =>
                [Precision!Levels!Next]_(Precision!Levels!levelVars)
          /\ subject = "frontier" =>
                [Frontier!Levels!Next]_(Frontier!Levels!levelVars)]_all

(* The replay of the batch engine reads no p-value before a batch wrote it. *)
(* No canonical or round batch of a native engine tests what a sequential   *)
(* pass would not, every test reads the residuals of its own targets and    *)
(* conditioning set, and the reported counts and trace account for every    *)
(* planned task once.                                                       *)
NoWastedTest ==
    /\ ReplayReadsEvaluated
    /\ subject = "precision" =>
          /\ Precision!NoWastedTest /\ Precision!ReadsOwnResiduals
          /\ Precision!ReportAddsUp

(* The native plan and the plan of the R driver are the same.               *)
PlanAgrees == subject = "precision" => Precision!PlanAgrees
=============================================================================
