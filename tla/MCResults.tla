----------------------------- MODULE MCResults ------------------------------
(* What a run computes at its two ends, on small instances: the GCV        *)
(* optimizers and the artifact its results are published in.  `subject` is *)
(* the one whose behaviours are explored; the others stay in an initial    *)
(* state.                                                                  *)
(*                                                                         *)
(* The device lanes appear twice: with comparisons that rounding may       *)
(* decide (noisy) and without (clear).  The publication is the module that *)
(* is extended, with kills and failing renames.                            *)
EXTENDS ArtifactPublication

CONSTANTS
    Subjects,
    Points, Start, Steps, Penalties, MaxHalving, MaxIterations, MaxProbes

VARIABLES
    subject,
    hostPc, iteration, tries, logSp, current, reduction, steepest, zero,
    converged, stepFailed, coordinate, boundary,     \* the host's descent
    opt, workspace, lane,                            \* the device's lanes
    exactOpt, exactLane, exactResult,                \* the single-penalty lane
    deferred, batchPc, next, stop, claim, setups, errors, metadata, small,
    exact

HostGcv == INSTANCE GcvDescent WITH pc <- hostPc

Noisy == INSTANCE MultiPenaltyGcv WITH
    Penalties <- 2, MaxHalving <- 4, MaxIterations <- 4, MaxProbes <- 1,
    LongTrajectory <- 5, ExactPrimary <- FALSE, ForceAll <- FALSE,
    ForceSelected <- FALSE

Clear == INSTANCE MultiPenaltyGcv WITH
    Penalties <- 2, MaxHalving <- 5, MaxIterations <- 5, MaxProbes <- 2,
    LongTrajectory <- 5, Steps <- {-2, 0, 2}, ExactPrimary <- TRUE,
    ForceAll <- FALSE, ForceSelected <- FALSE

Single == INSTANCE SinglePenaltyGcv WITH
    opt <- exactOpt, lane <- exactLane, result <- exactResult

Batch == INSTANCE SinglePenaltyMulti WITH
    Targets <- <<2, 1, 2>>, Large <- {1}, MaxTargets <- 64,
    Workers <- {"w1", "w2"}, MaxErrors <- 1, pc <- batchPc

host == <<hostPc, iteration, tries, logSp, current, reduction, steepest, zero,
          converged, stepFailed, coordinate, boundary>>
lanes == <<opt, workspace, lane>>
single == <<exactOpt, exactLane, exactResult>>
batch == <<deferred, batchPc, next, stop, claim, setups, errors, metadata,
           small, exact>>
all == <<vars, host, lanes, single, batch, subject>>

ASSUME PublicationAssumption
ASSUME HostGcv!ControlAssumption
ASSUME Noisy!SetupAssumption /\ Noisy!ControlAssumption
ASSUME Clear!SetupAssumption /\ Clear!ControlAssumption
ASSUME Batch!LargeAssumption /\ Batch!RequestAssumption

TwoPayloads == <<"p1", "p2">>
MCPoints == {"p1", "p2"}
MCSteps == {-1, 0, 1}

MCInit ==
    /\ subject \in Subjects
    /\ Init /\ Noisy!Init /\ HostGcv!Init /\ Single!Init /\ Batch!Init
    /\ subject # "host" => logSp = Start
    /\ subject # "publication" => gen = 0
    /\ subject # "batch" => ~deferred

Published == UNCHANGED <<host, lanes, single, batch, subject>>

MCNext ==
    \/ subject = "publication" /\ Next /\ Published
    \/ subject = "noisy" /\ Noisy!Next
       /\ UNCHANGED <<vars, host, single, batch, subject>>
    \/ subject = "clear" /\ Clear!Next
       /\ UNCHANGED <<vars, host, single, batch, subject>>
    \/ subject = "host" /\ HostGcv!Next
       /\ UNCHANGED <<vars, lanes, single, batch, subject>>
    \/ subject = "single" /\ Single!Next
       /\ UNCHANGED <<vars, host, lanes, batch, subject>>
    \/ subject = "batch" /\ Batch!Next
       /\ UNCHANGED <<vars, host, lanes, single, subject>>

MCSpec ==
    /\ MCInit /\ [][MCNext]_all
    /\ WF_all(subject = "publication" /\ Publish /\ Published)
    /\ WF_all(subject = "publication" /\ Step /\ Published)

-----------------------------------------------------------------------------
(* An optimizer that reports full convergence took a step in its last      *)
(* iteration and is of the parameters it reports.                          *)
ConvergenceIsFresh == HostGcv!ConvergenceIsFresh

(* An optimum the device reports was evaluated at the parameters reported, *)
(* by the decomposition of that evaluation; every replay it reports was    *)
(* selected or failed its target; and when comparisons may be decided by   *)
(* rounding no optimum rests on a guarded QR along its descent.            *)
ReportedIsStable ==
    CASE subject = "noisy" -> /\ Noisy!ReportedIsEvaluated
                              /\ Noisy!ReplaysSettled /\ Noisy!StableInTheEnd
      [] subject = "clear" -> Clear!ReportedIsEvaluated /\ Clear!ReplaysSettled
      [] OTHER -> TRUE

(* With clear comparisons the device lanes refine the host's descent, and  *)
(* so does the exact replay of a single-penalty lane.                      *)
LanesRefineHost ==
    /\ Clear!Host!Init /\ Single!Host!Init
    /\ [][/\ subject = "clear" => [Clear!Host!Next]_(Clear!Host!vars)
          /\ subject = "single" => [Single!Host!Next]_(Single!Host!vars)]_all

(* single_penalty_gcv_cuda_multi returns each target's own result and counts *)
(* what it returned.                                                       *)
EachTargetOwn == Batch!EachTargetOwn

\* Sessions that are re-run end with a whole generation in place, unless the
\* kill left a disk that only an operator may repair; a restore that was
\* itself killed does not block the next ones for ever.
PublicationSettles == <>[](subject = "publication" /\ pc = "idle" =>
                              Whole \/ NeedsOperator)

=============================================================================
