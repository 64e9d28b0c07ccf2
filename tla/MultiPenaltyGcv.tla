-------------------------- MODULE MultiPenaltyGcv ---------------------------
(***************************************************************************)
(* One target of optimize_multi_penalty_targets_kernel: the descent of     *)
(* GcvDescent on the device, where a score is only known up to rounding.   *)
(* The primary run may be repeated by a stability replay with the stable   *)
(* SVD, and the merge kernel then chooses the state that is reported.      *)
(*                                                                         *)
(* A lane (primary or replay) is one DeviceOptimizerState; the lanes share *)
(* the block's workspace.  A score is how much it differs from the best    *)
(* one so far: by one is within rounding, by two is not.                   *)
(***************************************************************************)
EXTENDS Integers

CONSTANTS
    Points,         \* vectors of log smoothing parameters
    Start,          \* initial_log_sp
    Penalties,      \* penalty_count
    MaxHalving,     \* max_step_halving
    MaxIterations,  \* max_iterations
    MaxProbes,      \* max_boundary_probes
    LongTrajectory, \* kStabilityReplayLongTrajectoryMinimumIterations
    Steps,          \* how much a score may differ from the best one
    ExactPrimary,   \* exact_primary_only: no replay, every SVD stable
    ForceAll,       \* force_stability_replay_all
    ForceSelected   \* force_final_selected_evaluation

(* What a setup is refused for, and what a batch is: too few halvings or   *)
(* iterations, no probe, and a forced final evaluation of a run that may   *)
(* be replayed.                                                            *)
SetupAssumption == Penalties \in Nat \ {0} /\ Start \in Points
ControlAssumption ==
    /\ MaxHalving \in Nat /\ MaxHalving >= 4
    /\ MaxIterations \in Nat /\ MaxIterations > 3
    /\ MaxProbes \in Nat \ {0}
    /\ ForceSelected => ExactPrimary

VARIABLES
    opt,        \* lane -> DeviceOptimizerState
    workspace,  \* the point whose decomposition the workspace holds
    lane        \* the kernel that runs: primary, replay, merge or finished

vars == <<opt, workspace, lane>>
Lanes == {"primary", "replay"}
None == "none"

Noise == 1 \in Steps
Finite(e) == e.info = 0
Incomplete(p, route) ==
    [at |-> p, info |-> 0, route |-> route, complete |-> FALSE,
     from |-> None]
Broken(p) == [Incomplete(p, "none") EXCEPT !.info = -1]

(* The derivatives and the coefficients are formed from the decomposition  *)
(* in the workspace, at once or when a deferred evaluation is accepted.    *)
Completed(e, w) == [e EXCEPT !.complete = TRUE, !.from = w]

(* The guarded QR is tried first unless the stable SVD is forced.          *)
Stable(l) == ExactPrimary \/ l = "replay"
DecompositionRoutes(l) ==
    IF Stable(l) THEN {"stable_svd"} ELSE {"guarded_qr", "stable_svd"}

(* What a call of evaluate_multi_penalty_target_device can leave behind:   *)
(* an aggregate rank or a decomposition that fails, or a score.            *)
Evaluations(l, p) ==
    {Broken(p)} \cup {Incomplete(p, r) : r \in DecompositionRoutes(l)}

(* The state a lane starts from; every field is reset.                     *)
Cleared ==
    [pc |-> "initial", status |-> 0, iteration |-> 0, tries |-> 0, coordinate |-> 1,
     boundary |-> 0, logSp |-> Start, current |-> Broken(Start),
     reduction |-> 0, steepest |-> FALSE, zero |-> FALSE, converged |-> FALSE, stepFailed |-> FALSE,
     selected |-> FALSE, ambiguous |-> FALSE, undecided |-> FALSE,
     disputed |-> FALSE, guarded |-> FALSE, extreme |-> FALSE, stale |-> FALSE,
     attempted |-> FALSE, error |-> FALSE]

(* d_replay_states keeps what an earlier batch left there.                 *)
Init ==
    /\ opt = [l \in Lanes |->
          IF l = "primary" THEN Cleared
          ELSE [Cleared EXCEPT !.pc = "done", !.stale = TRUE, !.selected = TRUE]]
    /\ workspace = None
    /\ lane = "primary"

(* Lane l goes to state s with the workspace w.                            *)
Becomes(l, s, w) ==
    /\ opt' = [opt EXCEPT ![l] = s]
    /\ workspace' = w
    /\ lane' = lane

Fail(l, code) ==
    Becomes(l, [opt[l] EXCEPT !.pc = "done", !.status = code], workspace)

Counted(s, e) == [s EXCEPT !.guarded = @ \/ e.route = "guarded_qr"]

-----------------------------------------------------------------------------
(* The first evaluation, complete at once.                                 *)

StartLane(l) ==
    LET s == opt[l] IN
    /\ lane = l /\ s.pc = "initial"
    /\ \E e \in Evaluations(l, s.logSp) :
          IF Finite(e)
          THEN Becomes(l, [Counted(s, e) EXCEPT !.current = Completed(e, s.logSp),
                                                !.iteration = 1, !.pc = "judge"],
                       s.logSp)
          ELSE Fail(l, 1)

-----------------------------------------------------------------------------
(* A try: the score first, the derivatives only when the step is accepted  *)
(* or when an ambiguous first Newton step needs the direct residual.       *)

Source(s, n) == n = 4 /\ ~s.steepest
Unmoved(s, n) == s.zero /\ ~Source(s, n)

(* A first Newton step, longer than the convergence step, whose score      *)
(* cannot be told from the best one.                                       *)
AmbiguousStep(s, n, d, down, near) ==
    ~s.steepest /\ n = 1 /\ down /\ ~near /\ d \in -1 .. 1

(* A Newton step within the convergence step may be taken although its     *)
(* score is worse by less than the arithmetic can tell.                    *)
RoundoffDescent(s, n, d, down, near) ==
    ~(s.steepest \/ n = 4) /\ down /\ near /\ d <= 1

Accepts(l, s, n, d, down, near) ==
    /\ ~(/\ l = "replay" /\ AmbiguousStep(s, n, d, down, near)
         /\ opt["primary"].ambiguous)
    /\ d < 0 \/ RoundoffDescent(s, n, d, down, near)

Tried(l, s, n, d, down, near, disagree) ==
    LET primary == l = "primary" /\ AmbiguousStep(s, n, d, down, near) IN
    [s EXCEPT !.tries = n, !.steepest = @ \/ n = 4,
              !.ambiguous = @ \/ (primary /\ d < 0 /\ disagree),
              !.undecided = @ \/ (primary /\ d >= 0)]

Rejected(t, n, unmoved) ==
    [t EXCEPT !.zero = (n = MaxHalving - 1 \/ unmoved),
              !.pc = IF n = MaxHalving THEN "judge" ELSE "trial"]

MutAccepted(t, e, w) ==
    [t EXCEPT !.logSp = e.at, !.current = e,
              !.reduction = t.iteration, !.pc = "judge"]

Accepted(t, e, w) ==
    [t EXCEPT !.logSp = e.at, !.current = Completed(e, w),
              !.reduction = t.iteration, !.pc = "judge"]

TrialLane(l) ==
    LET s == opt[l]
        n == s.tries + 1
    IN
    /\ lane = l /\ s.pc = "trial"
    /\ \E p \in Points, d \in Steps, down, near, disagree \in BOOLEAN :
          /\ Unmoved(s, n) => p = s.logSp /\ ~down
          /\ p = s.logSp => d = 0
          /\ near => Noise /\ down
          /\ disagree => l = "primary" /\ d < 0 /\ AmbiguousStep(s, n, d, down, near)
          /\ \E e \in Evaluations(l, p) :
                LET t == Counted(Tried(l, s, n, d, down, near, disagree), e)
                    accepted == Accepts(l, s, n, d, down, near)
                IN
                \/ (~Finite(e) \/ accepted) /\ Fail(l, 2)
                \/ Finite(e) /\ ~accepted /\ Becomes(l, Rejected(t, n, Unmoved(s, n)), p)
                \/ Finite(e) /\ accepted /\ Becomes(l, Accepted(t, e, p), p)

-----------------------------------------------------------------------------
(* The end of an iteration, as on the host.                                *)

Exhausted(s) == s.tries = MaxHalving
Converges(s, small) == s.iteration > 3 /\ (small \/ Exhausted(s))

JudgeLane(l) ==
    LET s == opt[l] IN
    /\ lane = l /\ s.pc = "judge"
    /\ \/ Fail(l, 3)
       \/ \E small, negative \in BOOLEAN :
             LET t == [s EXCEPT !.converged = Converges(s, small),
                                !.stepFailed = (Converges(s, small) /\ Exhausted(s)),
                                !.steepest = negative, !.zero = FALSE, !.tries = 0]
             IN /\ small => s.reduction # 0
                /\ Becomes(l, IF Converges(s, small) THEN [t EXCEPT !.pc = "probe"]
                              ELSE IF s.iteration = MaxIterations
                              THEN [t EXCEPT !.pc = "done", !.status = 4]
                              ELSE [t EXCEPT !.pc = "trial", !.iteration = @ + 1],
                           workspace)

-----------------------------------------------------------------------------
(* A boundary probe asks for the score only.  One that is not better, or   *)
(* ties at a high condition, is decided by two evaluations with the stable *)
(* SVD: of the point the probe left and of the probe, each complete.       *)

Pending(l, d, steep) == ~Stable(l) /\ (d >= 0 \/ (steep /\ d >= -1))

Walked(t) ==
    [t EXCEPT !.tries = 0, !.coordinate = @ + 1,
              !.pc = IF t.coordinate = Penalties THEN "select" ELSE "probe"]

MutProbed(s, e, accepted) ==
    IF ~accepted THEN Walked(s)
    ELSE LET t == [s EXCEPT !.logSp = e.at, !.current = e]
         IN IF s.tries + 1 = MaxProbes THEN Walked(t) ELSE [t EXCEPT !.tries = @ + 1]

(* The probed point is taken; its evaluation is not.                       *)
Probed(s, e, accepted) ==
    IF ~accepted THEN Walked(s)
    ELSE LET t == [s EXCEPT !.logSp = e.at, !.boundary = @ + 1]
         IN IF s.tries + 1 = MaxProbes THEN Walked(t) ELSE [t EXCEPT !.tries = @ + 1]

ProbeLane(l) ==
    LET s == opt[l] IN
    /\ lane = l /\ s.pc = "probe"
    /\ \E p \in Points \ {s.logSp}, d \in Steps, steep, confirmed, doubt \in BOOLEAN :
          \E e \in Evaluations(l, p) :
             LET pending == Pending(l, d, steep)
                 accepted == IF pending THEN confirmed ELSE d < 0
                 t == [Counted(s, e) EXCEPT
                          !.disputed = @ \/ (pending /\ ~accepted /\ doubt)]
             IN
             /\ steep => d < 0
             /\ confirmed => pending /\ Noise /\ d <= 1
             /\ doubt => pending /\ ~accepted
             /\ \/ (~Finite(e) \/ pending) /\ Fail(l, 5)
                \/ Finite(e) /\ Becomes(l, Probed(t, e, accepted), p)

(* The selected fit: the evaluation of the last accepted step when no      *)
(* probe was taken, a new one otherwise.                                   *)
Selected(l, s) == [s EXCEPT !.pc = "done", !.selected = (l = "replay")]

SelectLane(l) ==
    LET s == opt[l] IN
    /\ lane = l /\ s.pc = "select"
    /\ \E extreme \in {FALSE, s.boundary > 0} :
          LET t == [Selected(l, s) EXCEPT !.extreme = extreme] IN
          IF s.boundary = 0 /\ ~ForceSelected
          THEN Becomes(l, t, workspace)
          ELSE \E e \in Evaluations(l, s.logSp) :
                  Becomes(l, IF Finite(e)
                             THEN [Counted(t, e) EXCEPT !.current = Completed(e, s.logSp)]
                             ELSE [t EXCEPT !.status = 6], s.logSp)

-----------------------------------------------------------------------------
(* Which runs are repeated: long ones, dense or extreme ones that reached  *)
(* the boundary, ambiguous or disputed ones, failed steps, and every run   *)
(* that used the guarded QR.                                               *)

is_stability_replay_candidate(s) ==
    /\ s.status = 0
    /\ \/ s.iteration >= LongTrajectory
       \/ s.boundary > 0 /\ s.extreme
       \/ s.ambiguous \/ s.undecided
       \/ s.disputed
       \/ s.stepFailed
       \/ s.guarded

Replays(s) == ForceAll \/ is_stability_replay_candidate(s)

(* Both kernels are queued for all targets; the block of a target that is  *)
(* not repeated returns and leaves its replay state alone.                 *)
LaunchReplay ==
    /\ lane = "primary" /\ opt["primary"].pc = "done" /\ ~ExactPrimary
    /\ opt' = IF Replays(opt["primary"])
              THEN [opt EXCEPT !["replay"] = [Cleared EXCEPT !.attempted = TRUE]]
              ELSE opt
    /\ lane' = "replay"
    /\ UNCHANGED workspace

(* The merge keeps the primary's boundary confirmations, takes the rest of *)
(* a replay that succeeded, and only the status of one that failed.        *)
Merged(s, r) ==
    LET picked == r.selected /\ r.status = 0
        kept == IF picked THEN [r EXCEPT !.disputed = s.disputed]
                ELSE IF r.status # 0 THEN [s EXCEPT !.status = r.status]
                ELSE s
    IN [kept EXCEPT !.attempted = TRUE, !.selected = picked,
                    !.error = (r.status # 0)]

merge_stability_replay_states ==
    /\ lane = "replay" /\ opt["replay"].pc = "done"
    /\ opt' = IF Replays(opt["primary"])
              THEN [opt EXCEPT !["primary"] = Merged(@, opt["replay"])] ELSE opt
    /\ lane' = "finished"
    /\ UNCHANGED workspace

Finish ==
    /\ ExactPrimary
    /\ lane = "primary" /\ opt["primary"].pc = "done"
    /\ lane' = "finished"
    /\ UNCHANGED <<opt, workspace>>

Next ==
    \/ \E l \in Lanes :
          StartLane(l) \/ TrialLane(l) \/ JudgeLane(l) \/ ProbeLane(l) \/ SelectLane(l)
    \/ LaunchReplay
    \/ merge_stability_replay_states
    \/ Finish

Spec == Init /\ [][Next]_vars

-----------------------------------------------------------------------------
reported == opt["primary"]

(* What the caller is given of a target, and what it is told of its replay.*)
materialize_optimizer_output(s) ==
    [selected_log_sp |-> s.logSp, evaluation |-> s.current, stale |-> s.stale,
     fit |-> s.status = 0, rankFailed |-> s.current.info = -1]

ReplayReport(s) ==
    [attempted |-> s.attempted, selected |-> s.attempted /\ s.selected,
     error |-> s.attempted /\ s.error,
     screened |-> s.attempted /\ ~s.selected /\ ~s.error]

(* materialize_optimizer_output: a target reported without an error has a  *)
(* complete evaluation at the parameters reported with it, formed from the *)
(* decomposition of that very point, of this batch, whichever lane it      *)
(* comes from.                                                             *)
ReportedIsEvaluated ==
    LET output == materialize_optimizer_output(reported)
    IN lane = "finished" /\ output.fit =>
        /\ output.evaluation.complete
        /\ output.evaluation.at = output.selected_log_sp
        /\ output.evaluation.from = output.selected_log_sp
        /\ ~output.stale /\ ~output.rankFailed

(* Every replay reported was either selected or failed, and with it the    *)
(* target: none is screened out, and no fit is reported beside a replay    *)
(* that went wrong.                                                        *)
ReplaysSettled ==
    LET replay == ReplayReport(reported)
    IN lane = "finished" =>
        /\ replay.attempted <=> replay.selected # replay.error
        /\ ~replay.screened
        /\ replay.error => reported.status # 0

(* requires_guarded_qr_trajectory_stability_replay: no reported optimum    *)
(* rests on a guarded QR anywhere along its descent.                       *)
StableInTheEnd ==
    lane = "finished" /\ reported.status = 0 =>
        ~reported.guarded /\ reported.current.route = "stable_svd"

(* Where rounding decides nothing, the device performs the host's descent. *)
HostPc ==
    IF reported.pc = "select" THEN "refine"
    ELSE IF reported.status # 0 THEN "thrown" ELSE reported.pc

(* Between the first accepted probe and the selected fit the lane has no   *)
(* evaluation of its parameters; the host always has one.                  *)
HostCurrent ==
    IF reported.iteration = 0
       \/ (reported.converged /\ ~(reported.pc = "done" /\ reported.status = 0))
    THEN [at |-> reported.logSp, complete |-> TRUE]
    ELSE [at |-> reported.current.at, complete |-> reported.current.complete]

Host == INSTANCE GcvDescent WITH
    pc <- HostPc,
    iteration <- reported.iteration,
    tries <- reported.tries,
    logSp <- reported.logSp,
    current <- HostCurrent,
    reduction <- reported.reduction,
    steepest <- reported.steepest,
    zero <- reported.zero,
    converged <- reported.converged,
    stepFailed <- reported.stepFailed,
    coordinate <- reported.coordinate,
    boundary <- reported.boundary

(* multi_penalty_gcv_optimize_cpp: the primary run of the kernel refines   *)
(* it when every comparison of scores is clear of rounding, and selects    *)
(* the same evaluation.                                                    *)
RefinesHost == Host!Spec
=============================================================================
