-------------------------- MODULE SinglePenaltyGcv --------------------------
(***************************************************************************)
(* One target of the single-penalty GCV optimizer.  A spectral kernel runs *)
(* the descent on an approximate objective; a target whose run is in doubt *)
(* is repeated from the start with the exact decomposition, and the exact  *)
(* run replaces the spectral one.                                          *)
(***************************************************************************)
EXTENDS Integers

CONSTANTS
    Points,         \* log smoothing parameters
    Start,          \* log(initial_sp)
    MaxHalving,     \* kMaxStepHalving
    MaxIterations,  \* kMaxIterations
    MaxProbes,      \* kMaxBoundaryProbes
    Steps           \* how much a score may differ from the best one

VARIABLES
    opt,        \* the state of the optimizer that runs
    lane,       \* spectral, exact or finished
    result      \* SinglePenaltyGcvOptimizerResult

vars == <<opt, lane, result>>

Evaluation(p) == [at |-> p, complete |-> TRUE]

Cleared ==
    [pc |-> "initial", iteration |-> 0, tries |-> 0, logSp |-> Start,
     current |-> Evaluation(Start), reduction |-> 0, steepest |-> FALSE,
     zero |-> FALSE, converged |-> FALSE, stepFailed |-> FALSE,
     boundary |-> 0, iterationFlat |-> FALSE, flat |-> FALSE,
     endpointRisk |-> FALSE]

NoResult ==
    [exact |-> FALSE, termination |-> "none", fullyConverged |-> FALSE, boundary |-> 0,
     logSp |-> Start, current |-> Evaluation(Start), fresh |-> FALSE]

Init == opt = Cleared /\ lane = "spectral" /\ result = NoResult

Becomes(s) == opt' = s /\ UNCHANGED <<lane, result>>

(* An objective that is not valid ends the exact run; the spectral one     *)
(* ends only when it is the first.                                         *)
Invalid == Becomes([opt EXCEPT !.pc = "invalid"])

Initial ==
    /\ opt.pc = "initial" /\ lane # "finished"
    /\ Becomes([opt EXCEPT !.iteration = 1, !.pc = "judge"]) \/ Invalid

-----------------------------------------------------------------------------
Newton(n) == ~opt.steepest /\ n < 4
Unmoved(n) == opt.zero /\ ~(n = 4 /\ ~opt.steepest)

Accepted(s, p) ==
    [s EXCEPT !.logSp = p, !.current = Evaluation(p), !.reduction = s.iteration,
              !.pc = "judge"]

(* A Newton step predicted to change less than the spectral objective can  *)
(* resolve ends the iteration as flat; any other is halved.                *)
Rejected(s, n, unmoved, unresolved) ==
    [s EXCEPT !.zero = (n = MaxHalving - 1 \/ unmoved), !.iterationFlat = unresolved,
              !.flat = @ \/ unresolved,
              !.pc = IF unresolved \/ n = MaxHalving THEN "judge" ELSE "trial"]

Trial ==
    LET n == opt.tries + 1
        s == [opt EXCEPT !.tries = n, !.steepest = @ \/ n = 4]
    IN
    /\ opt.pc = "trial"
    /\ \/ /\ lane = "exact"
          /\ Invalid
       \/ \E p \in Points, d \in Steps, unresolved, risk \in BOOLEAN :
             LET t == [s EXCEPT !.endpointRisk = @ \/ risk] IN
             /\ Unmoved(n) => p = opt.logSp
             /\ p = opt.logSp => d = 0
             /\ unresolved \/ risk => lane = "spectral" /\ Newton(n)
             /\ \/ d < 0 /\ Becomes(Accepted(t, p))
                \/ d >= 0 /\ Becomes(Rejected(t, n, Unmoved(n), unresolved))

Exhausted == opt.tries = MaxHalving
Converges(small) == opt.iteration > 3 /\ (small \/ Exhausted \/ opt.iterationFlat)

Judge ==
    /\ opt.pc = "judge"
    /\ \E small, negative \in BOOLEAN :
          LET t == [opt EXCEPT !.converged = Converges(small),
                               !.stepFailed = (Converges(small) /\ Exhausted),
                               !.steepest = negative, !.zero = FALSE, !.tries = 0,
                               !.iterationFlat = FALSE]
          IN /\ small => opt.reduction # 0
             /\ Becomes(IF Converges(small) THEN [t EXCEPT !.pc = "probe"]
                        ELSE IF opt.iteration = MaxIterations
                        THEN [t EXCEPT !.pc = "limit"]
                        ELSE [t EXCEPT !.pc = "trial", !.iteration = @ + 1])

Probe ==
    /\ opt.pc = "probe"
    /\ \/ /\ lane = "exact"
          /\ Invalid
       \/ \E p \in Points \ {opt.logSp}, d \in Steps :
             Becomes(IF d >= 0 THEN [opt EXCEPT !.pc = "finalize", !.tries = 0]
                     ELSE [opt EXCEPT
                             !.logSp = p, !.current = Evaluation(p),
                             !.boundary = @ + 1,
                             !.tries = IF @ + 1 = MaxProbes THEN 0 ELSE @ + 1,
                             !.pc = IF opt.tries + 1 = MaxProbes THEN "finalize"
                                    ELSE "probe"])

-----------------------------------------------------------------------------
Termination(s) ==
    IF s.pc = "invalid" THEN "nonfinite_objective"
    ELSE IF s.pc = "limit" THEN "iteration_limit"
    ELSE IF s.stepFailed THEN "step_halving_exhausted"
    ELSE IF s.flat THEN "flat_objective"
    ELSE "score_and_gradient"

Result(s) ==
    [exact |-> lane = "exact",
     termination |-> Termination(s),
     fullyConverged |-> s.pc = "finalize" /\ ~s.stepFailed /\ ~s.flat,
     boundary |-> s.boundary,
     logSp |-> s.logSp, current |-> s.current,
     fresh |-> s.reduction = s.iteration]

(* Which spectral runs are repeated: one whose last Newton step was close  *)
(* to the resolution, one that did not fully converge, that moved to the   *)
(* boundary, or whose numbers are suspect.                                 *)
mark_spectral_exact_replay(r, endpointRisk, numerical) ==
    \/ endpointRisk
    \/ ~r.fullyConverged \/ r.termination # "score_and_gradient"
    \/ r.boundary > 0
    \/ numerical

Ended == opt.pc \in {"finalize", "limit", "invalid"}

FinalizeSpectral ==
    /\ lane = "spectral" /\ Ended
    /\ result' = Result(opt)
    /\ \E numerical \in BOOLEAN :
          IF mark_spectral_exact_replay(Result(opt), opt.endpointRisk, numerical)
          THEN lane' = "exact" /\ opt' = Cleared
          ELSE lane' = "finished" /\ opt' = [opt EXCEPT !.pc = "done"]

FinalizeExact ==
    /\ lane = "exact" /\ Ended
    /\ result' = Result(opt)
    /\ lane' = "finished"
    /\ opt' = IF opt.pc = "finalize" THEN [opt EXCEPT !.pc = "done"] ELSE opt

Next ==
    \/ Initial \/ Trial \/ Judge \/ Probe
    \/ FinalizeSpectral \/ FinalizeExact

Spec == Init /\ [][Next]_vars

-----------------------------------------------------------------------------
(* optimize_targets_kernel, mark_spectral_exact_replay_kernel: a result    *)
(* that says it converged took a step in its last iteration and is of the  *)
(* parameters it reports; only an exact run reports anything else, or a    *)
(* move to the boundary.                                                   *)
ConvergedIsFresh ==
    lane = "finished" =>
        /\ result.fullyConverged => result.fresh /\ result.current.at = result.logSp
        /\ ~result.exact => result.fullyConverged /\ result.boundary = 0

replayed == lane = "exact" \/ (lane = "finished" /\ result.exact)
shown == IF replayed THEN opt ELSE Cleared

HostPc ==
    IF shown.pc = "finalize" THEN "refine"
    ELSE IF shown.pc \in {"limit", "invalid"} THEN "thrown" ELSE shown.pc

HostCoordinate == IF shown.pc \in {"finalize", "done"} THEN 2 ELSE 1

Host == INSTANCE GcvDescent WITH
    Penalties <- 1,
    pc <- HostPc,
    iteration <- shown.iteration,
    tries <- shown.tries,
    logSp <- shown.logSp,
    current <- shown.current,
    reduction <- shown.reduction,
    steepest <- shown.steepest,
    zero <- shown.zero,
    converged <- shown.converged,
    stepFailed <- shown.stepFailed,
    coordinate <- HostCoordinate,
    boundary <- shown.boundary

(* replay_magic_exact_optimizer_target: the exact run performs the host    *)
(* optimizer's descent with one penalty.                                   *)
ExactRefinesHost == Host!Spec
=============================================================================
