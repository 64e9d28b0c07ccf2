----------------------------- MODULE GcvDescent -----------------------------
(***************************************************************************)
(* The multi-penalty GCV optimizer of the host: a guarded Newton descent   *)
(* on the log smoothing parameters, a probe of every coordinate towards    *)
(* infinity, and the fit at the parameters it selects.                     *)
(*                                                                         *)
(* A vector of parameters is a point.  A score is never computed, only     *)
(* compared with the best one so far: how much it differs is a choice, but *)
(* a point that did not move has the score it had.                         *)
(***************************************************************************)
EXTENDS Integers

CONSTANTS
    Points,         \* vectors of log smoothing parameters
    Penalties,      \* penalty_count
    MaxHalving,     \* control.max_step_halving
    MaxIterations,  \* control.max_iterations
    MaxProbes,      \* control.max_boundary_probes
    Steps           \* how much a score may differ from the best one

(* What the optimizer requires of its control.                             *)
ControlAssumption ==
    /\ MaxHalving \in Nat /\ MaxHalving >= 4
    /\ MaxIterations \in Nat /\ MaxIterations > 3
    /\ MaxProbes \in Nat \ {0}
    /\ Penalties \in Nat \ {0}

VARIABLES
    pc,
    iteration,
    tries,          \* tries of this iteration, accepted probes of a coordinate
    logSp,          \* log_sp
    current,        \* the evaluation: its point, is it complete
    reduction,      \* the iteration score_reduction is of, 0 for none
    steepest,       \* use_steepest_descent
    zero,           \* was the step set to zero
    converged,
    stepFailed,
    coordinate,
    boundary        \* boundary_accepted_count

progress == <<iteration, tries, coordinate, boundary>>
verdict == <<reduction, steepest, zero, converged, stepFailed>>
vars == <<pc, progress, logSp, current, verdict>>

Evaluation(p) == [at |-> p, complete |-> TRUE]

Init ==
    /\ pc = "initial"
    /\ iteration = 0 /\ tries = 0 /\ coordinate = 1 /\ boundary = 0
    /\ logSp \in Points
    /\ current = Evaluation(logSp)
    /\ reduction = 0
    /\ steepest = FALSE /\ zero = FALSE
    /\ converged = FALSE /\ stepFailed = FALSE

(* The first evaluation; the first iteration only takes its derivatives.   *)
BeginDescent ==
    /\ pc = "initial"
    /\ iteration' = 1
    /\ pc' = "judge"
    /\ UNCHANGED <<tries, coordinate, boundary, logSp, current, verdict>>

(* An evaluation with an invalid score, an eigensolver that fails, a       *)
(* selected fit whose rank drifted: require throws.                        *)
Throw ==
    /\ pc \in {"initial", "trial", "judge", "probe", "refine"}
    /\ pc' = "thrown"
    /\ UNCHANGED <<progress, logSp, current, verdict>>

-----------------------------------------------------------------------------
(* One try of an iteration.  The fourth gives up the Newton direction, the *)
(* last but one gives up the step.                                         *)

Source(n) == n = 4 /\ ~steepest
Unmoved(n) == zero /\ ~Source(n)

MutRejected(n) ==
    /\ logSp' = logSp /\ current' = current
    /\ reduction' = reduction
    /\ zero' = (n = MaxHalving)
    /\ pc' = IF n = MaxHalving THEN "judge" ELSE "trial"

Rejected(n) ==
    /\ logSp' = logSp /\ current' = current
    /\ reduction' = reduction
    /\ zero' = (n = MaxHalving - 1 \/ Unmoved(n))
    /\ pc' = IF n = MaxHalving THEN "judge" ELSE "trial"

Accepted(p) ==
    /\ logSp' = p
    /\ current' = Evaluation(p)
    /\ reduction' = iteration
    /\ zero' = zero
    /\ pc' = "judge"

Trial ==
    /\ pc = "trial"
    /\ LET n == tries + 1 IN
       /\ tries' = n
       /\ steepest' = (steepest \/ n = 4)
       /\ \E p \in Points, d \in Steps :
             /\ Unmoved(n) => p = logSp
             /\ p = logSp => d = 0
             /\ \/ d < 0 /\ Accepted(p)
                \/ d >= 0 /\ Rejected(n)
    /\ UNCHANGED <<iteration, coordinate, boundary, converged, stepFailed>>

(* The end of an iteration: after the third one the convergence test, of   *)
(* the last reduction and of the gradient the iteration started from; then *)
(* the derivatives, the Hessian's eigenvalues and the next steps.          *)
Exhausted == tries = MaxHalving
Converges(small) == iteration > 3 /\ (small \/ Exhausted)

Judge ==
    /\ pc = "judge"
    /\ \E small, negative \in BOOLEAN :
          /\ small => reduction # 0
          /\ converged' = Converges(small)
          /\ stepFailed' = (Converges(small) /\ Exhausted)
          /\ steepest' = negative
          /\ \/ Converges(small) /\ pc' = "probe" /\ iteration' = iteration
             \/ ~Converges(small) /\ iteration < MaxIterations
                /\ pc' = "trial" /\ iteration' = iteration + 1
             \/ ~Converges(small) /\ iteration = MaxIterations
                /\ pc' = "thrown" /\ iteration' = iteration
    /\ zero' = FALSE
    /\ tries' = 0
    /\ UNCHANGED <<coordinate, boundary, logSp, current, reduction>>

-----------------------------------------------------------------------------
(* The probes: a coordinate goes on in the direction of descent until a    *)
(* probe is not better or the probes are spent.                            *)

NextCoordinate ==
    /\ tries' = 0
    /\ coordinate' = coordinate + 1
    /\ pc' = IF coordinate = Penalties THEN "refine" ELSE "probe"

Probe ==
    /\ pc = "probe"
    /\ \E p \in Points, d \in Steps :
          /\ p # logSp
          /\ \/ /\ d < 0
                /\ logSp' = p
                /\ current' = Evaluation(p)
                /\ boundary' = boundary + 1
                /\ IF tries + 1 = MaxProbes THEN NextCoordinate
                   ELSE tries' = tries + 1 /\ UNCHANGED <<coordinate, pc>>
             \/ /\ d >= 0
                /\ NextCoordinate
                /\ UNCHANGED <<logSp, current, boundary>>
    /\ UNCHANGED <<iteration, verdict>>

(* The coefficients, the fit and the residuals are computed once more.     *)
Refine ==
    /\ pc = "refine"
    /\ pc' = "done"
    /\ UNCHANGED <<progress, logSp, current, verdict>>

Next == BeginDescent \/ Throw \/ Trial \/ Judge \/ Probe \/ Refine
Spec == Init /\ [][Next]_vars

-----------------------------------------------------------------------------
(* multi_penalty_gcv_optimize_cpp: an optimizer that reports full          *)
(* convergence took a step in its last iteration (score_reduction is of    *)
(* that iteration, not of an earlier one), and one that reports a failed   *)
(* step did not move in it.  It needs more than four halvings: with four,  *)
(* the change to steepest descent falls on the try with the zero step, and *)
(* a failed step may have moved.                                           *)
ConvergenceIsFresh ==
    pc \in {"probe", "refine", "done"} =>
        /\ ~stepFailed => reduction = iteration
        /\ stepFailed => reduction < iteration
=============================================================================
