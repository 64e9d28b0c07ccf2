---------------------------- MODULE FixedSpSolve ----------------------------
(***************************************************************************)
(* One fixed-sp batch: the targets are split by planned route, a Cholesky  *)
(* factor or a QR rank guard that fails sends its target to the augmented  *)
(* SVD, every route writes the target's outputs into the leased slot, and  *)
(* the statuses are settled at the end, or when a deferred token resolves. *)
(*                                                                         *)
(* The work of one phase is queued on one stream; what the device finds    *)
(* for each target is a choice.                                            *)
(***************************************************************************)
EXTENDS Integers, FiniteSets

CONSTANT
    Targets         \* target ordinals

VARIABLES
    certified,  \* residual_certificate_enabled of the batch
    failClosed, \* fail_closed_on_certificate of the batch
    plan,       \* planned_routes
    deferred,   \* defer_svd_completion
    reason,     \* reroute_reasons
    executed,   \* executed_routes
    status,     \* solver_statuses
    output,     \* what the slot holds: the route that wrote it, is it finite
    theta,      \* is the compact solution of a Cholesky target finite
    info,       \* potrf info of a Cholesky target is zero
    stable,     \* qr_finite_status of a stable target (-1: not written)
    finite,     \* the finite status copied to the host
    svdInfo,    \* did the SVD of the target succeed
    certificate,\* does the final backward error pass
    svdPending, \* pending_svd_target_count, 0 when nothing is pending
    pc

routes == <<reason, executed, status>>
device == <<output, theta, info, stable, finite, svdInfo, certificate>>
vars == <<certified, failClosed, plan, deferred, routes, device, svdPending, pc>>

Routes == {"CHOLESKY", "QR", "SVD"}
Safe == {t \in Targets : plan[t] = "CHOLESKY"}
Stable == Targets \ Safe
ErrStablePathNotImplemented == "ERR_STABLE_PATH_NOT_IMPLEMENTED"
Successful(s) == s \in {"OK_CHOLESKY_BATCHED", "OK_CHOLESKY_SINGLE", "OK_QR", "OK_SVD"}

(* A deferred submission is admitted for an all-SVD cohort only; a batch   *)
(* fails closed on certificates only when it asks for them, and may ask    *)
(* for them without failing closed.  Outputs start out as invalid numbers. *)
Init ==
    /\ certified \in BOOLEAN /\ failClosed \in BOOLEAN /\ (failClosed => certified)
    /\ plan \in [Targets -> Routes]
    /\ deferred \in BOOLEAN /\ (deferred => \A t \in Targets : plan[t] = "SVD")
    /\ reason = [t \in Targets |-> "none"]
    /\ executed = [t \in Targets |-> "UNSET"]
    /\ status = [t \in Targets |-> ErrStablePathNotImplemented]
    /\ output = [t \in Targets |-> [route |-> "none", finite |-> FALSE]]
    /\ theta = [t \in Targets |-> TRUE]
    /\ info = [t \in Targets |-> FALSE]
    /\ stable = [t \in Targets |-> -1]
    /\ finite = [t \in Targets |-> 0]
    /\ svdInfo = [t \in Targets |-> TRUE]
    /\ certificate = [t \in Targets |-> TRUE]
    /\ svdPending = 0
    /\ pc = "factor"

Throw == pc' = "thrown" /\ UNCHANGED <<certified, failClosed, plan, deferred, routes, device, svdPending>>

-----------------------------------------------------------------------------
(* The Cholesky targets: one is factored on its own, several as a batch.   *)

Factor ==
    /\ pc = "factor"
    /\ \E good \in SUBSET Safe :
          /\ info' = [t \in Targets |-> t \in good]
          /\ reason' = [t \in Targets |->
                           IF t \in Safe \ good THEN "PIVOT" ELSE reason[t]]
    /\ pc' = "solve"
    /\ UNCHANGED <<certified, failClosed, plan, deferred, executed, status, output, theta, stable, finite,
                   svdInfo, certificate, svdPending>>

(* The verdicts on the targets of S that their final backward errors may   *)
(* give.  They say nothing of finite numbers, nor these of them: the errors *)
(* are maxima by fmax, which passes over what is not a number.             *)
Verdicts(S) ==
    {[t \in Targets |-> IF t \in S THEN t \notin fail ELSE certificate[t]] :
        fail \in SUBSET (IF certified THEN S ELSE {})}

(* Only the targets whose factor exists are solved, refined, certified and *)
(* written.                                                                *)
CholeskySolve ==
    /\ pc = "solve"
    /\ \E nan \in SUBSET {t \in Safe : info[t]} :
          /\ theta' = [t \in Targets |-> t \notin nan]
          /\ output' = [t \in Targets |->
                IF info[t] THEN [route |-> "CHOLESKY", finite |-> t \notin nan]
                ELSE output[t]]
    /\ certificate' \in Verdicts({t \in Safe : info[t]})
    /\ pc' = "qr"
    /\ UNCHANGED <<certified, failClosed, plan, deferred, routes, info, stable, finite,
                   svdInfo, svdPending>>

(* potrf reports a bad argument, potrs a failure, a launch is refused.     *)
Fails ==
    /\ pc \in {"factor", "solve", "qr", "svd", "status"}
    /\ Throw

-----------------------------------------------------------------------------
(* The QR targets, one by one.                                             *)

QrTargets == {t \in Targets : plan[t] = "QR"}
FirstSafe == {t \in Safe : \A u \in Safe : t <= u}

(* The certificate of a stable target writes its residual over the first   *)
(* compact Cholesky solution.  Of the targets of S, taken in order, the    *)
(* residual of the last one stays; it is finite if the target is.          *)
Scratched(S, nan) ==
    LET last == {t \in S : \A u \in S : u <= t} IN
    IF ~certified \/ S = {} THEN {theta}
    ELSE {[t \in Targets |-> IF t \in FirstSafe THEN clean ELSE theta[t]] :
             clean \in {TRUE} \cup {t \notin nan : t \in last}}

(* A QR that fails is an error of its target; one the rank guard rejects   *)
(* goes to the SVD.  Both have written their outputs by then.              *)
QrStatus(t, failed, rejected) ==
    IF t \in failed THEN "ERR_QR_FAILED"
    ELSE IF t \in rejected THEN status[t] ELSE "OK_QR"

MutQrReason(t, failed, rejected) == reason[t]

QrReason(t, failed, rejected) ==
    IF t \in rejected \ failed THEN "RANK_GUARD" ELSE reason[t]

QrLoop ==
    /\ pc = "qr"
    /\ \E failed, rejected, nan \in SUBSET QrTargets :
          /\ status' = [t \in Targets |->
                IF t \in QrTargets THEN QrStatus(t, failed, rejected) ELSE status[t]]
          /\ executed' = [t \in Targets |->
                IF t \notin QrTargets THEN executed[t]
                ELSE IF t \in rejected \ failed THEN "SVD" ELSE "QR"]
          /\ reason' = [t \in Targets |->
                IF t \in QrTargets THEN QrReason(t, failed, rejected) ELSE reason[t]]
          /\ output' = [t \in Targets |->
                IF t \in QrTargets THEN [route |-> "QR", finite |-> t \notin nan]
                ELSE output[t]]
          /\ stable' = [t \in Targets |->
                IF t \in QrTargets THEN IF t \in nan THEN 1 ELSE 0 ELSE stable[t]]
          /\ theta' \in Scratched(QrTargets, nan)
    /\ certificate' \in Verdicts(QrTargets)
    /\ pc' = "svd"
    /\ UNCHANGED <<certified, failClosed, plan, deferred, info, finite, svdInfo, svdPending>>

-----------------------------------------------------------------------------
(* The SVD targets: the planned ones and the rerouted ones.                *)

target_uses_svd(t) ==
    \/ plan[t] = "SVD"
    \/ plan[t] = "CHOLESKY" /\ reason[t] = "PIVOT"
    \/ plan[t] = "QR" /\ reason[t] = "RANK_GUARD"

SvdTargets == {t \in Targets : target_uses_svd(t)}

SvdLoop ==
    /\ pc = "svd"
    /\ \E failed, nan \in SUBSET SvdTargets :
          /\ svdInfo' = [t \in Targets |-> t \notin failed]
          /\ output' = [t \in Targets |->
                IF t \in SvdTargets THEN [route |-> "SVD", finite |-> t \notin nan]
                ELSE output[t]]
          /\ stable' = [t \in Targets |->
                IF t \in SvdTargets THEN IF t \in nan THEN 1 ELSE 0 ELSE stable[t]]
          /\ theta' \in Scratched(SvdTargets, nan)
    /\ certificate' \in Verdicts(SvdTargets)
    /\ svdPending' = Cardinality(SvdTargets)
    /\ pc' = IF deferred THEN "status" ELSE "checkpoint"
    /\ UNCHANGED <<certified, failClosed, plan, deferred, routes, info, finite>>

SvdStatuses ==
    [t \in Targets |-> IF t \notin SvdTargets THEN status[t]
                       ELSE IF svdInfo[t] THEN "OK_SVD" ELSE "ERR_SVD_FAILED"]
SvdExecuted == [t \in Targets |-> IF t \in SvdTargets THEN "SVD" ELSE executed[t]]

(* resolve_pending_svd_diagnostics_locked, at the checkpoint.              *)
Checkpoint ==
    /\ pc = "checkpoint"
    /\ svdPending = Cardinality(SvdTargets)
    /\ status' = SvdStatuses /\ executed' = SvdExecuted
    /\ svdPending' = 0
    /\ pc' = "status"
    /\ UNCHANGED <<certified, failClosed, plan, deferred, reason, device>>

(* The statuses of the Cholesky targets whose factor exists, and the final *)
(* look at the outputs: that of the safe targets first, then the status    *)
(* the stable routes wrote for theirs over it.                             *)
Merged(t) ==
    IF stable[t] >= 0 THEN stable[t]
    ELSE IF t \in Safe THEN IF theta[t] /\ output[t].finite THEN 0 ELSE 1
    ELSE 0

FinishBatch ==
    /\ pc = "status"
    /\ status' = [t \in Targets |->
          IF t \in Safe /\ info[t]
          THEN IF Cardinality(Safe) >= 2 THEN "OK_CHOLESKY_BATCHED"
               ELSE "OK_CHOLESKY_SINGLE"
          ELSE status[t]]
    /\ executed' = [t \in Targets |->
          IF t \in Safe /\ info[t] THEN "CHOLESKY" ELSE executed[t]]
    /\ finite' = [t \in Targets |-> Merged(t)]
    /\ pc' = "leased"
    /\ UNCHANGED <<certified, failClosed, plan, deferred, reason, output, theta, info, stable, svdInfo,
                   certificate, svdPending>>

-----------------------------------------------------------------------------
(* The token resolves: the SVD diagnostics if they are pending, then the   *)
(* certificates, which change a status only if the batch fails closed,     *)
(* then the finite status.                                                 *)

MutCertify(t, s) == s

Certify(t, s) ==
    IF failClosed /\ Successful(s) /\ ~certificate[t] THEN "ERR_CERTIFICATE_FAILED" ELSE s

FiniteStatus(t, s) ==
    IF Successful(s) /\ finite[t] # 0 THEN "ERR_NONFINITE_OUTPUT" ELSE s

resolve_fixed_sp_output_status ==
    /\ pc = "leased"
    /\ LET now == IF svdPending > 0 THEN SvdStatuses ELSE status
       IN  status' = [t \in Targets |-> FiniteStatus(t, Certify(t, now[t]))]
    /\ executed' = IF svdPending > 0 THEN SvdExecuted ELSE executed
    /\ svdPending' = 0
    /\ pc' = "resolved"
    /\ UNCHANGED <<certified, failClosed, plan, deferred, reason, device>>

Done == pc \in {"resolved", "thrown"} /\ UNCHANGED vars

Next ==
    \/ Factor \/ CholeskySolve \/ QrLoop \/ SvdLoop \/ Checkpoint
    \/ FinishBatch \/ resolve_fixed_sp_output_status \/ Fails \/ Done

Spec == Init /\ [][Next]_vars

-----------------------------------------------------------------------------

Kind(s) ==
    CASE s \in {"OK_CHOLESKY_BATCHED", "OK_CHOLESKY_SINGLE"} -> "CHOLESKY"
      [] s = "OK_QR" -> "QR"
      [] s = "OK_SVD" -> "SVD"
      [] OTHER -> "none"

(* What a resolved batch reports as a success really is one: the slot      *)
(* holds finite numbers, written by the route the target is said to have   *)
(* executed and by no earlier attempt, and when the batch fails closed the *)
(* target has passed its own certificate.  No target is left without a     *)
(* route.                                                                  *)
SuccessIsReal ==
    pc = "resolved" => \A t \in Targets :
        /\ executed[t] \in Routes
        /\ Successful(status[t]) =>
              /\ output[t] = [route |-> executed[t], finite |-> TRUE]
              /\ Kind(status[t]) = executed[t]
              /\ failClosed => certificate[t]

(* A failure that is the target's own: its executed route failed, or left  *)
(* numbers that are not finite or, in a batch that fails closed, not       *)
(* certified.                                                              *)
FailsAlone(t) ==
    \/ Successful(status[t])
    \/ ~output[t].finite
    \/ executed[t] = "SVD" /\ ~svdInfo[t]
    \/ executed[t] = "QR" /\ status[t] = "ERR_QR_FAILED"
    \/ failClosed /\ ~certificate[t]

(* Whose compact solution a certificate overwrites before it is looked at: *)
(* that of the first Cholesky target, when a stable route runs in the      *)
(* batch.                                                                  *)
Exposed(t) == certified /\ t \in FirstSafe /\ \E u \in Targets : ~info[u]

(* A target that is not exposed fails by its own doing only, whatever      *)
(* happened to the other targets of the batch.                             *)
FailureIsOwn ==
    pc = "resolved" => \A t \in Targets : Exposed(t) \/ FailsAlone(t)

(* The same of every target.                                               *)
FailureStaysOwn == pc = "resolved" => \A t \in Targets : FailsAlone(t)
=============================================================================
