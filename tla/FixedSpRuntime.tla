--------------------------- MODULE FixedSpRuntime ---------------------------
(***************************************************************************)
(* Ownership in the fixed-sp CUDA runtime: one context with its stream and *)
(* its host status arena, the prepared handles that share it, the output   *)
(* slot of each handle, and the residual tokens that lease a slot from a   *)
(* solve until they are released, freed or dropped by their owner.         *)
(*                                                                         *)
(* Every entry point runs under the context's mutex, so it is one step;    *)
(* what it waits for (an event on the stream) is part of its guard.  The   *)
(* device runs beside it: `stream` holds the work that is still queued.    *)
(* A refused call changes nothing and is left out.                         *)
(***************************************************************************)
EXTENDS Naturals, Sequences, FiniteSets

CONSTANTS
    Handles,        \* prepared handles the program may create
    MaxSolves,      \* bound on the solves
    Certified,      \* residual_certificate_enabled with fail_closed
    Capacities,     \* what reserve may be asked for
    MaxFaults       \* bound on the failing CUDA calls

(* Zero stands for no handle and for no token.                             *)
ASSUME RuntimeAssumption ==
    /\ IsFiniteSet(Handles) /\ 0 \notin Handles
    /\ MaxSolves \in Nat /\ MaxFaults \in Nat
    /\ Certified \in BOOLEAN /\ Capacities \subseteq Nat

VARIABLES
    context,    \* lifecycle, capacities, active_prepared_handle_count,
                \* deferred_solve_in_flight
    handle,     \* lifecycle, registered_with_context, is the owner's
                \* reference held
    slot,       \* of each handle: state, generation, lease_owner,
                \* consumer_event_registered
    data,       \* the token whose solve last wrote the slot
    token,      \* the tokens made so far
    consumer,   \* the work that reads a token's residuals
    stream,     \* queued device work
    arena,      \* the token whose diagnostics host_status_arena holds
    faults

vars == <<context, handle, slot, data, token, consumer, stream, arena, faults>>

Solved == Len(token)
Outcomes == {"good", "svd_failed"} \cup (IF Certified THEN {"cert_failed"} ELSE {})

Init ==
    /\ context = [life |-> "usable", size |-> 0, active |-> 0, deferred |-> FALSE]
    /\ handle = [h \in Handles |->
                    [life |-> "none", registered |-> FALSE, held |-> FALSE]]
    /\ slot = [h \in Handles |->
                  [state |-> "free", generation |-> 0, owner |-> 0, registered |-> FALSE]]
    /\ data = [h \in Handles |-> 0]
    /\ token = <<>> /\ consumer = <<>> /\ stream = <<>> /\ arena = 0 /\ faults = 0

Fault == faults < MaxFaults /\ faults' = faults + 1
NoFault == UNCHANGED faults

-----------------------------------------------------------------------------
(* The context.                                                            *)

(* Growth replaces the arenas, so no handle may be using them; when an old *)
(* arena is already gone as the replacement fails, the context can only be *)
(* torn down.                                                              *)
Grows(size) == size > context.size /\ context.active = 0

reserve(size) ==
    /\ context.life = "usable"
    /\ \/ size <= context.size /\ NoFault /\ UNCHANGED context
       \/ Grows(size) /\ NoFault /\ context' = [context EXCEPT !.size = size]
       \/ Grows(size) /\ Fault /\ context' = [context EXCEPT !.life = "teardown"]
       \/ Grows(size) /\ Fault /\ UNCHANGED context
    /\ UNCHANGED <<handle, slot, data, token, consumer, stream, arena>>

Referenced(h) == \E t \in 1..Solved : token[t].owner = h
ContextReferenced == \E h \in Handles : handle[h].life \in {"usable", "teardown"}

(* An explicit free only drops the caller's reference while a handle still *)
(* has one; then the last handle's end destroys the context.               *)
free_fixed_sp_runtime ==
    /\ context.life # "freed" /\ ~ContextReferenced
    /\ context' = [context EXCEPT !.life = "freed"]
    /\ UNCHANGED <<handle, slot, data, token, consumer, stream, arena, faults>>

-----------------------------------------------------------------------------
(* Prepared handles.                                                       *)

create_prepared_s_gpu(h) ==
    /\ context.life = "usable" /\ context.size > 0
    /\ handle[h].life = "none"
    /\ \/ Fault /\ UNCHANGED <<context, handle>>
       \/ /\ NoFault
          /\ handle' = [handle EXCEPT ![h] =
                            [life |-> "usable", registered |-> TRUE, held |-> TRUE]]
          /\ context' = [context EXCEPT !.active = @ + 1]
    /\ UNCHANGED <<slot, data, token, consumer, stream, arena>>

Reads(h) == \E t \in 1..Solved : token[t].handle = h /\ consumer[t] = "running"

(* A handle is unregistered once, by the first attempt to close it; when   *)
(* the device cannot be selected it stays, to be torn down by a later one. *)
(* Freeing the slot's memory waits for the device.                         *)
Closed(h, done) ==
    /\ ~Reads(h)
    /\ handle' = [handle EXCEPT ![h].life = IF done THEN "freed" ELSE "teardown",
                                ![h].registered = FALSE]
    /\ context' = [context EXCEPT !.active = IF handle[h].registered THEN @ - 1 ELSE @]

free_prepared_s_gpu(h) ==
    /\ context.life # "freed" /\ handle[h].held
    /\ handle[h].life \in {"usable", "teardown"}
    /\ IF Referenced(h)
       THEN handle' = [handle EXCEPT ![h].held = FALSE] /\ NoFault /\ UNCHANGED context
       ELSE \/ NoFault /\ Closed(h, TRUE)
            \/ Fault /\ Closed(h, FALSE)
    /\ UNCHANGED <<slot, data, token, consumer, stream, arena>>

(* The owner drops the handle without closing it.                          *)
DropHandle(h) ==
    /\ handle[h].held /\ Referenced(h)
    /\ handle' = [handle EXCEPT ![h].held = FALSE]
    /\ UNCHANGED <<context, slot, data, token, consumer, stream, arena, faults>>

(* The last reference is gone: the destructor closes the handle.           *)
DestroyHandle(h) ==
    /\ handle[h].life \in {"usable", "teardown"}
    /\ ~handle[h].held /\ ~Referenced(h)
    /\ NoFault /\ Closed(h, TRUE)
    /\ UNCHANGED <<slot, data, token, consumer, stream, arena>>

-----------------------------------------------------------------------------
(* Solving a batch.  A solve that is not deferred waits for its check-     *)
(* points, so the stream is empty behind it; the copy of the certificate   *)
(* and of the finite status into host memory is only queued.               *)

require_prepared_host_identity(h) ==
    handle[h].life = "usable" /\ context.life = "usable"

MutAdmits(h) ==
    /\ slot[h].state = "free" /\ ~slot[h].registered

Admits(h) ==
    /\ ~context.deferred
    /\ slot[h].state = "free" /\ ~slot[h].registered

NewToken(h, deferred, outcome) ==
    [handle |-> h, owner |-> h, generation |-> slot[h].generation + 1,
     deferred |-> deferred, outcome |-> outcome, owns |-> deferred,
     resolved |-> FALSE, released |-> FALSE, freed |-> FALSE,
     status |-> IF deferred \/ outcome = "cert_failed" THEN "good" ELSE outcome]

solve_fixed_sp_batch(h, deferred) ==
    /\ Solved < MaxSolves
    /\ handle[h].held /\ require_prepared_host_identity(h) /\ Admits(h)
    /\ deferred \/ stream = <<>>
    /\ \E outcome \in Outcomes :
          /\ token' = Append(token, NewToken(h, deferred, outcome))
          /\ arena' = IF ~deferred /\ outcome = "svd_failed" THEN Solved + 1 ELSE arena
    /\ slot' = [slot EXCEPT ![h].generation = @ + 1, ![h].state = "leased",
                            ![h].owner = Solved + 1]
    /\ context' = [context EXCEPT !.deferred = deferred]
    /\ stream' = Append(stream, [kind |-> "solve", of |-> Solved + 1])
    /\ consumer' = Append(consumer, "none")
    /\ NoFault /\ UNCHANGED <<handle, data>>

(* A solve that throws gives the slot and the context back.                *)
SolveThrows(h) ==
    /\ Solved < MaxSolves
    /\ handle[h].held /\ require_prepared_host_identity(h) /\ Admits(h)
    /\ slot' = [slot EXCEPT ![h].generation = @ + 1]
    /\ data' = [data EXCEPT ![h] = 0]
    /\ Fault /\ UNCHANGED <<context, handle, token, consumer, stream, arena>>

(* The device: solves write the slot and copy diagnostics into the arena   *)
(* in the order they were queued; a registered consumer holds them up.     *)
Device ==
    /\ stream # <<>>
    /\ LET op == Head(stream)
           h == token[op.of].handle
       IN  /\ op.kind = "consumer" => consumer[op.of] = "done"
           /\ data' = IF op.kind = "solve" THEN [data EXCEPT ![h] = op.of] ELSE data
           /\ arena' = IF op.kind = "solve" /\ (token[op.of].deferred \/ Certified)
                       THEN op.of ELSE arena
    /\ stream' = Tail(stream)
    /\ UNCHANGED <<context, handle, slot, token, consumer, faults>>

ConsumerEnds(t) ==
    /\ consumer[t] = "running"
    /\ consumer' = [consumer EXCEPT ![t] = "done"]
    /\ UNCHANGED <<context, handle, slot, data, token, stream, arena, faults>>

-----------------------------------------------------------------------------
(* Tokens.                                                                 *)

require_residual_host_identity(t) ==
    LET h == token[t].handle IN
    /\ ~token[t].freed /\ token[t].owner = h
    /\ handle[h].life = "usable" /\ context.life = "usable"
    /\ ~token[t].released
    /\ slot[h].generation = token[t].generation
    /\ slot[h].owner = t
    /\ slot[h].state \in {"leased", "poisoned"}

Active(t) ==
    /\ require_residual_host_identity(t)
    /\ slot[token[t].handle].state = "leased"

Ready(t) == \A i \in DOMAIN stream : stream[i] # [kind |-> "solve", of |-> t]

(* What the diagnostics in the arena say; the arena holds those of the     *)
(* solve that wrote it last.                                               *)
Diagnosed(t) ==
    CASE token[t].deferred -> token[arena].outcome
      [] ~token[t].deferred /\ Certified /\ token[t].status = "good" ->
           IF token[arena].outcome = "cert_failed" THEN "cert_failed" ELSE "good"
      [] OTHER -> token[t].status

Resolved(t) ==
    IF token[t].resolved THEN token[t]
    ELSE [token[t] EXCEPT !.resolved = TRUE, !.owns = FALSE, !.status = Diagnosed(t)]

Undeferred(t) == [context EXCEPT !.deferred = IF token[t].owns THEN FALSE ELSE @]

(* resolve_fixed_sp_output_status_locked, reached through                  *)
(* device_residual_info, materialize_fixed_sp_shadow and                   *)
(* complete_device_residual_after_stream_wait.                             *)
Resolve(t) ==
    /\ Active(t) /\ Ready(t) /\ ~token[t].resolved
    /\ token' = [token EXCEPT ![t] = Resolved(t)]
    /\ context' = Undeferred(t)
    /\ UNCHANGED <<handle, slot, data, consumer, stream, arena, faults>>

(* A consumer starts reading: from a resolved token whose targets all      *)
(* succeeded, or from the provisional view of a deferred one.              *)
acquire_device_residual_consumer_view(t) ==
    /\ Active(t) /\ Ready(t) /\ ~slot[token[t].handle].registered
    /\ consumer[t] = "none"
    /\ Resolved(t).status = "good"
    /\ token' = [token EXCEPT ![t] = Resolved(t)]
    /\ context' = Undeferred(t)
    /\ consumer' = [consumer EXCEPT ![t] = "view"]
    /\ UNCHANGED <<handle, slot, data, stream, arena, faults>>

acquire_device_residual_submission_view(t) ==
    /\ Active(t) /\ ~slot[token[t].handle].registered
    /\ token[t].deferred /\ token[t].owns /\ context.deferred
    /\ consumer[t] = "none"
    /\ consumer' = [consumer EXCEPT ![t] = "view"]
    /\ UNCHANGED <<context, handle, slot, data, token, stream, arena, faults>>

(* The consumer's event: the context's stream waits for it and records a   *)
(* proxy.  When that fails nobody knows when the consumer ends, and the    *)
(* slot is poisoned.                                                       *)

RegistrationFails(t, h) ==
    /\ Fault
    /\ slot' = [slot EXCEPT ![h].state = "poisoned"]
    /\ UNCHANGED stream

register_device_residual_consumer_event(t) ==
    /\ Active(t) /\ Ready(t) /\ consumer[t] = "view"
    /\ ~slot[token[t].handle].registered
    /\ LET h == token[t].handle IN
       \/ RegistrationFails(t, h)
       \/ /\ NoFault
          /\ slot' = [slot EXCEPT ![h].registered = TRUE]
          /\ stream' = Append(stream, [kind |-> "consumer", of |-> t])
    /\ token' = [token EXCEPT ![t] = Resolved(t)]
    /\ context' = Undeferred(t)
    /\ consumer' = [consumer EXCEPT ![t] = "running"]
    /\ UNCHANGED <<handle, data, arena>>

ConsumerReady(t) == \A i \in DOMAIN stream : stream[i] # [kind |-> "consumer", of |-> t]

Freed(h) == [slot EXCEPT ![h].state = "free", ![h].owner = 0, ![h].registered = FALSE]

(* A view nobody registered is a promise of the caller not to read after   *)
(* the release.                                                            *)
Unread(t) == [consumer EXCEPT ![t] = IF @ = "view" THEN "none" ELSE @]

release_device_residual(t) ==
    /\ Active(t) /\ Ready(t)
    /\ slot[token[t].handle].registered => ConsumerReady(t)
    /\ slot' = Freed(token[t].handle)
    /\ token' = [token EXCEPT ![t] = [Resolved(t) EXCEPT !.released = TRUE]]
    /\ context' = Undeferred(t)
    /\ consumer' = Unread(t)
    /\ UNCHANGED <<handle, data, stream, arena, faults>>

(* free_device_residual: a token of a poisoned slot leaves the slot as it  *)
(* is; any other one is released first, if it is not yet.                  *)
free_device_residual(t) ==
    /\ ~token[t].freed
    /\ \/ /\ require_residual_host_identity(t)
          /\ slot[token[t].handle].state = "poisoned"
       \/ /\ token[t].released
          /\ handle[token[t].handle].life = "usable" /\ context.life = "usable"
    /\ token' = [token EXCEPT ![t].released = TRUE, ![t].freed = TRUE, ![t].owner = 0]
    /\ UNCHANGED <<context, handle, slot, data, consumer, stream, arena, faults>>

(* The last reference to a token is gone: its destructor waits for the     *)
(* events it owns, or poisons the slot when it cannot.                     *)
CleanupFails(t) ==
    LET h == token[t].handle IN
    /\ Fault
    /\ slot' = [slot EXCEPT ![h].state = "poisoned", ![h].owner = 0]
    /\ context' = Undeferred(t)

Cleanup(t) ==
    /\ token[t].owns => Ready(t)
    /\ slot[token[t].handle].registered => ConsumerReady(t)
    /\ slot' = Freed(token[t].handle) /\ context' = Undeferred(t)
    /\ NoFault

DropToken(t) ==
    LET h == token[t].handle IN
    /\ token[t].owner = h /\ ~token[t].freed
    /\ IF token[t].released \/ slot[h].generation # token[t].generation
       THEN NoFault /\ UNCHANGED <<slot, context>>
       ELSE IF slot[h].state = "poisoned"
       THEN NoFault /\ slot' = [slot EXCEPT ![h].owner = 0] /\ context' = Undeferred(t)
       ELSE Cleanup(t) \/ CleanupFails(t)
    /\ token' = [token EXCEPT ![t].released = TRUE, ![t].freed = TRUE,
                              ![t].owns = FALSE, ![t].owner = 0]
    /\ consumer' = Unread(t)
    /\ UNCHANGED <<handle, data, stream, arena>>

-----------------------------------------------------------------------------

Next ==
    \/ \E size \in Capacities : reserve(size)
    \/ free_fixed_sp_runtime
    \/ \E h \in Handles :
          \/ create_prepared_s_gpu(h) \/ free_prepared_s_gpu(h)
          \/ DropHandle(h) \/ DestroyHandle(h)
          \/ \E deferred \in BOOLEAN : solve_fixed_sp_batch(h, deferred)
          \/ SolveThrows(h)
    \/ Device
    \/ \E t \in 1..Solved :
          \/ ConsumerEnds(t) \/ Resolve(t)
          \/ acquire_device_residual_consumer_view(t)
          \/ acquire_device_residual_submission_view(t)
          \/ register_device_residual_consumer_event(t)
          \/ release_device_residual(t) \/ free_device_residual(t)
          \/ DropToken(t)

Spec == Init /\ [][Next]_vars

-----------------------------------------------------------------------------
Results == {"good", "svd_failed", "cert_failed"}

TokenRecord ==
    [handle : Handles, owner : Handles \cup {0}, generation : Nat,
     deferred : BOOLEAN, outcome : Results, owns : BOOLEAN,
     resolved : BOOLEAN, released : BOOLEAN, freed : BOOLEAN,
     status : Results]

ContextRecord ==
    [life : {"usable", "teardown", "freed"}, size : Nat, active : Nat,
     deferred : BOOLEAN]

HandleRecord ==
    [life : {"none", "usable", "teardown", "freed"}, registered : BOOLEAN,
     held : BOOLEAN]

SlotRecord ==
    [state : {"free", "leased", "poisoned"}, generation : Nat,
     owner : 0..MaxSolves, registered : BOOLEAN]

Operation == [kind : {"solve", "consumer"}, of : 1..MaxSolves]

TypeOK ==
    /\ context \in ContextRecord
    /\ handle \in [Handles -> HandleRecord]
    /\ slot \in [Handles -> SlotRecord]
    /\ data \in [Handles -> 0..MaxSolves]
    /\ token \in Seq(TokenRecord) /\ Solved <= MaxSolves
    /\ consumer \in Seq({"none", "view", "running", "done"})
    /\ Len(consumer) = Solved
    /\ stream \in Seq(Operation)
    /\ arena \in 0..MaxSolves
    /\ faults \in Nat

(* The slot a consumer reads keeps the residuals of the token the consumer *)
(* took its view from until the consumer has ended: also when its event    *)
(* could not be registered, when the token was released, freed or dropped  *)
(* meanwhile, and when other batches of the handle and of the context are  *)
(* solved.                                                                 *)
ConsumerUndisturbed ==
    \A t \in 1..Solved : consumer[t] = "running" =>
        /\ handle[token[t].handle].life = "usable"
        /\ data[token[t].handle] = t

(* The status a deferred token reports is the outcome of its own solve,    *)
(* although it is read late and from an arena all solves share.            *)
StatusIsOwn ==
    \A t \in 1..Solved :
        token[t].resolved /\ token[t].deferred => token[t].status = token[t].outcome

(* Nothing is locked for good: a leased slot and a context with a deferred *)
(* solve in flight have a living token that will give them back, and the   *)
(* handles counted as active are the ones that exist, so that the context  *)
(* can grow once they are gone.                                            *)
NothingWedged ==
    /\ \A h \in Handles : slot[h].state = "leased" =>
          \E t \in 1..Solved : slot[h].owner = t /\ token[t].owner = h
    /\ context.deferred => \E t \in 1..Solved : token[t].owns /\ ~token[t].freed
    /\ context.active = Cardinality({h \in Handles : handle[h].registered})

(* A consumer on another stream reads the batch it was given until it is   *)
(* done; a deferred token reports the outcome of its own solve; and no     *)
(* handle keeps a flag or a lease that nobody will ever clear.             *)
BatchesSound == ConsumerUndisturbed /\ StatusIsOwn /\ NothingWedged

(* A batch whose certificate fails does not report success: the runtime    *)
(* fails closed when it is asked to.                                       *)
FailsClosed ==
    \A t \in 1..Solved :
        token[t].resolved /\ token[t].status = "good" => token[t].outcome = "good"

=============================================================================
