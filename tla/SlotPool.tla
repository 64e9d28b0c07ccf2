------------------------------ MODULE SlotPool ------------------------------
(***************************************************************************)
(* The reusable optimizer slots of levels 3 to 6                           *)
(* (prefill_optimizer_slot_target_states, OptimizerSlotPool and the part   *)
(* of ExactPrimaryCoefficientArena they use).                              *)
(*                                                                         *)
(* Slot s is owned by worker thread s.  A worker takes the next request,   *)
(* binds its slot to the request's geometry, optimizes (which leases the   *)
(* slot's output buffer), copies the coefficients into the level arena on  *)
(* the arena's own stream, waits for that copy and gives the lease back.   *)
(* The main thread creates the slots, starts and joins the workers, lets   *)
(* Stage A rebind slot 1 once per request, and closes the pool.            *)
(*                                                                         *)
(* The arena stream is a log of the copies issued; the device has executed *)
(* its first `done` entries.  One unit of arena storage holds one request. *)
(***************************************************************************)
EXTENDS Naturals, Sequences, FiniteSets

CONSTANTS
    NumRequests,    \* work.requests.size(); an empty window returns at once
    SlotLimit,      \* 32 in the code
    MayFail         \* the steps that may throw

Steps == {"create", "spawn", "bind", "optimize", "restore", "lock", "copy",
          "publish", "record", "wait", "after", "stage", "close"}

ASSUME RequestsAssumption == NumRequests \in Nat \ {0}
ASSUME SlotsAssumption == SlotLimit \in Nat \ {0}
ASSUME FailAssumption == MayFail \subseteq Steps

Request == 1 .. NumRequests
Slot == 1 .. (IF NumRequests < SlotLimit THEN NumRequests ELSE SlotLimit)
None == 0

VARIABLES
    main,       \* where the calling thread is
    stage,      \* the next request of Stage A
    live,       \* the slots that exist
    pc,         \* where worker s is
    req,        \* the request in worker s's hands
    next,       \* the shared request counter
    cancelled,
    error,      \* the slot whose exception was kept
    mutex,      \* holder of detach_mutex
    setups,     \* the requests whose optimization was delivered
    uploads,    \* slots with geometry uploads in flight
    bound,      \* the request whose geometry slot s holds
    output,     \* the request whose coefficients slot s's output buffer holds
    leased,     \* residual_slot_leased
    stream,     \* the copies issued on the arena stream
    done,       \* how many of them the device has executed
    event,      \* the stream position slot s's detach event was recorded at
    size,       \* coefficient_size_values_
    entries,    \* arena offset of each published request
    storage     \* what the arena memory holds

mainVars == <<main, stage, live>>
workerVars == <<pc, req, next, cancelled, error, mutex, setups>>
slotVars == <<uploads, bound, output, leased>>
arenaVars == <<stream, done, event, size, entries, storage>>
vars == <<mainVars, workerVars, slotVars, arenaVars>>

Init ==
    /\ main = "create" /\ stage = 1 /\ live = {}
    /\ pc = [s \in Slot |-> "none"]
    /\ req = [s \in Slot |-> None]
    /\ next = 1 /\ cancelled = FALSE /\ error = None /\ mutex = None
    /\ setups = {}
    /\ uploads = {}
    /\ bound = [s \in Slot |-> None]
    /\ output = [s \in Slot |-> None]
    /\ leased = {}
    /\ stream = <<>> /\ done = 0
    /\ event = [s \in Slot |-> 0]
    /\ size = 0
    /\ entries = [r \in Request |-> None]
    /\ storage = [o \in Request |-> None]

-----------------------------------------------------------------------------
(* Workers.  Goto(s, from, to) moves worker s and nothing else of pc.      *)

Goto(s, from, to) == pc[s] = from /\ pc' = [pc EXCEPT ![s] = to]

\* while (!cancelled.load())
Loop(s) ==
    /\ Goto(s, "loop", IF cancelled THEN "done" ELSE "claim")
    /\ UNCHANGED <<mainVars, req, next, cancelled, error, mutex, setups,
                   slotVars, arenaVars>>

\* i = next.fetch_add(1); if (i >= requests) break
Claim(s) ==
    /\ next' = next + 1
    /\ Goto(s, "claim", IF next > NumRequests THEN "done" ELSE "bind")
    /\ req' = [req EXCEPT ![s] = IF next > NumRequests THEN None ELSE next]
    /\ UNCHANGED <<mainVars, cancelled, error, mutex, setups, slotVars,
                   arenaVars>>

\* pool.bind: refused while the output is leased; starts the uploads.
Bind(s) ==
    /\ s \notin leased
    /\ Goto(s, "bind", "optimize")
    /\ bound' = [bound EXCEPT ![s] = req[s]]
    /\ uploads' = uploads \cup {s}
    /\ UNCHANGED <<mainVars, req, next, cancelled, error, mutex, setups,
                   output, leased, arenaVars>>

\* optimize_batch_with_residual: refused while the output is leased; runs on
\* the slot's stream after the uploads, waits for it, and leases the output.
Optimize(s) ==
    /\ s \notin leased
    /\ Goto(s, "optimize", "restore")
    /\ output' = [output EXCEPT ![s] = bound[s]]
    /\ uploads' = uploads \ {s}
    /\ leased' = leased \cup {s}
    /\ UNCHANGED <<mainVars, req, next, cancelled, error, mutex, setups,
                   bound, arenaVars>>

\* The caller's device is selected again and the result returned.
Restore(s) ==
    /\ Goto(s, "restore", "lock")
    /\ UNCHANGED <<mainVars, req, next, cancelled, error, mutex, setups,
                   slotVars, arenaVars>>

\* Selecting it throws: unwinding destroys the new residual token, whose
\* destructor locks the slot mutex this very call still holds.
RestoreFails(s) ==
    /\ "restore" \in MayFail
    /\ Goto(s, "restore", "stuck")
    /\ UNCHANGED <<mainVars, req, next, cancelled, error, mutex, setups,
                   slotVars, arenaVars>>

\* The keys are built, then std::lock_guard lock(detach_mutex).
Lock(s) ==
    /\ mutex = None /\ mutex' = s
    /\ Goto(s, "lock", "copy")
    /\ UNCHANGED <<mainVars, req, next, cancelled, error, setups, slotVars,
                   arenaVars>>

\* enqueue_store, first half: the asynchronous copy to the arena's free end.
Copy(s) ==
    /\ Goto(s, "copy", "publish")
    /\ stream' = Append(stream, [slot |-> s, request |-> req[s],
                                 offset |-> size + 1])
    /\ UNCHANGED <<mainVars, req, next, cancelled, error, mutex, setups,
                   slotVars, done, event, size, entries, storage>>

\* The end of the arena is not advanced past the new coefficients.
MutPublish(s) ==
    /\ Goto(s, "publish", "record")
    /\ entries[req[s]] = None
    /\ entries' = [entries EXCEPT ![req[s]] = size + 1]
    /\ UNCHANGED <<mainVars, req, next, cancelled, error, mutex, setups,
                   slotVars, stream, done, event, size, storage>>

\* enqueue_store, second half: the entry, refused if the key is there, and
\* the new end.
Publish(s) ==
    /\ Goto(s, "publish", "record")
    /\ entries[req[s]] = None
    /\ entries' = [entries EXCEPT ![req[s]] = size + 1]
    /\ size' = size + 1
    /\ UNCHANGED <<mainVars, req, next, cancelled, error, mutex, setups,
                   slotVars, stream, done, event, storage>>

\* record_slot_store, and the end of the lock's scope.
Record(s) ==
    /\ Goto(s, "record", "wait")
    /\ event' = [event EXCEPT ![s] = Len(stream)]
    /\ mutex' = None
    /\ UNCHANGED <<mainVars, req, next, cancelled, error, setups, slotVars,
                   stream, done, size, entries, storage>>

\* The wait is dropped: the event may be recorded and not yet reached.
MutWait(s) ==
    /\ Goto(s, "wait", "release")
    /\ UNCHANGED <<mainVars, req, next, cancelled, error, mutex, setups,
                   slotVars, arenaVars>>

\* cudaEventSynchronize(pool.event(slot))
Wait(s) ==
    /\ event[s] <= done
    /\ Goto(s, "wait", "release")
    /\ UNCHANGED <<mainVars, req, next, cancelled, error, mutex, setups,
                   slotVars, arenaVars>>

\* Release the lease, deliver the result, take the next request.
Release(s) ==
    /\ Goto(s, "release", "loop")
    /\ leased' = leased \ {s}
    /\ setups' = setups \cup {req[s]}
    /\ req' = [req EXCEPT ![s] = None]
    /\ UNCHANGED <<mainVars, next, cancelled, error, mutex, uploads, bound,
                   output, arenaVars>>

\* A guard refuses: a leased slot, or a key already in the arena.
Refused(s) ==
    \/ pc[s] \in {"bind", "optimize"} /\ s \in leased
    \/ pc[s] = "publish" /\ entries[req[s]] # None

\* A step of the try block throws.  A bind may have started its uploads, an
\* optimize scribbled on the output; a lock_guard gives detach_mutex back.
Throw(s) ==
    /\ pc[s] \in MayFail \ {"restore"} \/ Refused(s)
    /\ pc' = [pc EXCEPT ![s] = "caught"]
    /\ mutex' = IF mutex = s THEN None ELSE mutex
    /\ uploads' \in {uploads, IF pc[s] = "bind" THEN uploads \cup {s} ELSE uploads}
    /\ output' = [output EXCEPT ![s] = IF pc[s] = "optimize" THEN None ELSE @]
    /\ UNCHANGED <<mainVars, req, next, cancelled, error, setups, bound,
                   leased, arenaVars>>

\* catch (...): cancelled.store(true)
Cancel(s) ==
    /\ Goto(s, "caught", "error")
    /\ cancelled' = TRUE
    /\ UNCHANGED <<mainVars, req, next, error, mutex, setups, slotVars,
                   arenaVars>>

\* Under error_mutex: if (!error) error = current_exception()
KeepError(s) ==
    /\ Goto(s, "error", "sync")
    /\ error' = IF error = None THEN s ELSE error
    /\ UNCHANGED <<mainVars, req, next, cancelled, mutex, setups, slotVars,
                   arenaVars>>

\* arena->synchronize_noexcept()
Synchronize(s) ==
    /\ done = Len(stream)
    /\ Goto(s, "sync", "drain")
    /\ UNCHANGED <<mainVars, req, next, cancelled, error, mutex, setups,
                   slotVars, arenaVars>>

\* Policy::drain, then the release of a pending lease, then the thread ends.
Drain(s) ==
    /\ Goto(s, "drain", "done")
    /\ uploads' = uploads \ {s}
    /\ leased' = leased \ {s}
    /\ req' = [req EXCEPT ![s] = None]
    /\ UNCHANGED <<mainVars, next, cancelled, error, mutex, setups, bound,
                   output, arenaVars>>

Worker(s) ==
    \/ Loop(s) \/ Claim(s) \/ Bind(s) \/ Optimize(s) \/ Restore(s) \/ Lock(s)
    \/ Copy(s) \/ Publish(s) \/ Record(s) \/ Wait(s) \/ Release(s)
    \/ Cancel(s) \/ KeepError(s) \/ Synchronize(s) \/ Drain(s)

-----------------------------------------------------------------------------
(* The device executes the arena stream in order: a copy reads whatever    *)
(* the slot's output buffer holds when it runs.                            *)

Execute ==
    /\ done < Len(stream)
    /\ LET c == stream[done + 1]
       IN  storage' = [storage EXCEPT ![c.offset] = output[c.slot]]
    /\ done' = done + 1
    /\ UNCHANGED <<mainVars, workerVars, slotVars, stream, event, size,
                   entries>>

(***************************************************************************)
(* The calling thread.                                                     *)
(***************************************************************************)
Main(from, to) == main = from /\ main' = to

\* The pool constructor: slots one by one, then the headroom check.
CreateSlot ==
    /\ live # Slot
    /\ Main("create", "create")
    /\ \E s \in Slot : s = Cardinality(live) + 1 /\ live' = live \cup {s}
    /\ UNCHANGED <<stage, workerVars, slotVars, arenaVars>>

Created ==
    /\ live = Slot
    /\ Main("create", "spawn")
    /\ UNCHANGED <<stage, live, workerVars, slotVars, arenaVars>>

\* workers.emplace_back(worker, slot)
Spawn ==
    /\ Main("spawn", "spawn")
    /\ \E s \in Slot :
        /\ pc[s] = "none" /\ \A t \in 1 .. s - 1 : pc[t] # "none"
        /\ pc' = [pc EXCEPT ![s] = "loop"]
    /\ UNCHANGED <<stage, live, req, next, cancelled, error, mutex, setups,
                   slotVars, arenaVars>>

Spawned ==
    /\ \A s \in Slot : pc[s] # "none"
    /\ Main("spawn", "join")
    /\ UNCHANGED <<stage, live, workerVars, slotVars, arenaVars>>

\* A thread cannot be started: cancel, and join the ones that were.
SpawnFails ==
    /\ "spawn" \in MayFail
    /\ \E s \in Slot : pc[s] = "none"
    /\ Main("spawn", "abort")
    /\ cancelled' = TRUE
    /\ UNCHANGED <<stage, live, pc, req, next, error, mutex, setups, slotVars,
                   arenaVars>>

AllJoined == \A s \in Slot : pc[s] \in {"none", "done"}

\* thread.join() for every worker; an error, or a failed start, drains the
\* arena and unwinds through the pool's destructor.
Join ==
    /\ AllJoined
    /\ \/ main = "join" /\ error = None /\ main' = "after"
       \/ main = "join" /\ error # None /\ done = Len(stream) /\ main' = "unwind"
       \/ main = "abort" /\ done = Len(stream) /\ main' = "unwind"
    /\ UNCHANGED <<stage, live, workerVars, slotVars, arenaVars>>

\* pool.after_work(): the capacity checkpoint.
AfterWork ==
    /\ Main("after", "stage")
    /\ UNCHANGED <<stage, live, workerVars, slotVars, arenaVars>>

\* stage_a_index is not advanced.
MutStageA ==
    /\ Main("stage", "stage")
    /\ stage <= NumRequests /\ entries[stage] # None /\ 1 \notin leased
    /\ bound' = [bound EXCEPT ![1] = stage]
    /\ output' = [output EXCEPT ![1] = storage[entries[stage]]]
    /\ UNCHANGED <<stage, live, workerVars, uploads, leased, arenaVars>>

\* Stage A of one request: the arena must hold its coefficients; slot 1 is
\* rebound and finalized into a leased output whose store is waited for
\* before the lease is released.
StageA ==
    /\ Main("stage", "stage")
    /\ stage <= NumRequests /\ entries[stage] # None /\ 1 \notin leased
    /\ bound' = [bound EXCEPT ![1] = stage]
    /\ output' = [output EXCEPT ![1] = storage[entries[stage]]]
    /\ stage' = stage + 1
    /\ UNCHANGED <<live, workerVars, uploads, leased, arenaVars>>

StageDone ==
    /\ stage > NumRequests
    /\ Main("stage", "close")
    /\ UNCHANGED <<stage, live, workerVars, slotVars, arenaVars>>

\* Stage A finds no coefficients or a leased slot; close() finds a lease.
MainRefused ==
    \/ main = "stage" /\ stage <= NumRequests
         /\ (entries[stage] = None \/ 1 \in leased)
    \/ main = "close" /\ live \cap leased # {}

\* The constructor, the checkpoint, Stage A or close() throws.
MainFails ==
    /\ main \in MayFail \/ MainRefused
    /\ main # "spawn"
    /\ main' = "unwind"
    /\ uploads' = IF main = "stage" THEN uploads \cup {1} ELSE uploads
    /\ UNCHANGED <<stage, live, workerVars, bound, output, leased, arenaVars>>

\* Stage A's finalization fails to select the caller's device again: the same
\* unwinding into a mutex it holds as RestoreFails.
StageRestoreFails ==
    /\ "restore" \in MayFail
    /\ stage <= NumRequests
    /\ Main("stage", "stuck")
    /\ UNCHANGED <<stage, live, workerVars, slotVars, arenaVars>>

\* The destructor that resets a slot without draining it.
MutDestroy(s) ==
    /\ live' = live \ {s}
    /\ UNCHANGED uploads

\* drain(slot); slot.reset()
Destroy(s) ==
    /\ live' = live \ {s}
    /\ uploads' = uploads \ {s}

\* pool.close() after success, close_noexcept() while unwinding.
DestroySlot ==
    /\ \/ main = "unwind"
       \/ main = "close"
    /\ \E s \in live :
        /\ \A t \in live : s <= t
        /\ main = "close" => s \notin leased
        /\ Destroy(s)
    /\ UNCHANGED <<main, stage, workerVars, bound, output, leased, arenaVars>>

Leave ==
    /\ live = {}
    /\ \/ Main("close", "returned")
       \/ Main("unwind", "thrown")
    /\ UNCHANGED <<stage, live, workerVars, slotVars, arenaVars>>

\* Returned or thrown, with nothing left to do.
Ended ==
    /\ main \in {"returned", "thrown"}
    /\ UNCHANGED vars

MainStep ==
    CreateSlot \/ Created \/ Spawn \/ Spawned \/ Join \/ AfterWork \/ StageA
      \/ StageDone \/ DestroySlot \/ Leave

Next ==
    \/ MainStep \/ SpawnFails \/ MainFails \/ StageRestoreFails \/ Execute \/ Ended
    \/ \E s \in Slot : Worker(s) \/ Throw(s) \/ RestoreFails(s)

\* Every thread and the device run on; nothing has to fail.
Fairness ==
    /\ WF_vars(MainStep) /\ WF_vars(Execute)
    /\ \A s \in Slot : WF_vars(Worker(s))

Spec == Init /\ [][Next]_vars /\ Fairness

-----------------------------------------------------------------------------
WorkerStep == {"none", "loop", "claim", "bind", "optimize", "restore", "lock",
               "copy", "publish", "record", "wait", "release", "caught",
               "error", "sync", "drain", "done", "stuck"}

MainStepName == {"create", "spawn", "abort", "join", "after", "stage", "close",
                 "unwind", "returned", "thrown", "stuck"}

CopyRecord == [slot : Slot, request : Request, offset : Request]

\* Every variable ranges over its type; in particular a copy always lands in
\* the storage reserve_slot_layer set aside for the level.
TypeOK ==
    /\ main \in MainStepName /\ stage \in 1 .. NumRequests + 1
    /\ live \subseteq Slot
    /\ pc \in [Slot -> WorkerStep]
    /\ req \in [Slot -> Request \cup {None}]
    /\ next \in Nat \ {0} /\ cancelled \in BOOLEAN
    /\ error \in Slot \cup {None} /\ mutex \in Slot \cup {None}
    /\ setups \subseteq Request
    /\ uploads \subseteq Slot /\ leased \subseteq Slot
    /\ bound \in [Slot -> Request \cup {None}]
    /\ output \in [Slot -> Request \cup {None}]
    /\ stream \in Seq(CopyRecord) /\ done \in 0 .. Len(stream)
    /\ event \in [Slot -> Nat]
    /\ size \in 0 .. NumRequests
    /\ entries \in [Request -> Request \cup {None}]
    /\ storage \in [Request -> Request \cup {None}]

\* A request is in the hands of at most one worker and never again once its
\* result is delivered; one that was taken is delivered or in hand, unless
\* the work was cancelled.
EachRequestOnce ==
    /\ \A s, t \in Slot : req[s] = req[t] /\ req[s] # None => s = t
    /\ \A s \in Slot : req[s] \notin setups
    /\ \A r \in Request : r < next => \/ r \in setups
                                      \/ \E s \in Slot : req[s] = r
                                      \/ cancelled

\* "Do not release an output lease until all consumers of it have drained":
\* a copy the device has not executed yet reads from a slot that exists, is
\* still leased, and still holds the coefficients it was issued for.
LeaseCoversCopies ==
    \A k \in done + 1 .. Len(stream) :
        LET c == stream[k]
        IN  c.slot \in live \cap leased /\ output[c.slot] = c.request

\* A worker that is still running has its slot: no path of the calling thread
\* tears the pool down before it has joined every worker it started.
PoolOutlivesWorkers ==
    \A s \in Slot : pc[s] \notin {"none", "done"} => s \in live

\* The fail-closed checks on leases, keys and arena contents never fire:
\* every exception of the slot layer is a fault of a call it makes.
NoRefusal ==
    /\ \A s \in Slot : ~Refused(s)
    /\ ~MainRefused

\* Once the workers are joined without an error, every request has its
\* result and the arena holds its coefficients where its entry says.
ResultComplete ==
    main \in {"after", "stage", "close", "returned"} =>
        /\ setups = Request
        /\ \A r \in Request : entries[r] # None /\ storage[entries[r]] = r

\* When the call ends, with a result or an exception, no thread, lease, slot
\* upload or arena copy is left behind to touch what its frame owned.
Quiesced ==
    main \in {"returned", "thrown"} =>
        /\ \A s \in Slot : pc[s] \in {"none", "done"}
        /\ live = {} /\ leased = {} /\ uploads = {}
        /\ done = Len(stream)

\* Whatever fails, the call ends: cancellation reaches every worker and
\* nobody waits for a mutex or an event for ever.
Terminates == <>(main \in {"returned", "thrown"})
=============================================================================
