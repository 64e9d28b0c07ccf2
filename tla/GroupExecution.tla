--------------------------- MODULE GroupExecution ---------------------------
(***************************************************************************)
(* The dcc.gamma route of a one-call run on the device, below the caches   *)
(* that ComponentWave and ComponentLevel describe: the prefill windows of  *)
(* a level optimize the targets of its conditioning sets and leave their   *)
(* coefficients in the arena; a group then takes the coefficients of its   *)
(* targets from there, or evaluates them at their fixed smoothing          *)
(* parameters, and hands the residuals to the CI kernels.                  *)
(*                                                                         *)
(* Every conditioning set c has a multi-penalty handle while somebody      *)
(* works on it: one output buffer, leased to a residual token, and a       *)
(* stream of its own, on which a finalization waits for the arena's event  *)
(* and copies the staging buffer.  The device may be behind the host by    *)
(* any number of copies.  Any call that reaches CUDA may throw; the run    *)
(* then ends.                                                              *)
(***************************************************************************)
EXTENDS Naturals, Sequences, SequencesExt, FiniteSets, FiniteSetsExt, Functions

CONSTANTS
    InitialCapacity,    \* 16384 values in the code
    MaxTargets,         \* width of the staging buffer
    None,
    Plan,           \* per level, the conditioning sets and their targets
    Multi,          \* conditioning sets with more than one penalty
    CohortLimit,    \* 16 in the code
    Warm,           \* sets of <<c, x>> whose states an earlier call left
    MaxGroups       \* bound: groups per level

VARIABLES
    opts,       \* arena, prefill, parity, components: what the run uses
    level,      \* the open level, or the last one
    groups,     \* groups executed on the level
    states,     \* target-state cache: the <<c, x>> optimized
    components, \* component cache
    pending,    \* conditioning sets of the level not prefilled
    arena,
    handle,     \* c -> capacity (0: none), leased, output, stream
    host,       \* what the calling thread is doing
    received    \* the last residuals given to a consumer: asked and got

vars == <<opts, level, groups, states, components, pending, arena, handle, host, received>>

ArenaAssumption == {InitialCapacity, MaxTargets} \subseteq Nat \ {0}

-----------------------------------------------------------------------------
(* ExactPrimaryCoefficientArena: device storage for the coefficients that  *)
(* the optimizer selected on one level.  Producers append to it, consumers *)
(* gather the columns they want into one staging buffer that every gather  *)
(* reuses.                                                                 *)
(*                                                                         *)
(* An arena is a record.  Its CUDA stream is the sequence of the copies    *)
(* issued and not executed; `issued` counts all of them, so an event is a  *)
(* number of issued copies.  h is the state of the handles, whose output   *)
(* buffers the copies read when they run.  One unit of storage holds one   *)
(* target's coefficients; what it holds is the key of the target, or None. *)

NewArena ==
    [level |-> 0, entries |-> <<>>, size |-> 0, capacity |-> 0, storage |-> <<>>,
     staging |-> [i \in 1 .. MaxTargets |-> None], stream |-> <<>>, issued |-> 0,
     event |-> 0]

-----------------------------------------------------------------------------
(* The stream.                                                             *)

Detach(c, n, at) == [op |-> "detach", from |-> c, n |-> n, at |-> at]
Gather(from, to) == [op |-> "gather", from |-> from, to |-> to]

(* What the device does when it comes to a copy.                           *)
Executed(a, op, h) ==
    IF op.op = "detach"
    THEN [a EXCEPT !.storage = [i \in DOMAIN @ |->
            IF i - op.at \in 1 .. op.n /\ i - op.at \in DOMAIN h[op.from].output
            THEN h[op.from].output[i - op.at] ELSE @[i]]]
    ELSE [a EXCEPT !.staging[op.to] = a.storage[op.from]]

Done(a) == a.issued - Len(a.stream)

(* The device has reached the event e.                                     *)
RunTo(a, e, h) ==
    LET n == IF e > Done(a) THEN e - Done(a) ELSE 0 IN
    FoldLeft(LAMBDA b, op : [Executed(b, op, h) EXCEPT !.stream = Tail(@)],
             a, SubSeq(a.stream, 1, n))

(* cudaStreamSynchronize                                                   *)
Synchronized(a, h) == RunTo(a, a.issued, h)

Issue(a, ops) == [a EXCEPT !.stream = @ \o ops, !.issued = @ + Len(ops)]

-----------------------------------------------------------------------------
(* The operations.                                                         *)

BeginArenaLevel(a, l, h) ==
    [Synchronized(a, h) EXCEPT !.entries = <<>>, !.size = 0, !.level = l]

FinishArenaLevel(a, h) == BeginArenaLevel(a, 0, h)

(* The memory goes when nothing reads it any more.                         *)
ClosedArena(a, h) ==
    [Synchronized(a, h) EXCEPT !.entries = <<>>, !.level = 0, !.capacity = 0,
        !.storage = <<>>, !.staging = [i \in 1 .. MaxTargets |-> None]]

NewCapacity(a, required) ==
    LET from == Max({InitialCapacity, a.capacity}) IN
    Min({from * 2 ^ k : k \in 0 .. required} \cap {n \in 1 .. 2 * from * required : n >= required})

MutEnsured(a, required, h) ==
    IF required <= a.capacity THEN a
    ELSE LET n == NewCapacity(a, required)
         IN  [a EXCEPT !.capacity = n,
                       !.storage = [i \in 1 .. n |->
                           IF i <= a.size THEN a.storage[i] ELSE None],
                       !.stream = <<>>]

(* Growth keeps what is live: it is copied behind the stores in flight and *)
(* the old memory is freed after a synchronization.                        *)
Ensured(a, required, h) ==
    IF required <= a.capacity THEN a
    ELSE LET kept == IF a.size > 0 THEN Synchronized(a, h) ELSE a
             n == NewCapacity(a, required)
         IN  [kept EXCEPT !.capacity = n,
                          !.storage = [i \in 1 .. n |->
                              IF i <= a.size THEN kept.storage[i] ELSE None]]

Store(a, c, keys, h) ==
    LET b == Ensured(a, a.size + Len(keys), h)
        at == a.size
    IN  [Issue(b, <<Detach(c, Len(keys), at)>>) EXCEPT
            !.entries = [k \in Range(keys) |-> at + SelectInSeq(keys, LAMBDA x : x = k)]
                        @@ @,
            !.size = at + Len(keys)]

StoreRefused(a, keys) ==
    \/ keys = <<>> \/ ~IsInjective(keys)
    \/ Range(keys) \cap DOMAIN a.entries # {}

ContainsAll(a, l, keys) ==
    a.level = l /\ keys # <<>> /\ Range(keys) \subseteq DOMAIN a.entries

(* One copy per column; the completion event is recorded behind them.      *)
Gathered(a, keys) ==
    LET b == Issue(a, [i \in DOMAIN keys |-> Gather(a.entries[keys[i]], i)])
    IN  [b EXCEPT !.event = b.issued]

-----------------------------------------------------------------------------
(* The run.                                                                *)

Contexts == UNION {DOMAIN Plan[l] : l \in DOMAIN Plan}
Units(c, l) == {<<c, x>> : x \in Plan[l][c]}
InOrder(units) == SetToSortSeq(units, LAMBDA a, b : a[2] < b[2])

NoHandle == [capacity |-> 0, leased |-> FALSE, output |-> <<>>, stream |-> <<>>]
Idle == [at |-> "idle"]
Between == [at |-> "between"]       \* no level is open
Failed == [at |-> "failed"]

Init ==
    /\ opts \in {o \in [arena : BOOLEAN, prefill : BOOLEAN, parity : BOOLEAN,
                        components : BOOLEAN] :
                    /\ o.prefill => o.arena /\ o.components
                    /\ o.parity => o.arena}
    /\ level = 0 /\ groups = 0
    /\ states \in {{}} \cup (IF opts.prefill THEN {} ELSE Warm)
    /\ components = {}
    /\ pending = {}
    /\ arena = NewArena
    /\ handle = [c \in Contexts |-> NoHandle]
    /\ host = Between
    /\ received = [asked |-> <<>>, got |-> <<>>]

-----------------------------------------------------------------------------
(* Handles.                                                                *)

(* ensure_multi_penalty_handle: a large enough one is kept; another is     *)
(* released, which a live residual forbids.                                *)
EnsureRefused(c, n) == n < 2 \/ (handle[c].leased /\ handle[c].capacity < n)
EnsuredHandle(h, n) ==
    IF h.capacity >= n THEN h ELSE [NoHandle EXCEPT !.capacity = n]
Filled(h, units) == [h EXCEPT !.leased = TRUE, !.output = units]
Released(h) == [h EXCEPT !.leased = FALSE]

(* The handler of an exception: the residual first, for a leased handle is *)
(* not released.                                                           *)
Unwound(h) == NoHandle
Finalize(n) == [n |-> n, after |-> arena.event]

(* The handle's stream is drained: the arena first runs to the event that  *)
(* the finalization waits for.                                             *)
ArenaFor(c) == RunTo(arena, FoldLeft(LAMBDA e, op : Max({e, op.after}), 0, handle[c].stream),
                     handle)
Drained(c) ==
    IF handle[c].stream = <<>> THEN handle[c]
    ELSE [handle[c] EXCEPT !.stream = <<>>,
             !.output = SubSeq(ArenaFor(c).staging, 1, Last(handle[c].stream).n)]

(* The device makes progress of its own accord.                            *)
ArenaRuns ==
    /\ arena.stream # <<>>
    /\ arena' = RunTo(arena, Done(arena) + 1, handle)
    /\ UNCHANGED <<opts, level, groups, states, components, pending, handle, host, received>>

HandleRuns(c) ==
    /\ handle[c].stream # <<>>
    /\ Head(handle[c].stream).after <= Done(arena)
    /\ handle' = [handle EXCEPT ![c].stream = Tail(@),
                    ![c].output = SubSeq(arena.staging, 1, Head(handle[c].stream).n)]
    /\ UNCHANGED <<opts, level, groups, states, components, pending, arena, host, received>>

-----------------------------------------------------------------------------
(* Levels.                                                                 *)

BeginLevel ==
    /\ host = Between /\ level < Len(Plan)
    /\ level' = level + 1
    /\ groups' = 0
    /\ pending' = DOMAIN Plan[level + 1] \cap Multi
    /\ arena' = IF opts.arena /\ DOMAIN Plan[level + 1] \subseteq Multi
                THEN BeginArenaLevel(arena, level + 1, handle) ELSE arena
    /\ host' = Idle
    /\ UNCHANGED <<opts, states, components, handle, received>>

FinishLevel ==
    /\ host = Idle /\ pending = {}
    /\ arena' = IF arena.level = level THEN FinishArenaLevel(arena, handle) ELSE arena
    /\ host' = Between
    /\ UNCHANGED <<opts, level, groups, states, components, pending, handle, received>>

Unchanged1 == UNCHANGED <<opts, level, groups>>

-----------------------------------------------------------------------------
(* A prefill window.                                                       *)

Requests(cs) ==
    LET missing(c) == Units(c, level) \ states IN
    [c \in {d \in cs : Cardinality(missing(d)) >= 2} |-> InOrder(missing(c))]

PrepareWindow(cs) ==
    LET r == Requests(cs)
        order == SetToSeq(DOMAIN r)
    IN  /\ host = Idle /\ cs # {} /\ cs \subseteq pending
        /\ pending' = pending \ cs
        /\ handle' = [c \in Contexts |->
              IF c \in DOMAIN r THEN EnsuredHandle(handle[c], Len(r[c])) ELSE handle[c]]
        /\ host' = IF order = <<>> THEN Idle
                   ELSE [at |-> "optimize", r |-> r, order |-> order]
        /\ Unchanged1 /\ UNCHANGED <<states, components, arena, received>>

(* The residuals are retained only for the arena.                          *)
OptimizeWindow ==
    /\ host.at = "optimize"
    /\ handle' = [c \in Contexts |->
          IF c \notin DOMAIN host.r THEN handle[c]
          ELSE [Filled(handle[c], host.r[c]) EXCEPT !.leased = opts.arena]]
    /\ host' = [at |-> "store", r |-> host.r, order |-> host.order, i |-> 1]
    /\ Unchanged1 /\ UNCHANGED <<states, components, pending, arena, received>>

StoreRequest ==
    /\ host.at = "store" /\ host.i <= Len(host.order)
    /\ LET c == host.order[host.i]
           keys == host.r[c]
       IN  /\ states' = states \cup Range(keys)
           /\ IF opts.arena
              THEN /\ ~StoreRefused(arena, keys)
                   /\ arena' = Store(arena, c, keys, handle)
                   /\ UNCHANGED handle
              ELSE /\ handle' = [handle EXCEPT ![c] = NoHandle]
                   /\ UNCHANGED arena
    /\ host' = [host EXCEPT !.i = @ + 1]
    /\ Unchanged1 /\ UNCHANGED <<components, pending, received>>

(* finish_store_window, then the leases end; the handles stay for Stage A. *)
FinishStore ==
    /\ host.at = "store" /\ host.i > Len(host.order)
    /\ arena' = IF opts.arena THEN Synchronized(arena, handle) ELSE arena
    /\ handle' = [c \in Contexts |->
          IF ~opts.arena \/ c \notin DOMAIN host.r THEN handle[c]
          ELSE IF opts.prefill THEN Released(handle[c]) ELSE NoHandle]
    /\ host' = IF opts.prefill
               THEN [at |-> "stage", r |-> host.r, order |-> host.order, i |-> 1,
                     offset |-> 0]
               ELSE Idle
    /\ Unchanged1 /\ UNCHANGED <<states, components, pending, received>>

(* The cohorts of a request: as few as the limit allows, of sizes that     *)
(* differ by at most one.                                                  *)
Cohort(keys, offset) ==
    LET total == Len(keys)
        cohorts == (total + CohortLimit - 1) \div CohortLimit
        size(k) == total \div cohorts + (IF k <= total % cohorts THEN 1 ELSE 0)
        start[k \in 1 .. cohorts + 1] == IF k = 1 THEN 0 ELSE start[k - 1] + size(k - 1)
        k == CHOOSE j \in 1 .. cohorts : start[j] = offset
    IN  SubSeq(keys, offset + 1, offset + size(k))

StageFinalize ==
    /\ host.at = "stage"
    /\ LET c == host.order[host.i]
           keys == Cohort(host.r[c], host.offset)
       IN  /\ ContainsAll(arena, level, keys)
           /\ Len(keys) \in 2 .. handle[c].capacity
           /\ arena' = Gathered(arena, keys)
           /\ handle' = [handle EXCEPT ![c].leased = TRUE,
                            ![c].stream = Append(@, [Finalize(Len(keys)) EXCEPT
                                                       !.after = Gathered(arena, keys).event])]
           /\ host' = [host EXCEPT !.at = "cohort"]
    /\ Unchanged1 /\ UNCHANGED <<states, components, pending, received>>

(* The residuals are in the level's store when the call returns: the slot  *)
(* and the staging buffer are free for the next cohort.                    *)
StageStore ==
    /\ host.at = "cohort"
    /\ LET c == host.order[host.i]
           keys == Cohort(host.r[c], host.offset)
           last == host.offset + Len(keys) = Len(host.r[c])
       IN  /\ received' = [asked |-> keys, got |-> Drained(c).output]
           /\ components' = components \cup Range(keys)
           /\ arena' = ArenaFor(c)
           /\ LET h == [handle EXCEPT ![c] = Released(Drained(c))] IN
              IF last /\ host.i = Len(host.order)
              THEN /\ host' = Idle
                   /\ handle' = [d \in Contexts |->
                                    IF d \in DOMAIN host.r THEN NoHandle ELSE h[d]]
              ELSE /\ handle' = h
                   /\ host' = [host EXCEPT !.at = "stage",
                                  !.i = IF last THEN @ + 1 ELSE @,
                                  !.offset = IF last THEN 0 ELSE @ + Len(keys)]
    /\ Unchanged1 /\ UNCHANGED <<states, pending>>

-----------------------------------------------------------------------------
(* A group: the targets of its tasks, all on one conditioning set.         *)

BeginGroup(c, ts) ==
    /\ host = Idle /\ pending = {} /\ groups < MaxGroups
    /\ Cardinality(ts) >= 2
    /\ groups' = groups + 1
    /\ host' = [at |-> "group", c |-> c, units |-> InOrder(ts), residual |-> FALSE]
    /\ UNCHANGED <<opts, level, states, components, pending, arena, handle, received>>

(* The targets without a state are optimized; a single one of a            *)
(* multi-penalty set takes another along, for the optimizer has no batch   *)
(* of one, and its state is written again.                                 *)
Positions ==
    LET missing == {u \in Range(host.units) : u \notin states}
        others == SelectSeq(host.units, LAMBDA u : u \notin missing)
    IN  IF host.c \in Multi /\ Cardinality(missing) = 1
        THEN missing \cup {Head(others)} ELSE missing

OptimizeMissing ==
    /\ host.at = "group"
    /\ Positions # {}
    /\ IF host.c \in Multi
       THEN handle' = [handle EXCEPT ![host.c] =
                          Filled(EnsuredHandle(@, Cardinality(Positions)), InOrder(Positions))]
       ELSE UNCHANGED handle
    /\ host' = [host EXCEPT !.at = "optimized", !.residual = host.c \in Multi]
    /\ Unchanged1 /\ UNCHANGED <<states, components, pending, arena, received>>

KeepStates ==
    /\ host.at = "optimized"
    /\ states' = states \cup Positions
    /\ handle' = [handle EXCEPT ![host.c] = NoHandle]
    /\ host' = [host EXCEPT !.at = "group", !.residual = FALSE]
    /\ Unchanged1 /\ UNCHANGED <<components, pending, arena, received>>

Optimized == host.at = "group" /\ Positions = {}
AllHit == opts.components /\ Range(host.units) \subseteq components

(* Everything cached: no residual is formed.                               *)
HitGroup ==
    /\ Optimized
    /\ AllHit
    /\ host' = Idle
    /\ Unchanged1 /\ UNCHANGED <<states, components, pending, arena, handle, received>>

(* The fail-closed check of a prefilled level.                             *)
RefuseMiss ==
    /\ Optimized
    /\ opts.prefill /\ host.c \in Multi /\ ~AllHit
    /\ host' = Failed
    /\ Unchanged1 /\ UNCHANGED <<states, components, pending, arena, handle, received>>

Reuses ==
    /\ host.c \in Multi
    /\ opts.arena
    /\ ContainsAll(arena, level, host.units)

NeedsResiduals == Optimized /\ ~AllHit /\ ~(opts.prefill /\ host.c \in Multi)

EnsureForGroup ==
    /\ NeedsResiduals
    /\ ~EnsureRefused(host.c, Len(host.units))
    /\ handle' = [handle EXCEPT ![host.c] = EnsuredHandle(@, Len(host.units))]
    /\ host' = [host EXCEPT !.at = IF ~Reuses THEN "fixed"
                                   ELSE IF opts.parity THEN "parity" ELSE "gather"]
    /\ Unchanged1 /\ UNCHANGED <<states, components, pending, arena, received>>

(* The fixed evaluator, whose values the host sees before it goes on; the  *)
(* parity diagnostic takes a shadow of them and gives the residual back.   *)
EvaluateFixed ==
    /\ host.at \in {"fixed", "parity"}
    /\ handle' = [handle EXCEPT ![host.c] = Filled(Drained(host.c), host.units)]
    /\ host' = [host EXCEPT !.at = IF host.at = "fixed" THEN "consume" ELSE "shadow",
                            !.residual = TRUE]
    /\ Unchanged1 /\ UNCHANGED <<states, components, pending, arena, received>>

TakeShadow ==
    /\ host.at = "shadow"
    /\ handle' = [handle EXCEPT ![host.c] = Released(@)]
    /\ host' = [host EXCEPT !.at = "gather", !.residual = FALSE]
    /\ Unchanged1 /\ UNCHANGED <<states, components, pending, arena, received>>

FinalizeSelected ==
    /\ host.at = "gather"
    /\ arena' = Gathered(arena, host.units)
    /\ handle' = [handle EXCEPT ![host.c].leased = TRUE,
                     ![host.c].stream = Append(@, [Finalize(Len(host.units)) EXCEPT
                                          !.after = Gathered(arena, host.units).event])]
    /\ host' = [host EXCEPT !.at = "consume", !.residual = TRUE]
    /\ Unchanged1 /\ UNCHANGED <<states, components, pending, received>>

(* The batch waits for its compact results, so its input has been read.    *)
Consume ==
    /\ host.at = "consume"
    /\ received' = [asked |-> host.units, got |-> Drained(host.c).output]
    /\ components' = IF opts.components THEN components \cup Range(host.units)
                     ELSE components
    /\ arena' = ArenaFor(host.c)
    /\ handle' = [handle EXCEPT ![host.c] = NoHandle]
    /\ host' = Idle
    /\ Unchanged1 /\ UNCHANGED <<states, pending>>

-----------------------------------------------------------------------------
(* A step that throws.  A window's handler waits for the arena, releases   *)
(* the residuals and then the handles; a group's releases what it holds.   *)

WindowThrows ==
    /\ host.at \in {"optimize", "store", "stage", "cohort"}
    /\ arena' = IF host.at = "optimize" THEN arena ELSE Synchronized(arena, handle)
    /\ handle' = [c \in Contexts |->
          IF c \in DOMAIN host.r THEN Unwound(handle[c]) ELSE handle[c]]
    /\ host' = Failed
    /\ Unchanged1 /\ UNCHANGED <<states, components, pending, received>>

GroupThrows ==
    /\ host.at \in {"group", "optimized", "fixed", "parity", "shadow", "gather", "consume"}
    /\ handle' = [handle EXCEPT ![host.c] = Unwound(@)]
    /\ host' = Failed
    /\ Unchanged1 /\ UNCHANGED <<states, components, pending, arena, received>>

(* The arena is closed at the end of the run, however it ended.            *)
CloseRun ==
    /\ host = Failed \/ (host = Between /\ level = Len(Plan))
    /\ arena' = ClosedArena(arena, handle)
    /\ host' = [at |-> "closed"]
    /\ Unchanged1 /\ UNCHANGED <<states, components, pending, handle, received>>

Next ==
    \/ ArenaRuns \/ \E c \in Contexts : HandleRuns(c)
    \/ BeginLevel \/ FinishLevel
    \/ \E cs \in SUBSET pending : PrepareWindow(cs)
    \/ OptimizeWindow \/ StoreRequest \/ FinishStore \/ StageFinalize \/ StageStore
    \/ \E c \in IF level = 0 THEN {} ELSE DOMAIN Plan[level] :
          \E ts \in SUBSET Units(c, level) : BeginGroup(c, ts)
    \/ OptimizeMissing \/ KeepStates \/ HitGroup \/ RefuseMiss
    \/ EnsureForGroup \/ EvaluateFixed \/ TakeShadow \/ FinalizeSelected \/ Consume
    \/ WindowThrows \/ GroupThrows \/ CloseRun

Spec == Init /\ [][Next]_vars

-----------------------------------------------------------------------------
(* The residuals that a consumer is given are those of the targets it      *)
(* named, in its order: whatever the arena has grown to, however far the   *)
(* device is behind, and although all gathers share one staging buffer     *)
(* (gather_coefficients, finalize_selected_coefficients, execute_group).   *)
ResidualsAreOwn == received.asked = received.got

(* Between groups and windows, and when an exception has left one, no      *)
(* conditioning set has a handle and no residual is leased                 *)
(* (release_multi_penalty_handle and the handlers of execute_group and     *)
(* complete_multi_penalty_prefill_window).                                 *)
NothingHeld ==
    host.at \in {"idle", "between", "failed", "closed"} => \A c \in Contexts : handle[c] = NoHandle
=============================================================================
