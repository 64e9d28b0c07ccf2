-------------------------- MODULE FixedSpResources --------------------------
(***************************************************************************)
(* What the fixed-sp runtime allocates and who owns it: the arenas a       *)
(* reserve replaces, the memory of a prepared handle, the penalty roots it *)
(* shares through the context's cache, the ledger that counts them, and    *)
(* what is left when a call in the middle of it fails.                     *)
(*                                                                         *)
(* A failing teardown call leaves it open whether the resource is gone:    *)
(* the pointer is dropped and the resource counted as indeterminate.  A    *)
(* teardown that was not attempted keeps the pointer, for another attempt. *)
(***************************************************************************)
EXTENDS Naturals, Sequences, FiniteSets, SequencesExt

CONSTANTS
    Keys,           \* penalty root cache keys
    RootCapacity,   \* kFixedSpPenaltyRootCacheCapacity
    MaxPenalties,   \* bound on the penalties of a setup
    MaxReserves, MaxHandles, MaxFaults   \* bounds on the calls and failures

Arenas == <<"double", "int", "host_status", "pointer">>
Parts == <<"design", "slot", "event">>      \* what a handle allocates

VARIABLES
    life,       \* lifecycle of the context
    size,       \* how often the arenas have grown
    arena,      \* arena pointers, 0 when null
    staged,     \* the new arenas of a reserve that is running
    consumed,   \* old_owned_resource_consumed
    part,       \* the pointers of the handle, 0 when null
    handle,     \* lifecycle of the handle
    cache,      \* penalty_root_cache: key -> [id, key, good]
    setup,      \* penalty_root_cache_keys of the handle being created
    pending,    \* pending_root_cache_entries
    roots,      \* of each penalty of the handle: the key and is the root good
    heap,       \* alive resources, those in an unknown state, the ledger
    calls, faults, pc

vars == <<life, size, arena, staged, consumed, part, handle, cache, setup, pending,
          roots, heap, calls, faults, pc>>
ctx == <<life, size, arena>>
own == <<part, handle, setup, pending, roots>>

Null(S) == [x \in ToSet(S) |-> 0]

Init ==
    /\ life = "usable" /\ size = 0
    /\ arena = Null(Arenas) /\ staged = Null(Arenas) /\ consumed = FALSE
    /\ part = Null(Parts) /\ handle = "none"
    /\ cache = <<>> /\ setup = <<>> /\ pending = <<>> /\ roots = <<>>
    /\ heap = [next |-> 1, alive |-> {}, unknown |-> {}, active |-> 0, indeterminate |-> 0]
    /\ calls = [reserve |-> 0, create |-> 0] /\ faults = 0 /\ pc = "idle"

Fault == faults < MaxFaults /\ faults' = faults + 1
NoFault == UNCHANGED faults

-----------------------------------------------------------------------------
(* The tracked calls.                                                      *)

tracked_cuda_malloc(h) ==
    [h EXCEPT !.next = @ + 1, !.alive = @ \cup {h.next}, !.active = @ + 1]

CalledSuccess(h, ids) ==
    [h EXCEPT !.alive = @ \ ids, !.active = @ - Cardinality(ids \ {0})]

CalledOwnershipIndeterminate(h, id) ==
    [h EXCEPT !.unknown = @ \cup {id}, !.active = @ - 1, !.indeterminate = @ + 1]

(* cleanup_local_*_noexcept: a pointer that was not attempted is attempted *)
(* a second time, so after it the pointer is null.                         *)
Cleaned(h, ids) ==
    \/ NoFault /\ heap' = CalledSuccess(h, ids)
    \/ Fault /\ heap' = CalledSuccess(h, ids)
    \/ /\ Fault
       /\ \E id \in ids \ {0} :
             heap' = CalledOwnershipIndeterminate(CalledSuccess(h, ids \ {id}), id)

-----------------------------------------------------------------------------
(* reserve: probes are freed at once; the new arenas are allocated first,  *)
(* then each replaces its old one.                                         *)

reserve ==
    /\ pc = "idle" /\ life = "usable" /\ handle # "usable"
    /\ calls.reserve < MaxReserves
    /\ calls' = [calls EXCEPT !.reserve = @ + 1]
    /\ staged' = Null(Arenas) /\ consumed' = FALSE
    /\ pc' = "allocate"
    /\ UNCHANGED <<ctx, own, cache, heap, faults>>

NextStaged == SelectInSeq(Arenas, LAMBDA a : staged[a] = 0)

(* An arena grows or is large enough already.                              *)
AllocateArena ==
    /\ pc = "allocate" /\ NextStaged > 0
    /\ LET a == Arenas[NextStaged] IN
       \/ /\ NoFault
          /\ staged' = [staged EXCEPT ![a] = heap.next]
          /\ heap' = tracked_cuda_malloc(heap)
          /\ pc' = IF NextStaged = Len(Arenas) THEN "replace" ELSE "allocate"
       \/ /\ Fault
          /\ staged' = Null(Arenas)
          /\ heap' = CalledSuccess(heap, Range(staged))
          /\ pc' = "idle"
    /\ UNCHANGED <<ctx, consumed, own, cache, calls>>

NextReplaced == SelectInSeq(Arenas, LAMBDA a : staged[a] # 0)

ReserveFails(h, old) ==
    /\ heap' = CalledSuccess(h, Range(staged))
    /\ life' = IF consumed \/ old THEN "teardown" ELSE "usable"

ReplaceArena ==
    /\ pc = "replace" /\ NextReplaced > 0
    /\ LET a == Arenas[NextReplaced]
           owner == arena[a] # 0
       IN \/ /\ NoFault
             /\ heap' = CalledSuccess(heap, {arena[a]})
             /\ arena' = [arena EXCEPT ![a] = staged[a]]
             /\ staged' = [staged EXCEPT ![a] = 0]
             /\ consumed' = (consumed \/ owner)
             /\ UNCHANGED <<life, pc>>
          \/ /\ Fault /\ owner      \* not attempted: the old arena stays
             /\ ReserveFails(heap, FALSE)
             /\ staged' = Null(Arenas) /\ pc' = "idle"
             /\ UNCHANGED <<arena, consumed>>
          \/ /\ Fault /\ owner      \* indeterminate: it is gone
             /\ ReserveFails(CalledOwnershipIndeterminate(heap, arena[a]), TRUE)
             /\ arena' = [arena EXCEPT ![a] = 0]
             /\ staged' = Null(Arenas) /\ pc' = "idle"
             /\ UNCHANGED consumed
    /\ UNCHANGED <<size, own, cache, calls>>

(* The cuBLAS workspace is installed last, and the capacities are set.     *)
Reserved ==
    /\ pc = "replace" /\ NextReplaced = 0
    /\ \/ NoFault /\ size' = size + 1 /\ UNCHANGED life
       \/ Fault /\ life' = (IF consumed THEN "teardown" ELSE life) /\ UNCHANGED size
    /\ pc' = "idle"
    /\ UNCHANGED <<arena, staged, consumed, own, cache, heap, calls>>

-----------------------------------------------------------------------------
(* Creating a prepared handle.                                             *)

create_prepared_s_gpu ==
    /\ pc = "idle" /\ life = "usable" /\ size > 0 /\ handle # "usable"
    /\ handle # "teardown"
    /\ calls.create < MaxHandles
    /\ \E n \in 1..MaxPenalties : setup' \in [1..n -> Keys]
    /\ calls' = [calls EXCEPT !.create = @ + 1]
    /\ part' = Null(Parts) /\ pending' = <<>> /\ roots' = <<>>
    /\ handle' = "building" /\ pc' = "parts"
    /\ UNCHANGED <<ctx, staged, consumed, cache, heap, faults>>

NextPart == SelectInSeq(Parts, LAMBDA p : part[p] = 0)

Held(entries) == {entries[i].id : i \in DOMAIN entries}

(* Whatever fails, the pending entries and the handle are freed; entries   *)
(* that are in the cache already stay there.                               *)
MutCreateFails ==
    /\ \/ NoFault \/ Fault
    /\ heap' = CalledSuccess(heap, Range(part))
    /\ part' = Null(Parts) /\ pending' = <<>> /\ handle' = "freed" /\ pc' = "idle"

CreateFails ==
    /\ Cleaned(heap, Range(part) \cup Held(pending))
    /\ part' = Null(Parts) /\ pending' = <<>> /\ handle' = "freed" /\ pc' = "idle"

AllocatePart ==
    /\ pc = "parts" /\ NextPart > 0
    /\ part' = [part EXCEPT ![Parts[NextPart]] = heap.next]
    /\ heap' = tracked_cuda_malloc(heap)
    /\ pc' = IF NextPart = Len(Parts) THEN "roots" ELSE "parts"
    /\ NoFault
    /\ UNCHANGED <<ctx, staged, consumed, handle, cache, setup, pending, roots, calls>>

CreateThrows ==
    /\ pc \in {"parts", "roots"}
    /\ faults < MaxFaults
    /\ CreateFails
    /\ UNCHANGED <<ctx, staged, consumed, cache, setup, roots, calls>>

Penalty == Len(roots) + 1
Hit == setup[Penalty] \in DOMAIN cache
CacheRoom == Cardinality(DOMAIN cache) + Len(pending) < RootCapacity

(* A hit is copied from the cache; a miss is decomposed, which may leave a *)
(* root that is not usable, and kept aside for the cache while it has room.*)
BuildRoot ==
    /\ pc = "roots" /\ Penalty <= Len(setup)
    /\ LET key == setup[Penalty] IN
       IF Hit
       THEN /\ roots' = Append(roots, [key |-> cache[key].key, good |-> cache[key].good])
            /\ UNCHANGED <<pending, heap>>
       ELSE \E good \in BOOLEAN :
            /\ roots' = Append(roots, [key |-> key, good |-> good])
            /\ IF CacheRoom
               THEN /\ pending' = Append(pending, [id |-> heap.next, key |-> key, good |-> good])
                    /\ heap' = tracked_cuda_malloc(heap)
               ELSE UNCHANGED <<pending, heap>>
    /\ UNCHANGED <<ctx, staged, consumed, part, handle, cache, setup, calls, faults, pc>>

(* The records of all roots are validated after the device has finished    *)
(* and before any of them enters the cache.                                *)
Validated == {i \in DOMAIN roots : ~roots[i].good}

ValidateRoots ==
    /\ pc = "roots" /\ Penalty > Len(setup)
    /\ IF Validated # {}
       THEN CreateFails
       ELSE pc' = "emplace" /\ UNCHANGED <<part, pending, handle, heap, faults>>
    /\ UNCHANGED <<ctx, staged, consumed, cache, setup, roots, calls>>

(* The entry moves into the cache.  A key that is there already, because   *)
(* the setup has the penalty twice, is refused.                            *)
Emplace ==
    /\ pc = "emplace" /\ pending # <<>>
    /\ LET e == Head(pending) IN
       IF e.key \in DOMAIN cache
       THEN CreateFails /\ UNCHANGED cache
       ELSE /\ cache' = [k \in DOMAIN cache \cup {e.key} |->
                            IF k = e.key THEN e ELSE cache[k]]
            /\ pending' = Tail(pending)
            /\ UNCHANGED <<part, handle, heap, faults, pc>>
    /\ UNCHANGED <<ctx, staged, consumed, setup, roots, calls>>

Created ==
    /\ pc = "emplace" /\ pending = <<>>
    /\ handle' = "usable" /\ pc' = "idle"
    /\ UNCHANGED <<ctx, staged, consumed, part, cache, setup, pending, roots, heap,
                   calls, faults>>

-----------------------------------------------------------------------------
(* Closing.  Every pointer is attempted; those that were not keep their    *)
(* owner in the teardown state.                                            *)

ClosedHeap(ids, kept) == CalledSuccess(heap, ids \ {kept})

free_prepared_s_gpu ==
    /\ pc = "idle" /\ handle \in {"usable", "teardown"}
    /\ \/ /\ Cleaned(heap, Range(part))
          /\ part' = Null(Parts) /\ handle' = "freed"
       \/ /\ Fault
          /\ \E p \in DOMAIN part :
                /\ part[p] # 0
                /\ heap' = ClosedHeap(Range(part), part[p])
                /\ part' = [q \in DOMAIN part |-> IF q = p THEN part[q] ELSE 0]
          /\ handle' = "teardown"
    /\ UNCHANGED <<ctx, staged, consumed, cache, setup, pending, roots, calls, pc>>

free_fixed_sp_runtime ==
    /\ pc = "idle" /\ life # "freed" /\ handle \notin {"usable", "teardown"}
    /\ LET ids == Range(arena) \cup {cache[k].id : k \in DOMAIN cache} IN
       \/ /\ Cleaned(heap, ids)
          /\ arena' = Null(Arenas) /\ cache' = <<>> /\ life' = "freed"
       \/ /\ Fault
          /\ \E a \in DOMAIN arena :
                /\ arena[a] # 0
                /\ heap' = ClosedHeap(ids, arena[a])
                /\ arena' = [b \in DOMAIN arena |-> IF b = a THEN arena[b] ELSE 0]
          /\ cache' = <<>> /\ life' = "teardown"
    /\ UNCHANGED <<size, staged, consumed, own, calls, pc>>

Next ==
    \/ reserve \/ AllocateArena \/ ReplaceArena \/ Reserved
    \/ create_prepared_s_gpu \/ AllocatePart \/ CreateThrows \/ BuildRoot
    \/ ValidateRoots \/ Emplace \/ Created
    \/ free_prepared_s_gpu \/ free_fixed_sp_runtime

Spec == Init /\ [][Next]_vars

-----------------------------------------------------------------------------

(* Every pointer that owns a resource, by its owner.                       *)
Owners ==
    [arena |-> arena, staged |-> staged, part |-> part,
     cache |-> [k \in DOMAIN cache |-> cache[k].id],
     pending |-> [i \in DOMAIN pending |-> pending[i].id]]

(* At every step, failures included, each resource that is allocated and   *)
(* not in an unknown state has exactly one pointer that will free it, no   *)
(* pointer leads to one that is gone, and the ledger counts them exactly.  *)
OwnedOnce ==
    /\ LET owner == Owners IN
       /\ \A o \in DOMAIN owner : \A x \in DOMAIN owner[o] :
             owner[o][x] # 0 =>
                \A p \in DOMAIN owner : \A y \in DOMAIN owner[p] :
                   owner[o][x] = owner[p][y] => o = p /\ x = y
       /\ (UNION {Range(owner[o]) : o \in DOMAIN owner}) \ {0} =
             heap.alive \ heap.unknown
    /\ heap.active = Cardinality(heap.alive \ heap.unknown)

(* The cache only holds roots that passed validation, each under its own   *)
(* key, and a usable handle is made of roots of its own penalties that     *)
(* did, however often creating a handle failed before.                     *)
RootsTrusted ==
    /\ \A k \in DOMAIN cache : cache[k].key = k /\ cache[k].good
    /\ handle = "usable" =>
          \A i \in DOMAIN setup : roots[i] = [key |-> setup[i], good |-> TRUE]

(* A context that can still be used has all its arenas, once it has        *)
(* reserved: one that lost an arena halfway can only be torn down.         *)
UsableIsWhole ==
    pc = "idle" /\ life = "usable" /\ size > 0 =>
        \A a \in DOMAIN arena : arena[a] \in heap.alive \ heap.unknown
=============================================================================
