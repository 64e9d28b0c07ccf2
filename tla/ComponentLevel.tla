--------------------------- MODULE ComponentLevel ---------------------------
(***************************************************************************)
(* The device cache of legacy eigen-components through the levels of one   *)
(* call: the prefill ledger (begin, store, build, finish), its dense and   *)
(* structured producers, the deferred Gram step and the batches that read  *)
(* the cache.                                                              *)
(*                                                                         *)
(* The host enqueues work on the context's stream and on the lanes of the  *)
(* structured producer; the device takes it from the streams in any order. *)
(* A slot holds nothing, the three prefetched fields of a component, or    *)
(* all four.  Any host step may throw; the call then ends and destroys the *)
(* cache.                                                                  *)
(***************************************************************************)
EXTENDS Naturals, Sequences, FiniteSets, FiniteSetsExt, SequencesExt

CONSTANTS
    Levels,         \* per level: the targets of each conditioning set, and
                    \* whether the level is prefilled
    Capacity,       \* capacity_entries_
    BatchCapacity,  \* component_capacity_ of the dense context
    Lanes, Width,   \* structured lanes and components per lane
    MaxGroups       \* bound on the groups a level executes

SizesAssumption ==
    /\ {Capacity, BatchCapacity, Lanes, Width} \subseteq Nat \ {0}
    /\ \A l \in DOMAIN Levels : Levels[l].prefilled =>
          Cardinality(UNION Levels[l].sets) <= Capacity
DistinctAssumption ==
    \A l, m \in DOMAIN Levels :
        /\ \A S, T \in Levels[l].sets : S # T => S \cap T = {}
        /\ l # m => UNION Levels[l].sets \cap UNION Levels[m].sets = {}

VARIABLES
    structured,     \* structured_enabled_
    level, groups,  \* current level and the groups it has executed
    entries,        \* keys_: a function from keys to [slot, pending]
    next,           \* next_slot_
    residuals,      \* residual_keys_: the detached residuals, in order
    arena,          \* is level_residuals_ allocated
    active, built,  \* level_active_, level_built_
    ledger,         \* produced and resolved counts of the level
    batch,          \* keys and slots of the wave or group in progress
    queue,          \* device work of each stream
    content,        \* what each slot holds
    wrong,          \* has the device read a slot or residual it must not
    pc

vars == <<structured, level, groups, entries, next, residuals, arena, active,
          built, ledger, batch, queue, content, wrong, pc>>
host == <<structured, level, groups, entries, next, residuals, arena, active,
          built, ledger, batch, pc>>

Main == 0
Streams == 0..Lanes
Nothing == [key |-> 0, form |-> "none"]
Planned == UNION Levels[level].sets
NoBatch == [keys |-> <<>>, slots |-> <<>>, lane |-> 0, dense |-> {}]

Init ==
    /\ structured \in BOOLEAN
    /\ level = 0 /\ groups = 0 /\ entries = <<>> /\ next = 0
    /\ residuals = <<>> /\ arena = FALSE /\ active = FALSE /\ built = FALSE
    /\ ledger = [produced |-> 0, resolved |-> 0]
    /\ batch = NoBatch
    /\ queue = [s \in Streams |-> <<>>]
    /\ content = [i \in 0..(Capacity - 1) |-> Nothing]
    /\ wrong = FALSE
    /\ pc = "level"

Enqueue(s, ops) == queue' = [queue EXCEPT ![s] = @ \o ops]
Synchronized(s) == queue[s] = <<>>
DeviceKept == UNCHANGED <<queue, content, wrong>>

-----------------------------------------------------------------------------
(* The level's ledger.                                                     *)

(* Slots are handed out anew from 0, so the last reader is waited for.     *)
begin_level ==
    /\ pc = "level" /\ level < Len(Levels) /\ Levels[level + 1].prefilled
    /\ ~active
    /\ Synchronized(Main)
    /\ level' = level + 1 /\ groups' = 0
    /\ entries' = <<>> /\ next' = 0 /\ residuals' = <<>> /\ arena' = TRUE
    /\ ledger' = [produced |-> 0, resolved |-> 0]
    /\ active' = TRUE /\ built' = FALSE
    /\ pc' = "store"
    /\ UNCHANGED <<structured, batch>> /\ DeviceKept

PlainLevel ==
    /\ pc = "level" /\ level < Len(Levels) /\ ~Levels[level + 1].prefilled
    /\ level' = level + 1 /\ groups' = 0
    /\ pc' = "group"
    /\ UNCHANGED <<structured, entries, next, residuals, arena, active, built,
                   ledger, batch>> /\ DeviceKept

(* The residuals of one conditioning set are detached into the arena       *)
(* before their producer may reuse its buffers.                            *)
store_residual ==
    /\ pc = "store"
    /\ \E S \in Levels[level].sets :
          /\ S \cap ToSet(residuals) = {}
          /\ residuals' = residuals \o SetToSortSeq(S, <)
    /\ pc' = IF ToSet(residuals') = Planned THEN "build" ELSE "store"
    /\ UNCHANGED <<structured, level, groups, entries, next, arena, active,
                   built, ledger, batch>> /\ DeviceKept

Reserve(keys) ==
    [i \in 1..Min({Len(keys), Capacity - next}) |-> next + i - 1]
Commit(keys, slots, pending) ==
    [k \in DOMAIN entries \cup ToSet(keys) |->
        IF k \in DOMAIN entries THEN entries[k]
        ELSE [slot |-> slots[CHOOSE i \in DOMAIN keys : keys[i] = k],
              pending |-> pending]]
StoreOps(keys, slots, form) ==
    [i \in 1..Len(slots) |->
        [op |-> "store", slot |-> slots[i], key |-> keys[i], form |-> form]]
EigOp == << [op |-> "eig"] >>

Window(size) ==
    SubSeq(residuals, ledger.produced + 1,
           Min({Len(residuals), ledger.produced + size}))

(* Dense producer: a batch is stored and committed, then its status is     *)
(* awaited; a bad status leaves the level unbuilt.                         *)
BuildDense ==
    /\ pc = "build" /\ ~structured /\ Synchronized(Main)
    /\ ledger.produced < Len(residuals)
    /\ LET keys == Window(BatchCapacity)
           slots == Reserve(keys)
       IN  /\ Len(slots) = Len(keys)
           /\ entries' = Commit(keys, slots, TRUE)
           /\ next' = next + Len(keys)
           /\ ledger' = [ledger EXCEPT !.produced = @ + Len(keys)]
           /\ Enqueue(Main, EigOp \o StoreOps(keys, slots, "three"))
    /\ UNCHANGED <<structured, level, groups, residuals, arena, active, built,
                   batch, pc, content, wrong>>

LaneWindow(l) ==
    SubSeq([i \in DOMAIN batch.keys |-> i], (l - 1) * Width + 1,
           Min({Len(batch.keys), l * Width}))
ActiveLanes == (Len(batch.keys) + Width - 1) \div Width

(* Structured producer: slots are reserved for a wave and every lane is    *)
(* submitted before the first status is read.                              *)
SubmitWave ==
    /\ pc = "build" /\ structured /\ Synchronized(Main)
    /\ ledger.produced < Len(residuals)
    /\ LET keys == Window(Lanes * Width)
       IN  /\ batch' = [keys |-> keys, slots |-> Reserve(keys), lane |-> 1,
                        dense |-> {}]
           /\ Len(Reserve(keys)) = Len(keys)
           /\ next' = next + Len(keys)
           /\ queue' = [s \in Streams |->
                 IF s \in 1..((Len(keys) + Width - 1) \div Width)
                 THEN queue[s] \o EigOp ELSE queue[s]]
    /\ pc' = "lane"
    /\ UNCHANGED <<structured, level, groups, entries, residuals, arena, active,
                   built, ledger, content, wrong>>

(* A lane's status is read; accepted components are stored on the lane,    *)
(* which the main stream then waits for; the others go to the dense path.  *)
ReadLane ==
    /\ pc = "lane" /\ batch.lane <= ActiveLanes
    /\ Synchronized(batch.lane)
    /\ \E dense \in SUBSET ToSet(LaneWindow(batch.lane)) :
          LET kept == SelectSeq(LaneWindow(batch.lane), LAMBDA i : i \notin dense)
              on(f) == [i \in DOMAIN kept |-> f[kept[i]]]
          IN  /\ batch' = [batch EXCEPT !.dense = dense]
              /\ queue' = [queue EXCEPT
                    ![batch.lane] = @ \o StoreOps(on(batch.keys),
                                                  on(batch.slots), "three"),
                    ![Main] = @ \o << [op |-> "join", lane |-> batch.lane] >>
                                 \o (IF dense = {} THEN <<>> ELSE EigOp)]
    /\ pc' = "dense"
    /\ UNCHANGED <<structured, level, groups, entries, next, residuals, arena,
                   active, built, ledger, content, wrong>>

(* The dense path runs on the main stream and is awaited before its stores.*)
DenseFallback ==
    /\ pc = "dense"
    /\ batch.dense # {} => Synchronized(Main)
    /\ LET idx == SetToSortSeq(batch.dense, <)
           on(f) == [i \in DOMAIN idx |-> f[idx[i]]]
       IN  Enqueue(Main, StoreOps(on(batch.keys), on(batch.slots), "three"))
    /\ batch' = [batch EXCEPT !.lane = @ + 1, !.dense = {}]
    /\ pc' = "lane"
    /\ UNCHANGED <<structured, level, groups, entries, next, residuals, arena,
                   active, built, ledger, content, wrong>>

(* Nothing of a wave is committed before every store of it has finished.   *)
CommitWave ==
    /\ pc = "lane" /\ batch.lane > ActiveLanes
    /\ Synchronized(Main)
    /\ entries' = Commit(batch.keys, batch.slots, TRUE)
    /\ ledger' = [ledger EXCEPT !.produced = @ + Len(batch.keys)]
    /\ batch' = NoBatch
    /\ pc' = "build"
    /\ UNCHANGED <<structured, level, groups, next, residuals, arena, active,
                   built>> /\ DeviceKept

(* The residual arena is freed when the whole level is produced.           *)
Built ==
    /\ pc = "build" /\ ledger.produced = Len(residuals)
    /\ Synchronized(Main)
    /\ arena' = FALSE /\ residuals' = <<>> /\ built' = TRUE
    /\ pc' = "group"
    /\ UNCHANGED <<structured, level, groups, entries, next, active, ledger,
                   batch>> /\ DeviceKept

-----------------------------------------------------------------------------
(* A batch: look-ups, deferred Gram, misses, pairs.                        *)

Hits(keys) == SelectSeq(keys, LAMBDA k : k \in DOMAIN entries)
Misses(keys) == SelectSeq(keys, LAMBDA k : k \notin DOMAIN entries)
Pending(keys) ==
    SelectSeq(keys, LAMBDA k : k \in DOMAIN entries /\ entries[k].pending)
SlotsOf(keys) == [i \in DOMAIN keys |-> entries[keys[i]].slot]

(* Pending hits are completed first, on the stream the pairs will use.     *)
resolve_gram(keys) ==
    IF keys = <<>> THEN <<>>
    ELSE << [op |-> "gram", slots |-> ToSet(SlotsOf(keys))] >>

PairOp(keys) ==
    << [op |-> "pair", reads |-> {[slot |-> entries[k].slot, key |-> k] :
                                    k \in ToSet(Hits(keys))}] >>
MutGroupOps(keys, missed, slots) ==
    PairOp(keys) \o resolve_gram(Pending(keys)) \o StoreOps(missed, slots, "full")
GroupOps(keys, missed, slots) ==
    resolve_gram(Pending(keys)) \o StoreOps(missed, slots, "full") \o PairOp(keys)

StartGroup ==
    /\ pc = "group" /\ groups < MaxGroups
    /\ \E S \in Levels[level].sets : \E targets \in SUBSET S \ {{}} :
          LET keys == SetToSortSeq(targets, <)
              missed == Misses(keys)
              slots == Reserve(missed)
          IN  /\ ~(active /\ missed # <<>>)
              /\ batch' = [keys |-> missed, slots |-> slots, lane |-> 0,
                           dense |-> {}]
              /\ next' = next + Len(slots)
              /\ entries' = [k \in DOMAIN entries |->
                    [entries[k] EXCEPT !.pending = @ /\ k \notin targets]]
              /\ ledger' = [ledger EXCEPT !.resolved = @ + Len(Pending(keys))]
              /\ Enqueue(Main, GroupOps(keys, missed, slots))
    /\ groups' = groups + 1
    /\ pc' = "results"
    /\ UNCHANGED <<structured, level, residuals, arena, active, built, content,
                   wrong>>

(* The results are awaited; only then do the misses that got a slot become *)
(* entries.                                                                *)
FinishGroup ==
    /\ pc = "results" /\ Synchronized(Main)
    /\ entries' = Commit(SubSeq(batch.keys, 1, Len(batch.slots)), batch.slots,
                         FALSE)
    /\ batch' = NoBatch
    /\ pc' = "group"
    /\ UNCHANGED <<structured, level, groups, next, residuals, arena, active,
                   built, ledger>> /\ DeviceKept

(* finish_level closes the ledger; an unprefilled level has none.          *)
LedgerHolds ==
    /\ ledger.produced = Cardinality(Planned)
    /\ DOMAIN entries = Planned
    /\ ledger.resolved + Cardinality({k \in DOMAIN entries : entries[k].pending})
           = Cardinality(Planned)

finish_level ==
    /\ pc = "group" /\ groups > 0
    /\ active => Synchronized(Main) /\ LedgerHolds
    /\ active' = FALSE
    /\ pc' = IF level = Len(Levels) THEN "close" ELSE "level"
    /\ UNCHANGED <<structured, level, groups, entries, next, residuals, arena,
                   built, ledger, batch>> /\ DeviceKept

(* An exception leaves the device running.                                 *)
Throws ==
    /\ pc \notin {"close", "done"}
    /\ pc' = "close"
    /\ UNCHANGED <<structured, level, groups, entries, next, residuals, arena,
                   active, built, ledger, batch>> /\ DeviceKept

(* The destructor joins the lanes and the stream before anything is freed. *)

Destroy ==
    /\ pc = "close" /\ \A s \in Streams : Synchronized(s)
    /\ arena' = FALSE
    /\ pc' = "done"
    /\ UNCHANGED <<structured, level, groups, entries, next, residuals, active,
                   built, ledger, batch>> /\ DeviceKept

-----------------------------------------------------------------------------
(* The device.                                                             *)

DeviceStep(s) ==
    /\ queue[s] # <<>>
    /\ LET o == Head(queue[s])
       IN  /\ o.op = "join" => Synchronized(o.lane)
           /\ content' = CASE o.op = "store" ->
                                [content EXCEPT ![o.slot] =
                                   [key |-> o.key, form |-> o.form]]
                           [] o.op = "gram" ->
                                [i \in DOMAIN content |->
                                   IF i \in o.slots
                                   THEN [content[i] EXCEPT !.form = "full"]
                                   ELSE content[i]]
                           [] OTHER -> content
           /\ wrong' = \/ wrong
                       \/ o.op = "eig" /\ level \in DOMAIN Levels
                          /\ Levels[level].prefilled /\ ~arena
                       \/ o.op = "pair" /\ \E r \in o.reads :
                             content[r.slot] # [key |-> r.key, form |-> "full"]
    /\ queue' = [queue EXCEPT ![s] = Tail(@)]
    /\ UNCHANGED host

HostStep ==
    \/ begin_level \/ PlainLevel \/ store_residual \/ BuildDense \/ SubmitWave
    \/ ReadLane \/ DenseFallback \/ CommitWave \/ Built \/ StartGroup
    \/ FinishGroup \/ finish_level \/ Destroy

Done == pc = "done" /\ UNCHANGED vars

Next == HostStep \/ Throws \/ Done \/ \E s \in Streams : DeviceStep(s)

Spec == Init /\ [][Next]_vars

-----------------------------------------------------------------------------
(* The device never evaluates a pair from a slot that does not hold all    *)
(* four fields of the component meant, and never reads a residual after    *)
(* the arena is freed, in whatever order the streams run and wherever the  *)
(* host throws.                                                            *)
ReadsComplete == ~wrong

(* A level that is being used was produced completely and counted once:    *)
(* between build and finish the ledger balances, so finish_level's gate    *)
(* can only be closed by a defect, and no look-up of the level misses.     *)
LedgerBalances == active /\ built /\ pc = "group" => LedgerHolds

(* A slot belongs to one component: two entries never share a slot, and no *)
(* entry has a slot that will be handed out again.                         *)
SlotsExclusive ==
    /\ \A j, k \in DOMAIN entries : j # k => entries[j].slot # entries[k].slot
    /\ \A k \in DOMAIN entries : entries[k].slot < next
=============================================================================
