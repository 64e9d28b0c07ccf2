--------------------------- MODULE SlotPoolProofs ---------------------------
(***************************************************************************)
(* Proofs about SlotPool for every number of requests, every slot limit    *)
(* and every set of steps that may throw.                                  *)
(*                                                                         *)
(* The inductive invariant IInv says, of each worker, what its place in    *)
(* the loop means for its request, its slot's lease and buffers and the    *)
(* arena's entries; of each copy still on the arena stream, whose it is    *)
(* and that nothing it reads has moved; and of each published entry, that  *)
(* the last copy issued to its place in the arena is its own.  The named   *)
(* properties of SlotPool follow from it.                                  *)
(*                                                                         *)
(* The second half is about what the pool is called from: PrefillPipeline  *)
(* over SetupCache, for every set of keys, every capacity of either tier,  *)
(* every list of levels, width, wave and start.  Its inductive invariant   *)
(* PipeInv says what each list of the cache holds, which contexts have a   *)
(* handle at each step, and how a level's keys are parted between those    *)
(* still to be collected, the windows and what has been optimized.         *)
(***************************************************************************)
EXTENDS MCPipeline, Integers, SequenceTheorems, FiniteSetTheorems,
        WellFoundedInduction, TLAPS

\* Where a worker has a request in hand.
InHand == {"bind", "optimize", "restore", "lock", "copy", "publish", "record",
           "wait", "release", "caught", "error", "sync", "drain", "stuck"}

\* Where its slot's output holds that request's coefficients, under a lease.
Holding == {"restore", "lock", "copy", "publish", "record", "wait", "release",
            "stuck"}

\* Where its slot's output is free.
Free == {"none", "loop", "claim", "bind", "optimize", "done"}

\* Where a copy it issued may still be on the stream.
Reading == {"publish", "record", "wait", "caught", "error", "sync"}

\* Where its request is not in the arena yet.
Before == {"bind", "optimize", "restore", "lock", "copy", "publish"}

Published == {r \in Request : entries[r] # None}

\* A worker has a request in hand exactly inside its loop's body.
HandInv == \A s \in Slot : req[s] # None <=> pc[s] \in InHand

\* Whatever was delivered, published or taken was handed out by the counter.
ClaimInv ==
    /\ \A s \in Slot : req[s] < next
    /\ \A r \in Request : r \in setups \/ entries[r] # None => r < next

\* What a worker's place says of its slot.
LeaseInv ==
    \A s \in Slot :
        /\ pc[s] \in Holding => s \in leased /\ output[s] = req[s]
        /\ pc[s] \in Free => s \notin leased
        /\ pc[s] = "optimize" => bound[s] = req[s]

\* detach_mutex is held exactly between the lock and the record.
MutexInv ==
    \A s \in Slot : pc[s] \in {"copy", "publish", "record"} <=> mutex = s

\* What a worker's place says of its request's entry.
EntryInv ==
    /\ \A s \in Slot : pc[s] \in Before => entries[req[s]] = None
    /\ \A s \in Slot :
        pc[s] \in {"record", "wait", "release"} => entries[req[s]] # None
    /\ \A r \in setups : entries[r] # None

\* The arena's end counts its entries.
SizeInv == size = Cardinality(Published)

\* A copy not executed yet belongs to a worker that still holds its request,
\* its lease and the coefficients; one that waits has it under its event.
PendingInv ==
    \A k \in done + 1 .. Len(stream) :
        LET c == stream[k]
        IN  /\ pc[c.slot] \in Reading /\ c.slot \in leased
            /\ req[c.slot] = c.request /\ output[c.slot] = c.request
            /\ pc[c.slot] = "wait" => k <= event[c.slot]

\* Nothing on the stream will write to offset o.
Settled(o) == \A k \in done + 1 .. Len(stream) : stream[k].offset # o

\* The last write to offset o on the stream is request r's copy.
LastWrite(o, r) ==
    \E k \in done + 1 .. Len(stream) :
        /\ stream[k].offset = o /\ stream[k].request = r
        /\ \A j \in k + 1 .. Len(stream) : stream[j].offset # o

\* The coefficients of r are, or will be, what the arena holds at offset o.
Lands(o, r) == (Settled(o) /\ storage[o] = r) \/ LastWrite(o, r)

\* Every published entry lands, and so does the copy about to be published.
LandInv ==
    /\ \A r \in Request : entries[r] # None =>
            entries[r] <= size /\ Lands(entries[r], r)
    /\ \A s \in Slot : pc[s] = "publish" => Lands(size + 1, req[s])

\* Workers run only while the calling thread starts and joins them.
MainInv ==
    /\ main = "create" => \A s \in Slot : pc[s] = "none"
    /\ main \notin {"create", "spawn", "join", "abort"} => AllJoined
    /\ main \in {"spawn", "join", "abort", "after", "stage"} => live = Slot
    /\ main = "join" => \A s \in Slot : pc[s] # "none"
    /\ main \in {"returned", "thrown"} => live = {}
    /\ uploads \subseteq live

\* A worker stops early only after a cancellation, and a cancellation leaves
\* an error behind or comes from the calling thread.
CancelInv ==
    /\ \A s \in Slot : pc[s] = "done" => cancelled \/ next > NumRequests
    /\ \A s \in Slot : pc[s] \in {"error", "sync", "drain"} => cancelled
    /\ cancelled => \/ error # None
                    \/ \E s \in Slot : pc[s] = "error"
                    \/ main \in {"abort", "unwind", "thrown"}

IInv ==
    /\ TypeOK /\ HandInv /\ ClaimInv /\ EachRequestOnce /\ LeaseInv
    /\ MutexInv /\ EntryInv /\ SizeInv /\ PendingInv /\ LandInv /\ MainInv
    /\ CancelInv /\ ResultComplete

-----------------------------------------------------------------------------
(* The constants.                                                          *)

LEMMA SlotFacts ==
    /\ Slot \subseteq Nat \ {0} /\ None \notin Slot /\ 1 \in Slot
    /\ None \notin Request /\ IsFiniteSet(Request)
    /\ Cardinality(Request) = NumRequests
<1>1. NumRequests \in Nat \ {0} /\ SlotLimit \in Nat \ {0}
  BY RequestsAssumption, SlotsAssumption
<1>2. Slot \subseteq Nat \ {0} /\ None \notin Slot /\ 1 \in Slot /\ None \notin Request
  BY <1>1 DEF Slot, Request, None
<1>3. IsFiniteSet(1 .. NumRequests) /\ Cardinality(1 .. NumRequests) = NumRequests
  BY <1>1, FS_Interval
<1>4. QED
  BY <1>2, <1>3 DEF Request

LEMMA InitHolds == Init => IInv
<1> SUFFICES ASSUME Init PROVE IInv
  OBVIOUS
<1> USE SlotFacts, RequestsAssumption DEF Init, None
<1>1. TypeOK
  <2>1. stream \in Seq(CopyRecord) /\ done \in 0 .. Len(stream)
    OBVIOUS
  <2>2. stage \in 1 .. NumRequests + 1 /\ size \in 0 .. NumRequests
    OBVIOUS
  <2>3. main \in MainStepName /\ pc \in [Slot -> WorkerStep]
    BY DEF MainStepName, WorkerStep
  <2>4. QED
    BY <2>1, <2>2, <2>3 DEF TypeOK
<1>2. HandInv /\ ClaimInv /\ EachRequestOnce /\ LeaseInv /\ MutexInv
  BY DEF HandInv, InHand, ClaimInv, EachRequestOnce, LeaseInv, Holding, Free,
         MutexInv, Request
<1>3. EntryInv /\ PendingInv /\ LandInv /\ MainInv /\ CancelInv /\ ResultComplete
  BY DEF EntryInv, Before, PendingInv, LandInv, MainInv, CancelInv, ResultComplete
<1>4. SizeInv
  <2>1. Published = {}
    BY DEF Published
  <2>2. QED
    BY <2>1, FS_EmptySet DEF SizeInv
<1>5. QED
  BY <1>1, <1>2, <1>3, <1>4 DEF IInv

\* An unpublished request leaves room in the arena.
LEMMA Room ==
    ASSUME TypeOK, SizeInv, NEW r \in Request, entries[r] = None
    PROVE  size < NumRequests
<1>1. IsFiniteSet(Published \cup {r}) /\ IsFiniteSet(Published)
      /\ Cardinality(Published \cup {r}) <= NumRequests
  BY SlotFacts, FS_Subset DEF Published
<1>2. Cardinality(Published \cup {r}) = Cardinality(Published) + 1
  BY <1>1, FS_AddElement DEF Published
<1>3. QED
  BY <1>2, <1>1, RequestsAssumption DEF SizeInv, TypeOK

\* Where a worker can throw; only a body with a request in hand can.
LEMMA ThrowFrom ==
    ASSUME TypeOK, NEW s \in Slot, Throw(s)
    PROVE  pc[s] \in {"bind", "optimize", "lock", "copy", "publish", "record", "wait"}
<1>1. pc[s] \in WorkerStep
  BY DEF TypeOK
<1>2. CASE Refused(s)
  BY <1>2 DEF Refused
<1>3. CASE pc[s] \in MayFail \ {"restore"}
  BY <1>1, <1>3, FailAssumption DEF Steps, WorkerStep
<1>4. QED
  BY <1>2, <1>3 DEF Throw

\* All that a throw changes.
Thrown(s) ==
    /\ pc[s] \in {"bind", "optimize", "lock", "copy", "publish", "record", "wait"}
    /\ pc' = [pc EXCEPT ![s] = "caught"]
    /\ UNCHANGED <<main, stage, live, req, next, cancelled, error, setups,
                   bound, leased, stream, done, event, size, entries>>
    /\ \A t \in Slot : t # s \/ pc[s] # "optimize" => output'[t] = output[t]
    /\ mutex' = IF mutex = s THEN None ELSE mutex
    /\ uploads' \subseteq uploads \cup {s}
    /\ pc[s] # "bind" => uploads' = uploads

LEMMA ThrowMoves ==
    ASSUME TypeOK, NEW s \in Slot, Throw(s)
    PROVE  Thrown(s)
<1>1. pc[s] \in {"bind", "optimize", "lock", "copy", "publish", "record", "wait"}
  BY ThrowFrom
<1>2. QED
  BY <1>1 DEF Thrown, Throw, mainVars, arenaVars, TypeOK

\* Once no worker runs, the device has executed every copy.
LEMMA JoinedMeansDone ==
    ASSUME TypeOK, PendingInv, AllJoined
    PROVE  done = Len(stream)
<1> SUFFICES ASSUME done # Len(stream) PROVE FALSE
  OBVIOUS
<1>1. Len(stream) \in done + 1 .. Len(stream) /\ stream[Len(stream)] \in CopyRecord
  BY DEF TypeOK
<1>2. pc[stream[Len(stream)].slot] \in Reading
  BY <1>1 DEF PendingInv
<1>3. QED
  BY <1>1, <1>2 DEF AllJoined, CopyRecord, Reading

\* Executing a copy does not change who lands at an offset.
LEMMA LandsExecute ==
    ASSUME TypeOK, PendingInv, Execute, NEW o \in Request, NEW r, Lands(o, r)
    PROVE  Lands(o, r)'
<1> DEFINE c == stream[done + 1]
<1>1. done + 1 \in done + 1 .. Len(stream) /\ c \in CopyRecord
      /\ done' = done + 1 /\ stream' = stream
  BY DEF Execute, TypeOK
<1>2. storage' = [storage EXCEPT ![c.offset] = output[c.slot]]
      /\ output[c.slot] = c.request
  BY <1>1 DEF Execute, PendingInv
<1>3. CASE Settled(o) /\ storage[o] = r
  <2>1. c.offset # o
    BY <1>1, <1>3 DEF Settled
  <2>2. QED
    BY <1>1, <1>2, <1>3, <2>1 DEF Lands, Settled, TypeOK
<1>4. CASE LastWrite(o, r)
  <2>1. PICK k \in done + 1 .. Len(stream) :
            /\ stream[k].offset = o /\ stream[k].request = r
            /\ \A j \in k + 1 .. Len(stream) : stream[j].offset # o
    BY <1>4 DEF LastWrite
  <2>2. CASE k = done + 1
    <3>1. storage'[o] = r
      BY <1>2, <2>1, <2>2 DEF TypeOK
    <3>2. Settled(o)'
      BY <1>1, <2>1, <2>2 DEF Settled
    <3>3. QED
      BY <3>1, <3>2 DEF Lands
  <2>3. CASE k # done + 1
    <3>1. k \in done' + 1 .. Len(stream')
      BY <1>1, <2>3 DEF TypeOK
    <3>2. LastWrite(o, r)'
      BY <1>1, <2>1, <3>1 DEF LastWrite
    <3>3. QED
      BY <3>2 DEF Lands
  <2>4. QED
    BY <2>2, <2>3
<1>5. QED
  BY <1>3, <1>4 DEF Lands

\* A step that leaves the stream and the arena alone, and puts no worker
\* before its publication, leaves every landing as it is.
LEMMA LandFrame ==
    ASSUME LandInv, UNCHANGED <<stream, done, storage, entries, size>>,
           \A s \in Slot : pc'[s] = "publish" => pc[s] = "publish" /\ req'[s] = req[s]
    PROVE  LandInv'
<1>1. ASSUME NEW o, NEW r, Lands(o, r) PROVE Lands(o, r)'
  BY <1>1 DEF Lands, Settled, LastWrite
<1>2. ASSUME NEW s \in Slot, pc'[s] = "publish" PROVE Lands(size + 1, req[s])'
  <2>1. Lands(size + 1, req[s])
    BY <1>2 DEF LandInv
  <2>2. size' + 1 = size + 1 /\ req'[s] = req[s]
    BY <1>2
  <2>3. QED
    BY <2>1, <2>2 DEF Lands, Settled, LastWrite
<1>3. ASSUME NEW r \in Request, entries'[r] # None
      PROVE  entries'[r] <= size' /\ Lands(entries[r], r)'
  <2>1. entries[r] <= size /\ Lands(entries[r], r)
    BY <1>3 DEF LandInv
  <2>2. QED
    BY <2>1 DEF Lands, Settled, LastWrite
<1>4. QED
  BY <1>2, <1>3 DEF LandInv

\* The calling thread's own moves touch neither the workers nor the arena.
LEMMA MainMoves ==
    ASSUME \/ CreateSlot \/ Created \/ Spawned \/ Join \/ AfterWork \/ StageDone
           \/ StageRestoreFails \/ Leave \/ UNCHANGED vars
    PROVE  UNCHANGED <<workerVars, slotVars, arenaVars>>
BY DEF CreateSlot, Created, Spawned, Join, AfterWork, StageDone,
       StageRestoreFails, Leave, vars





\* Types are preserved.  A copy lands in the storage set aside for the level
\* because the arena's end counts the entries and this one is still missing.
LEMMA TypeStep ==
    ASSUME TypeOK, HandInv, EntryInv, SizeInv, [Next]_vars
    PROVE  TypeOK'
<1> USE DEF Goto, Main, mainVars, workerVars, slotVars, arenaVars, TypeOK
<1>1. ASSUME NEW s \in Slot, Loop(s) PROVE TypeOK'
  BY <1>1, SlotFacts DEF Loop, WorkerStep
<1>2. ASSUME NEW s \in Slot, Claim(s) PROVE TypeOK'
  <2>1. next \in Nat \ {0} /\ NumRequests \in Nat
    BY RequestsAssumption DEF TypeOK
  <2>2. next > NumRequests \/ next \in Request
    BY <2>1 DEF Request
  <2>3. QED
    BY <1>2, <2>1, <2>2
       DEF Claim, Goto, mainVars, slotVars, arenaVars, WorkerStep, TypeOK
<1>3. ASSUME NEW s \in Slot, Bind(s) PROVE TypeOK'
  BY <1>3, SlotFacts DEF Bind, WorkerStep
<1>4. ASSUME NEW s \in Slot, Optimize(s) PROVE TypeOK'
  BY <1>4, SlotFacts DEF Optimize, WorkerStep
<1>5. ASSUME NEW s \in Slot, Restore(s) PROVE TypeOK'
  BY <1>5, SlotFacts DEF Restore, WorkerStep
<1>6. ASSUME NEW s \in Slot, Lock(s) PROVE TypeOK'
  BY <1>6, SlotFacts DEF Lock, None, WorkerStep
<1>7. ASSUME NEW s \in Slot, Copy(s) PROVE TypeOK'
  <2>1. req[s] \in Request /\ entries[req[s]] = None
    BY <1>7 DEF Copy, Goto, HandInv, InHand, EntryInv, Before, TypeOK
  <2>2. size + 1 \in Request
    BY <2>1, Room, RequestsAssumption DEF TypeOK, Request
  <2>3. [slot |-> s, request |-> req[s], offset |-> size + 1] \in CopyRecord
    BY <2>1, <2>2 DEF CopyRecord
  <2>4. stream' \in Seq(CopyRecord) /\ Len(stream') = Len(stream) + 1
    BY <1>7, <2>3 DEF Copy, TypeOK
  <2>5. QED
    BY <1>7, <2>4 DEF Copy, Goto, mainVars, slotVars, WorkerStep, TypeOK
<1>8. ASSUME NEW s \in Slot, Publish(s) PROVE TypeOK'
  <2>1. req[s] \in Request /\ entries[req[s]] = None
    BY <1>8 DEF Publish, Goto, HandInv, InHand, TypeOK
  <2>2. size + 1 \in Request /\ size + 1 \in 0 .. NumRequests
    BY <2>1, Room, RequestsAssumption DEF TypeOK, Request
  <2>3. QED
    BY <1>8, <2>1, <2>2 DEF Publish, Goto, mainVars, slotVars, WorkerStep, TypeOK
<1>9. ASSUME NEW s \in Slot, Record(s) PROVE TypeOK'
  BY <1>9, SlotFacts DEF Record, None, WorkerStep
<1>10. ASSUME NEW s \in Slot, Wait(s) PROVE TypeOK'
  BY <1>10, SlotFacts DEF Wait, WorkerStep
<1>11. ASSUME NEW s \in Slot, Release(s) PROVE TypeOK'
  <2>1. req[s] \in Request
    BY <1>11 DEF Release, Goto, HandInv, InHand, TypeOK
  <2>2. QED
    BY <1>11, <2>1 DEF Release, Goto, mainVars, arenaVars, WorkerStep, TypeOK
<1>12. ASSUME NEW s \in Slot, Cancel(s) PROVE TypeOK'
  BY <1>12, SlotFacts DEF Cancel, WorkerStep
<1>13. ASSUME NEW s \in Slot, KeepError(s) PROVE TypeOK'
  BY <1>13, SlotFacts DEF KeepError, None, WorkerStep
<1>14. ASSUME NEW s \in Slot, Synchronize(s) PROVE TypeOK'
  BY <1>14, SlotFacts DEF Synchronize, WorkerStep
<1>15. ASSUME NEW s \in Slot, Drain(s) PROVE TypeOK'
  BY <1>15, SlotFacts DEF Drain, None, WorkerStep
<1>16. ASSUME NEW s \in Slot, Throw(s) PROVE TypeOK'
  BY <1>16, SlotFacts DEF Throw, Refused, None, WorkerStep
<1>17. ASSUME NEW s \in Slot, RestoreFails(s) PROVE TypeOK'
  BY <1>17, SlotFacts DEF RestoreFails, WorkerStep
<1>18. CASE CreateSlot
  BY <1>18, SlotFacts DEF CreateSlot, MainStepName
<1>19. CASE Created
  BY <1>19, SlotFacts DEF Created, MainStepName
<1>20. CASE Spawn
  BY <1>20, SlotFacts, SMTT(40) DEF Spawn, WorkerStep
<1>21. CASE Spawned
  BY <1>21, SlotFacts DEF Spawned, MainStepName
<1>22. CASE SpawnFails
  BY <1>22, SlotFacts DEF SpawnFails, MainStepName
<1>23. CASE Join
  BY <1>23, SlotFacts DEF Join, AllJoined, None, MainStepName
<1>24. CASE AfterWork
  BY <1>24, SlotFacts DEF AfterWork, MainStepName
<1>25. CASE StageA
  <2>1. stage \in Request /\ stage + 1 \in 1 .. NumRequests + 1
    BY <1>25, RequestsAssumption DEF StageA, TypeOK, Request
  <2>2. storage[entries[stage]] \in Request \cup {None}
    BY <1>25, <2>1 DEF StageA, TypeOK
  <2>3. QED
    BY <1>25, <2>1, <2>2, SlotFacts
       DEF StageA, Main, workerVars, arenaVars, MainStepName, TypeOK
<1>26. CASE StageDone
  BY <1>26, SlotFacts DEF StageDone, MainStepName
<1>27. CASE MainFails
  BY <1>27, SlotFacts DEF MainFails, MainRefused, MainStepName
<1>28. CASE StageRestoreFails
  BY <1>28, SlotFacts DEF StageRestoreFails, MainStepName
<1>29. CASE DestroySlot
  BY <1>29, SlotFacts DEF DestroySlot, Destroy, MainStepName
<1>30. CASE Leave
  BY <1>30, SlotFacts DEF Leave, MainStepName
<1>31. CASE Execute
  <2>1. done + 1 \in 0 .. Len(stream) /\ stream[done + 1] \in CopyRecord
    BY <1>31 DEF Execute, TypeOK
  <2>2. output[stream[done + 1].slot] \in Request \cup {None}
    BY <2>1 DEF CopyRecord, TypeOK
  <2>3. storage' \in [Request -> Request \cup {None}]
    BY <1>31, <2>2 DEF Execute, TypeOK
  <2>4. QED
    BY <1>31, <2>1, <2>3 DEF Execute, mainVars, workerVars, slotVars, TypeOK
<1>32. CASE UNCHANGED vars
  BY <1>32, SlotFacts DEF vars
<1>33. QED
  BY <1>1, <1>2, <1>3, <1>4, <1>5, <1>6, <1>7, <1>8, <1>9, <1>10, <1>11, <1>12,
     <1>13, <1>14, <1>15, <1>16, <1>17, <1>18, <1>19, <1>20, <1>21, <1>22,
     <1>23, <1>24, <1>25, <1>26, <1>27, <1>28, <1>29, <1>30, <1>31, <1>32
     DEF Next, MainStep, Worker, Ended

\* A request is handed out once and stays with its worker until it is
\* delivered, or until a cancelled worker drops it.
LEMMA RequestStep ==
    ASSUME TypeOK, HandInv, ClaimInv, EachRequestOnce, CancelInv, [Next]_vars
    PROVE  HandInv' /\ ClaimInv' /\ EachRequestOnce'
<1> USE DEF Goto, Main, mainVars, workerVars, slotVars, arenaVars, TypeOK,
            HandInv, ClaimInv, EachRequestOnce, InHand
<1> DEFINE Goal == HandInv' /\ ClaimInv' /\ EachRequestOnce'
<1>1. ASSUME NEW s \in Slot, Loop(s) PROVE Goal
  BY <1>1 DEF Loop
<1>2. ASSUME NEW s \in Slot, Claim(s) PROVE Goal
  <2>1. next \in Nat \ {0} /\ req[s] = None /\ NumRequests \in Nat
    BY <1>2, RequestsAssumption DEF Claim, Goto, TypeOK, HandInv, InHand
  <2>2. CASE next > NumRequests
    <3>1. req' = req /\ pc' = [pc EXCEPT ![s] = "done"] /\ next' = next + 1
          /\ UNCHANGED <<setups, cancelled, entries>>
      BY <1>2, <2>1, <2>2 DEF Claim, Goto, arenaVars, TypeOK
    <3>2. \A r \in Request : r < next
      BY <2>1, <2>2 DEF Request
    <3>3. QED
      BY <1>2, <2>1, <3>1, <3>2, SlotFacts
         DEF Claim, Goto, TypeOK, HandInv, ClaimInv, EachRequestOnce, InHand,
             None, Request
  <2>3. CASE ~(next > NumRequests)
    <3>1. next \in Request
      BY <2>1, <2>3 DEF Request
    <3>2. req' = [req EXCEPT ![s] = next] /\ pc' = [pc EXCEPT ![s] = "bind"]
          /\ next' = next + 1 /\ UNCHANGED <<setups, cancelled, entries>>
      BY <1>2, <2>3 DEF Claim, Goto, arenaVars
    <3>3. HandInv'
      BY <1>2, <3>1, <3>2, SlotFacts DEF HandInv, InHand, TypeOK
    <3>4. ClaimInv'
      BY <2>1, <3>1, <3>2, SlotFacts DEF ClaimInv, TypeOK, None, Request
    <3>5. EachRequestOnce'
      <4>1. \A t \in Slot : req[t] # next
        BY <2>1 DEF ClaimInv
      <4>2. next \notin setups
        BY <2>1, <3>1 DEF ClaimInv
      <4>3. \A t \in Slot : req'[t] = IF t = s THEN next ELSE req[t]
        BY <3>2 DEF TypeOK
      <4>4. \A r \in Request : r < next' => r < next \/ r = next
        BY <2>1, <3>2 DEF Request
      <4>5. \A r \in Request : r < next' => \/ r \in setups'
                                            \/ \E t \in Slot : req'[t] = r
                                            \/ cancelled'
        <5> TAKE r \in Request
        <5>1. CASE r = next
          BY <4>3, <5>1
        <5>2. CASE r < next /\ \E t \in Slot : req[t] = r
          BY <2>1, <4>3, <5>2, SlotFacts
        <5>3. QED
          BY <3>2, <4>4, <5>1, <5>2 DEF EachRequestOnce
      <4>6. QED
        BY <3>2, <4>1, <4>2, <4>3, <4>5 DEF EachRequestOnce
    <3>6. QED
      BY <3>3, <3>4, <3>5
  <2>4. QED
    BY <2>2, <2>3
<1>3. ASSUME NEW s \in Slot, Bind(s) PROVE Goal
  BY <1>3 DEF Bind
<1>4. ASSUME NEW s \in Slot, Optimize(s) PROVE Goal
  BY <1>4 DEF Optimize
<1>5. ASSUME NEW s \in Slot, Restore(s) PROVE Goal
  BY <1>5 DEF Restore
<1>6. ASSUME NEW s \in Slot, Lock(s) PROVE Goal
  BY <1>6 DEF Lock, None
<1>7. ASSUME NEW s \in Slot, Copy(s) PROVE Goal
  BY <1>7 DEF Copy
<1>8. ASSUME NEW s \in Slot, Publish(s) PROVE Goal
  BY <1>8 DEF Publish, None, Request
<1>9. ASSUME NEW s \in Slot, Record(s) PROVE Goal
  BY <1>9 DEF Record, None
<1>10. ASSUME NEW s \in Slot, Wait(s) PROVE Goal
  BY <1>10 DEF Wait
<1>11. ASSUME NEW s \in Slot, Release(s) PROVE Goal
  BY <1>11, SlotFacts DEF Release, None
<1>12. ASSUME NEW s \in Slot, Cancel(s) PROVE Goal
  BY <1>12 DEF Cancel
<1>13. ASSUME NEW s \in Slot, KeepError(s) PROVE Goal
  BY <1>13 DEF KeepError, None
<1>14. ASSUME NEW s \in Slot, Synchronize(s) PROVE Goal
  BY <1>14 DEF Synchronize
<1>15. ASSUME NEW s \in Slot, Drain(s) PROVE Goal
  BY <1>15, SlotFacts DEF Drain, None, CancelInv
<1>16. ASSUME NEW s \in Slot, Throw(s) PROVE Goal
  <2>1. Thrown(s)
    <3> HIDE DEF TypeOK
    <3> QED
      BY <1>16, ThrowMoves
  <2> QED
    BY <2>1, SlotFacts DEF Thrown
<1>17. ASSUME NEW s \in Slot, RestoreFails(s) PROVE Goal
  BY <1>17 DEF RestoreFails
<1>18. CASE Spawn
  BY <1>18 DEF Spawn
<1>19. CASE SpawnFails
  BY <1>19 DEF SpawnFails
<1>20. CASE StageA
  BY <1>20 DEF StageA, None
<1>21. CASE MainFails
  BY <1>21 DEF MainFails, MainRefused
<1>22. CASE DestroySlot
  BY <1>22 DEF DestroySlot, Destroy
<1>23. CASE Execute
  BY <1>23 DEF Execute
<1>24. CASE UNCHANGED <<workerVars, slotVars, arenaVars>>
  BY <1>24
<1>25. QED
  BY <1>1, <1>2, <1>3, <1>4, <1>5, <1>6, <1>7, <1>8, <1>9, <1>10, <1>11, <1>12,
     <1>13, <1>14, <1>15, <1>16, <1>17, <1>18, <1>19, <1>20, <1>21, <1>22,
     <1>23, <1>24, MainMoves
     DEF Next, MainStep, Worker, Ended

\* A slot's output is leased from its optimization to the release, and its
\* geometry and coefficients are the request's; the mutex covers the store.
LEMMA LeaseStep ==
    ASSUME TypeOK, HandInv, LeaseInv, MutexInv, MainInv, [Next]_vars
    PROVE  LeaseInv' /\ MutexInv'
<1> USE DEF Goto, Main, mainVars, workerVars, slotVars, arenaVars, TypeOK,
            LeaseInv, MutexInv, Holding, Free
<1> DEFINE Goal == LeaseInv' /\ MutexInv'
<1>1. ASSUME NEW s \in Slot, Loop(s) PROVE Goal
  BY <1>1, SlotFacts DEF Loop
<1>2. ASSUME NEW s \in Slot, Claim(s) PROVE Goal
  BY <1>2, SlotFacts DEF Claim, None
<1>3. ASSUME NEW s \in Slot, Bind(s) PROVE Goal
  BY <1>3, SlotFacts DEF Bind
<1>4. ASSUME NEW s \in Slot, Optimize(s) PROVE Goal
  BY <1>4, SlotFacts DEF Optimize
<1>5. ASSUME NEW s \in Slot, Restore(s) PROVE Goal
  BY <1>5, SlotFacts DEF Restore
<1>6. ASSUME NEW s \in Slot, Lock(s) PROVE Goal
  BY <1>6, SlotFacts DEF Lock, None
<1>7. ASSUME NEW s \in Slot, Copy(s) PROVE Goal
  BY <1>7, SlotFacts DEF Copy
<1>8. ASSUME NEW s \in Slot, Publish(s) PROVE Goal
  BY <1>8, SlotFacts DEF Publish, None
<1>9. ASSUME NEW s \in Slot, Record(s) PROVE Goal
  BY <1>9, SlotFacts DEF Record, None
<1>10. ASSUME NEW s \in Slot, Wait(s) PROVE Goal
  BY <1>10, SlotFacts DEF Wait
<1>11. ASSUME NEW s \in Slot, Release(s) PROVE Goal
  BY <1>11, SlotFacts DEF Release, None
<1>12. ASSUME NEW s \in Slot, Cancel(s) PROVE Goal
  BY <1>12, SlotFacts DEF Cancel
<1>13. ASSUME NEW s \in Slot, KeepError(s) PROVE Goal
  BY <1>13, SlotFacts DEF KeepError, None
<1>14. ASSUME NEW s \in Slot, Synchronize(s) PROVE Goal
  BY <1>14, SlotFacts DEF Synchronize
<1>15. ASSUME NEW s \in Slot, Drain(s) PROVE Goal
  BY <1>15, SlotFacts DEF Drain, None
<1>16. ASSUME NEW s \in Slot, Throw(s) PROVE Goal
  <2>1. Thrown(s)
    <3> HIDE DEF TypeOK
    <3> QED
      BY <1>16, ThrowMoves
  <2> QED
    BY <2>1, SlotFacts DEF Thrown
<1>17. ASSUME NEW s \in Slot, RestoreFails(s) PROVE Goal
  BY <1>17, SlotFacts DEF RestoreFails
<1>18. CASE Spawn
  BY <1>18, SlotFacts DEF Spawn
<1>19. CASE SpawnFails
  BY <1>19, SlotFacts DEF SpawnFails
<1>20. CASE StageA
  BY <1>20, SlotFacts DEF StageA, None, MainInv, AllJoined
<1>21. CASE MainFails
  BY <1>21, SlotFacts DEF MainFails, MainRefused
<1>22. CASE DestroySlot
  BY <1>22, SlotFacts DEF DestroySlot, Destroy
<1>23. CASE Execute
  BY <1>23, SlotFacts DEF Execute
<1>24. CASE UNCHANGED <<workerVars, slotVars, arenaVars>>
  BY <1>24, SlotFacts
<1>25. QED
  BY <1>1, <1>2, <1>3, <1>4, <1>5, <1>6, <1>7, <1>8, <1>9, <1>10, <1>11, <1>12,
     <1>13, <1>14, <1>15, <1>16, <1>17, <1>18, <1>19, <1>20, <1>21, <1>22,
     <1>23, <1>24, MainMoves
     DEF Next, MainStep, Worker, Ended

\* Entries follow the requests, and the arena's end counts them.
LEMMA EntryStep ==
    ASSUME TypeOK, HandInv, ClaimInv, EachRequestOnce, EntryInv, SizeInv,
           [Next]_vars
    PROVE  EntryInv' /\ SizeInv'
<1> USE DEF Goto, Main, mainVars, workerVars, slotVars, arenaVars, TypeOK,
            EntryInv, SizeInv, Published, Before
<1> DEFINE Goal == EntryInv' /\ SizeInv'
<1>1. ASSUME NEW s \in Slot, Loop(s) PROVE Goal
  BY <1>1, SlotFacts DEF Loop
<1>2. ASSUME NEW s \in Slot, Claim(s) PROVE Goal
  <2>1. \A r \in Request : r >= next => entries[r] = None
    BY DEF ClaimInv, TypeOK, Request
  <2>2. next > NumRequests \/ next \in Request
    BY RequestsAssumption DEF TypeOK, Request
  <2>3. EntryInv'
    BY <1>2, <2>1, <2>2
       DEF Claim, Goto, mainVars, slotVars, arenaVars, EntryInv, Before, TypeOK
  <2>4. QED
    BY <1>2, <2>3 DEF Claim, arenaVars, SizeInv, Published
<1>3. ASSUME NEW s \in Slot, Bind(s) PROVE Goal
  BY <1>3, SlotFacts DEF Bind
<1>4. ASSUME NEW s \in Slot, Optimize(s) PROVE Goal
  BY <1>4, SlotFacts DEF Optimize
<1>5. ASSUME NEW s \in Slot, Restore(s) PROVE Goal
  BY <1>5, SlotFacts DEF Restore
<1>6. ASSUME NEW s \in Slot, Lock(s) PROVE Goal
  BY <1>6, SlotFacts DEF Lock, None
<1>7. ASSUME NEW s \in Slot, Copy(s) PROVE Goal
  BY <1>7, SlotFacts DEF Copy
<1>8. ASSUME NEW s \in Slot, Publish(s) PROVE Goal
  <2>1. req[s] \in Request /\ entries[req[s]] = None /\ size + 1 # None
    BY <1>8 DEF Publish, Goto, HandInv, InHand, TypeOK, None
  <2>2. EntryInv'
    BY <1>8, <2>1
       DEF Publish, Goto, mainVars, slotVars, EntryInv, Before, HandInv, InHand,
           EachRequestOnce, TypeOK
  <2>3. Published' = Published \cup {req[s]} /\ req[s] \notin Published
    BY <1>8, <2>1 DEF Publish, Published, TypeOK
  <2>4. IsFiniteSet(Published)
    BY SlotFacts, FS_Subset DEF Published
  <2>5. Cardinality(Published') = size + 1
    <3> HIDE DEF Published
    <3>1. Cardinality(Published \cup {req[s]}) = Cardinality(Published) + 1
      BY <2>3, <2>4, FS_AddElement
    <3> QED
      BY <2>3, <3>1
  <2>6. QED
    BY <1>8, <2>2, <2>5 DEF Publish, SizeInv
<1>9. ASSUME NEW s \in Slot, Record(s) PROVE Goal
  BY <1>9, SlotFacts DEF Record, None
<1>10. ASSUME NEW s \in Slot, Wait(s) PROVE Goal
  BY <1>10, SlotFacts DEF Wait
<1>11. ASSUME NEW s \in Slot, Release(s) PROVE Goal
  BY <1>11, SlotFacts DEF Release, None
<1>12. ASSUME NEW s \in Slot, Cancel(s) PROVE Goal
  BY <1>12, SlotFacts DEF Cancel
<1>13. ASSUME NEW s \in Slot, KeepError(s) PROVE Goal
  BY <1>13, SlotFacts DEF KeepError, None
<1>14. ASSUME NEW s \in Slot, Synchronize(s) PROVE Goal
  BY <1>14, SlotFacts DEF Synchronize
<1>15. ASSUME NEW s \in Slot, Drain(s) PROVE Goal
  BY <1>15, SlotFacts DEF Drain, None
<1>16. ASSUME NEW s \in Slot, Throw(s) PROVE Goal
  <2>1. Thrown(s)
    <3> HIDE DEF TypeOK
    <3> QED
      BY <1>16, ThrowMoves
  <2> QED
    BY <2>1, SlotFacts DEF Thrown
<1>17. ASSUME NEW s \in Slot, RestoreFails(s) PROVE Goal
  BY <1>17, SlotFacts DEF RestoreFails
<1>18. CASE Spawn
  BY <1>18, SlotFacts DEF Spawn
<1>19. CASE SpawnFails
  BY <1>19, SlotFacts DEF SpawnFails
<1>20. CASE StageA
  BY <1>20, SlotFacts DEF StageA, None
<1>21. CASE MainFails
  BY <1>21, SlotFacts DEF MainFails, MainRefused
<1>22. CASE DestroySlot
  BY <1>22, SlotFacts DEF DestroySlot, Destroy
<1>23. CASE Execute
  BY <1>23, SlotFacts DEF Execute
<1>24. CASE UNCHANGED <<workerVars, slotVars, arenaVars>>
  BY <1>24, SlotFacts
<1>25. QED
  BY <1>1, <1>2, <1>3, <1>4, <1>5, <1>6, <1>7, <1>8, <1>9, <1>10, <1>11, <1>12,
     <1>13, <1>14, <1>15, <1>16, <1>17, <1>18, <1>19, <1>20, <1>21, <1>22,
     <1>23, <1>24, MainMoves
     DEF Next, MainStep, Worker, Ended

\* What the stream still has to read stays where it is: the worker whose copy
\* it is neither releases its lease nor rebinds its slot before the copy is
\* executed, because it waits for its event or for the whole stream.
LEMMA PendingStep ==
    ASSUME TypeOK, LeaseInv, HandInv, PendingInv, MainInv, [Next]_vars
    PROVE  PendingInv'
<1> USE DEF Goto, Main, mainVars, workerVars, slotVars, arenaVars, TypeOK,
            PendingInv, Reading
<1>1. ASSUME NEW s \in Slot, Loop(s) PROVE PendingInv'
  BY <1>1, SlotFacts DEF Loop
<1>2. ASSUME NEW s \in Slot, Claim(s) PROVE PendingInv'
  BY <1>2, SlotFacts DEF Claim, None
<1>3. ASSUME NEW s \in Slot, Bind(s) PROVE PendingInv'
  BY <1>3, SlotFacts DEF Bind
<1>4. ASSUME NEW s \in Slot, Optimize(s) PROVE PendingInv'
  BY <1>4, SlotFacts DEF Optimize
<1>5. ASSUME NEW s \in Slot, Restore(s) PROVE PendingInv'
  BY <1>5, SlotFacts DEF Restore
<1>6. ASSUME NEW s \in Slot, Lock(s) PROVE PendingInv'
  BY <1>6, SlotFacts DEF Lock, None
<1>7. ASSUME NEW s \in Slot, Copy(s) PROVE PendingInv'
  <2>1. pc[s] = "copy" /\ s \in leased /\ output[s] = req[s]
    BY <1>7 DEF Copy, Goto, LeaseInv, Holding
  <2>2. pc' = [pc EXCEPT ![s] = "publish"]
        /\ UNCHANGED <<done, leased, req, output, event>>
    BY <1>7 DEF Copy, Goto, slotVars
  <2>3. Len(stream') = Len(stream) + 1 /\ Len(stream) \in Nat
        /\ stream'[Len(stream) + 1] =
              [slot |-> s, request |-> req[s], offset |-> size + 1]
        /\ \A k \in 1 .. Len(stream) : stream'[k] = stream[k]
    BY <1>7 DEF Copy, TypeOK
  <2>4. SUFFICES ASSUME NEW k \in done + 1 .. Len(stream) + 1
                 PROVE  LET c == stream'[k]
                        IN  /\ pc'[c.slot] \in Reading /\ c.slot \in leased
                            /\ req[c.slot] = c.request /\ output[c.slot] = c.request
                            /\ pc'[c.slot] = "wait" => k <= event[c.slot]
    BY <2>2, <2>3 DEF PendingInv
  <2>5. CASE k = Len(stream) + 1
    BY <2>1, <2>2, <2>3, <2>5 DEF Reading, TypeOK
  <2>6. CASE k \in done + 1 .. Len(stream)
    <3>1. stream'[k] = stream[k]
      BY <2>3, <2>6 DEF TypeOK
    <3>2. stream[k].slot # s
      BY <2>1, <2>6 DEF PendingInv, Reading
    <3>3. QED
      BY <2>2, <2>6, <3>1, <3>2 DEF PendingInv, TypeOK
  <2>7. QED
    BY <2>3, <2>5, <2>6 DEF TypeOK
<1>8. ASSUME NEW s \in Slot, Publish(s) PROVE PendingInv'
  BY <1>8, SlotFacts DEF Publish, None
<1>9. ASSUME NEW s \in Slot, Record(s) PROVE PendingInv'
  BY <1>9, SlotFacts DEF Record, None
<1>10. ASSUME NEW s \in Slot, Wait(s) PROVE PendingInv'
  BY <1>10, SlotFacts DEF Wait
<1>11. ASSUME NEW s \in Slot, Release(s) PROVE PendingInv'
  BY <1>11, SlotFacts DEF Release, None
<1>12. ASSUME NEW s \in Slot, Cancel(s) PROVE PendingInv'
  BY <1>12, SlotFacts DEF Cancel
<1>13. ASSUME NEW s \in Slot, KeepError(s) PROVE PendingInv'
  BY <1>13, SlotFacts DEF KeepError, None
<1>14. ASSUME NEW s \in Slot, Synchronize(s) PROVE PendingInv'
  BY <1>14, SlotFacts DEF Synchronize
<1>15. ASSUME NEW s \in Slot, Drain(s) PROVE PendingInv'
  BY <1>15, SlotFacts DEF Drain, None
<1>16. ASSUME NEW s \in Slot, Throw(s) PROVE PendingInv'
  <2>1. Thrown(s)
    <3> HIDE DEF TypeOK
    <3> QED
      BY <1>16, ThrowMoves
  <2>2. ASSUME NEW k \in done + 1 .. Len(stream)
        PROVE  LET c == stream[k]
               IN  /\ pc'[c.slot] \in Reading /\ c.slot \in leased
                   /\ req[c.slot] = c.request /\ output'[c.slot] = c.request
                   /\ pc'[c.slot] = "wait" => k <= event[c.slot]
    <3>1. stream[k] \in CopyRecord
      BY DEF TypeOK
    <3>2. stream[k].slot \in Slot
      BY <3>1 DEF CopyRecord
    <3>3. /\ pc[stream[k].slot] \in Reading /\ stream[k].slot \in leased
          /\ req[stream[k].slot] = stream[k].request
          /\ output[stream[k].slot] = stream[k].request
          /\ pc[stream[k].slot] = "wait" => k <= event[stream[k].slot]
      BY DEF PendingInv
    <3>4. CASE stream[k].slot = s
      BY <2>1, <3>3, <3>4 DEF Thrown, TypeOK, Reading
    <3>5. CASE stream[k].slot # s
      BY <2>1, <3>2, <3>3, <3>5 DEF Thrown, TypeOK
    <3> QED
      BY <3>4, <3>5
  <2> QED
    BY <2>1, <2>2 DEF Thrown, PendingInv
<1>17. ASSUME NEW s \in Slot, RestoreFails(s) PROVE PendingInv'
  BY <1>17, SlotFacts DEF RestoreFails
<1>18. CASE Spawn
  BY <1>18, SlotFacts DEF Spawn
<1>19. CASE SpawnFails
  BY <1>19, SlotFacts DEF SpawnFails
<1>20. CASE StageA
  BY <1>20, SlotFacts DEF StageA, None
<1>21. CASE MainFails
  BY <1>21, SlotFacts DEF MainFails, MainRefused
<1>22. CASE DestroySlot
  BY <1>22, SlotFacts DEF DestroySlot, Destroy
<1>23. CASE Execute
  BY <1>23, SlotFacts DEF Execute
<1>24. CASE UNCHANGED <<workerVars, slotVars, arenaVars>>
  BY <1>24, SlotFacts
<1>25. QED
  BY <1>1, <1>2, <1>3, <1>4, <1>5, <1>6, <1>7, <1>8, <1>9, <1>10, <1>11, <1>12,
     <1>13, <1>14, <1>15, <1>16, <1>17, <1>18, <1>19, <1>20, <1>21, <1>22,
     <1>23, <1>24, MainMoves
     DEF Next, MainStep, Worker, Ended

\* No copy overwrites a published entry: each goes to the free end of the
\* arena, under the mutex until the entry is published.
LEMMA LandStep ==
    ASSUME TypeOK, HandInv, MutexInv, EntryInv, SizeInv, PendingInv, LandInv,
           [Next]_vars
    PROVE  LandInv'
<1>1. ASSUME NEW s \in Slot, Loop(s) PROVE LandInv'
  BY <1>1, LandFrame DEF Loop, Goto, mainVars, slotVars, arenaVars, TypeOK
<1>2. ASSUME NEW s \in Slot, Claim(s) PROVE LandInv'
  BY <1>2, LandFrame DEF Claim, Goto, mainVars, slotVars, arenaVars, None,
         TypeOK
<1>3. ASSUME NEW s \in Slot, Bind(s) PROVE LandInv'
  BY <1>3, LandFrame DEF Bind, Goto, mainVars, arenaVars, TypeOK
<1>4. ASSUME NEW s \in Slot, Optimize(s) PROVE LandInv'
  BY <1>4, LandFrame DEF Optimize, Goto, mainVars, arenaVars, TypeOK
<1>5. ASSUME NEW s \in Slot, Restore(s) PROVE LandInv'
  BY <1>5, LandFrame DEF Restore, Goto, mainVars, slotVars, arenaVars, TypeOK
<1>6. ASSUME NEW s \in Slot, Lock(s) PROVE LandInv'
  BY <1>6, LandFrame DEF Lock, Goto, mainVars, slotVars, arenaVars, None,
         TypeOK
<1>7. ASSUME NEW s \in Slot, Copy(s) PROVE LandInv'
  <2>1. Len(stream') = Len(stream) + 1 /\ Len(stream) \in Nat /\ done \in Nat
        /\ stream'[Len(stream) + 1] =
              [slot |-> s, request |-> req[s], offset |-> size + 1]
        /\ \A k \in 1 .. Len(stream) : stream'[k] = stream[k]
    BY <1>7 DEF Copy, TypeOK
  <2>2. pc[s] = "copy" /\ pc' = [pc EXCEPT ![s] = "publish"]
        /\ UNCHANGED <<done, req, storage, entries, size>>
    BY <1>7 DEF Copy, Goto
  <2>3. ASSUME NEW r \in Request, entries[r] # None PROVE Lands(entries[r], r)'
    <3>1. entries[r] # size + 1 /\ Lands(entries[r], r)
      BY <2>3 DEF LandInv, TypeOK
    <3>2. CASE Settled(entries[r]) /\ storage[entries[r]] = r
      BY <2>1, <2>2, <3>1, <3>2 DEF Lands, Settled
    <3>3. CASE LastWrite(entries[r], r)
      <4>1. PICK k \in done + 1 .. Len(stream) :
                /\ stream[k].offset = entries[r] /\ stream[k].request = r
                /\ \A j \in k + 1 .. Len(stream) : stream[j].offset # entries[r]
        BY <3>3 DEF LastWrite
      <4>2. k \in done' + 1 .. Len(stream') /\ stream'[k] = stream[k]
        BY <2>1, <2>2
      <4>3. \A j \in k + 1 .. Len(stream') : stream'[j].offset # entries[r]
        BY <2>1, <3>1, <4>1
      <4>4. QED
        BY <2>2, <4>1, <4>2, <4>3 DEF Lands, LastWrite
    <3>4. QED
      BY <3>1, <3>2, <3>3 DEF Lands
  <2>4. ASSUME NEW t \in Slot, pc'[t] = "publish" PROVE Lands(size + 1, req[t])'
    <3>1. t = s
      BY <2>2, <2>4 DEF MutexInv, TypeOK
    <3>2. Len(stream) + 1 \in done' + 1 .. Len(stream')
      BY <2>1, <2>2 DEF TypeOK
    <3>3. QED
      BY <2>1, <2>2, <3>1, <3>2 DEF Lands, LastWrite
  <2>5. QED
    BY <2>2, <2>3, <2>4 DEF LandInv
<1>8. ASSUME NEW s \in Slot, Publish(s) PROVE LandInv'
  <2>1. pc[s] = "publish" /\ pc' = [pc EXCEPT ![s] = "record"]
        /\ size' = size + 1 /\ entries' = [entries EXCEPT ![req[s]] = size + 1]
        /\ UNCHANGED <<req, stream, done, storage>>
    BY <1>8 DEF Publish, Goto
  <2>2. ASSUME NEW r \in Request, entries'[r] # None
        PROVE  (entries[r] <= size /\ Lands(entries[r], r))'
    <3>1. CASE r = req[s]
      <4>1. entries'[r] = size + 1 /\ Lands(size + 1, r)
        BY <2>1, <3>1 DEF LandInv, TypeOK
      <4>2. entries'[r] <= size'
        BY <2>1, <4>1 DEF TypeOK
      <4>3. Lands(entries[r], r)'
        BY <2>1, <4>1 DEF Lands, Settled, LastWrite
      <4>4. QED
        BY <4>2, <4>3
    <3>2. CASE r # req[s]
      <4>1. entries'[r] = entries[r] /\ entries[r] <= size /\ Lands(entries[r], r)
        BY <2>1, <2>2, <3>2 DEF LandInv, TypeOK
      <4>2. entries[r] \in Request
        BY <2>2, <4>1 DEF TypeOK
      <4>3. entries'[r] <= size'
        BY <2>1, <4>1, <4>2 DEF TypeOK, Request
      <4>4. Lands(entries[r], r)'
        BY <2>1, <4>1 DEF Lands, Settled, LastWrite
      <4>5. QED
        BY <4>3, <4>4
    <3>3. QED
      BY <3>1, <3>2
  <2>4. \A t \in Slot : pc'[t] # "publish"
    BY <2>1 DEF MutexInv, TypeOK
  <2>5. QED
    BY <2>2, <2>4 DEF LandInv
<1>9. ASSUME NEW s \in Slot, Record(s) PROVE LandInv'
  BY <1>9, LandFrame DEF Record, Goto, mainVars, slotVars, None, TypeOK
<1>10. ASSUME NEW s \in Slot, Wait(s) PROVE LandInv'
  BY <1>10, LandFrame DEF Wait, Goto, mainVars, slotVars, arenaVars, TypeOK
<1>11. ASSUME NEW s \in Slot, Release(s) PROVE LandInv'
  BY <1>11, LandFrame DEF Release, Goto, mainVars, arenaVars, None, TypeOK
<1>12. ASSUME NEW s \in Slot, Cancel(s) PROVE LandInv'
  BY <1>12, LandFrame DEF Cancel, Goto, mainVars, slotVars, arenaVars, TypeOK
<1>13. ASSUME NEW s \in Slot, KeepError(s) PROVE LandInv'
  BY <1>13, LandFrame DEF KeepError, Goto, mainVars, slotVars, arenaVars, None,
         TypeOK
<1>14. ASSUME NEW s \in Slot, Synchronize(s) PROVE LandInv'
  BY <1>14, LandFrame DEF Synchronize, Goto, mainVars, slotVars, arenaVars,
         TypeOK
<1>15. ASSUME NEW s \in Slot, Drain(s) PROVE LandInv'
  BY <1>15, LandFrame DEF Drain, Goto, mainVars, arenaVars, None, TypeOK
<1>16. ASSUME NEW s \in Slot, Throw(s) PROVE LandInv'
  BY <1>16, LandFrame DEF Throw, Refused, mainVars, arenaVars, None, TypeOK
<1>17. ASSUME NEW s \in Slot, RestoreFails(s) PROVE LandInv'
  BY <1>17, LandFrame DEF RestoreFails, Goto, mainVars, slotVars, arenaVars,
         TypeOK
<1>18. CASE Spawn
  BY <1>18, LandFrame DEF Spawn, Main, slotVars, arenaVars, TypeOK
<1>19. CASE SpawnFails
  BY <1>19, LandFrame DEF SpawnFails, Main, slotVars, arenaVars, TypeOK
<1>20. CASE StageA
  BY <1>20, LandFrame DEF StageA, Main, workerVars, arenaVars, None, TypeOK
<1>21. CASE MainFails
  BY <1>21, LandFrame DEF MainFails, MainRefused, workerVars, arenaVars,
         TypeOK
<1>22. CASE DestroySlot
  BY <1>22, LandFrame DEF DestroySlot, Destroy, workerVars, arenaVars, TypeOK
<1>23. CASE Execute
  <2>1. UNCHANGED <<pc, req, entries, size>>
    BY <1>23 DEF Execute, workerVars
  <2>2. \A o, r \in Request : Lands(o, r) => Lands(o, r)'
    BY <1>23, LandsExecute
  <2>3. ASSUME NEW r \in Request, entries[r] # None
        PROVE  entries[r] <= size /\ Lands(entries[r], r)'
    <3>1. entries[r] \in Request /\ entries[r] <= size /\ Lands(entries[r], r)
      BY <2>3 DEF LandInv, TypeOK
    <3>2. PICK o \in Request : o = entries[r]
      BY <3>1
    <3>3. Lands(o, r)
      BY <3>1, <3>2
    <3>4. Lands(o, r)'
      BY <2>2, <3>3
    <3>5. o = entries'[r]
      BY <2>1, <3>2
    <3>6. QED
      BY <3>1, <3>4, <3>5 DEF Lands, Settled, LastWrite
  <2>4. ASSUME NEW s \in Slot, pc[s] = "publish" PROVE Lands(size + 1, req[s])'
    <3>1. req[s] \in Request /\ entries[req[s]] = None
      BY <2>4 DEF HandInv, InHand, EntryInv, Before, TypeOK
    <3>2. size + 1 \in Request
      BY <3>1, Room, RequestsAssumption DEF TypeOK, Request
    <3>3. Lands(size + 1, req[s])
      BY <2>4 DEF LandInv
    <3>4. QED
      BY <2>1, <2>2, <3>1, <3>2, <3>3 DEF Lands, Settled, LastWrite
  <2>5. QED
    BY <2>1, <2>3, <2>4 DEF LandInv
<1>24. CASE UNCHANGED <<workerVars, slotVars, arenaVars>>
  BY <1>24, LandFrame DEF workerVars, arenaVars
<1>25. QED
  BY <1>1, <1>2, <1>3, <1>4, <1>5, <1>6, <1>7, <1>8, <1>9, <1>10, <1>11, <1>12,
     <1>13, <1>14, <1>15, <1>16, <1>17, <1>18, <1>19, <1>20, <1>21, <1>22,
     <1>23, <1>24, MainMoves
     DEF Next, MainStep, Worker, Ended

\* The calling thread leaves the workers' part of the call only once they are
\* joined, and a cancellation leaves an error or comes from itself.
LEMMA MainStepInv ==
    ASSUME TypeOK, MainInv, CancelInv, [Next]_vars
    PROVE  MainInv' /\ CancelInv'
<1> USE DEF Goto, Main, mainVars, workerVars, slotVars, arenaVars, TypeOK,
            MainInv, CancelInv, AllJoined
<1> DEFINE Goal == MainInv' /\ CancelInv'
<1>1. ASSUME NEW s \in Slot, Loop(s) PROVE Goal
  BY <1>1, SlotFacts DEF Loop
<1>2. ASSUME NEW s \in Slot, Claim(s) PROVE Goal
  <2>1. pc' = [pc EXCEPT ![s] = IF next > NumRequests THEN "done" ELSE "bind"]
        /\ next' = next + 1 /\ UNCHANGED <<main, live, cancelled, error, uploads>>
        /\ pc[s] = "claim"
    BY <1>2 DEF Claim, Goto, mainVars, slotVars
  <2>2. MainInv'
    BY <2>1 DEF MainInv, AllJoined, TypeOK
  <2>3. next > NumRequests => next + 1 > NumRequests
    BY RequestsAssumption DEF TypeOK
  <2>4. CancelInv'
    BY <2>1, <2>3 DEF CancelInv, TypeOK
  <2>5. QED
    BY <2>2, <2>4
<1>3. ASSUME NEW s \in Slot, Bind(s) PROVE Goal
  BY <1>3, SlotFacts DEF Bind
<1>4. ASSUME NEW s \in Slot, Optimize(s) PROVE Goal
  BY <1>4, SlotFacts DEF Optimize
<1>5. ASSUME NEW s \in Slot, Restore(s) PROVE Goal
  BY <1>5, SlotFacts DEF Restore
<1>6. ASSUME NEW s \in Slot, Lock(s) PROVE Goal
  BY <1>6, SlotFacts, SMTT(40) DEF Lock, None
<1>7. ASSUME NEW s \in Slot, Copy(s) PROVE Goal
  BY <1>7, SlotFacts DEF Copy
<1>8. ASSUME NEW s \in Slot, Publish(s) PROVE Goal
  BY <1>8, SlotFacts DEF Publish, None
<1>9. ASSUME NEW s \in Slot, Record(s) PROVE Goal
  BY <1>9, SlotFacts, SMTT(40) DEF Record, None
<1>10. ASSUME NEW s \in Slot, Wait(s) PROVE Goal
  BY <1>10, SlotFacts DEF Wait
<1>11. ASSUME NEW s \in Slot, Release(s) PROVE Goal
  BY <1>11, SlotFacts, SMTT(40) DEF Release, None
<1>12. ASSUME NEW s \in Slot, Cancel(s) PROVE Goal
  BY <1>12, SlotFacts DEF Cancel
<1>13. ASSUME NEW s \in Slot, KeepError(s) PROVE Goal
  BY <1>13, SlotFacts DEF KeepError, None
<1>14. ASSUME NEW s \in Slot, Synchronize(s) PROVE Goal
  BY <1>14, SlotFacts DEF Synchronize
<1>15. ASSUME NEW s \in Slot, Drain(s) PROVE Goal
  BY <1>15, SlotFacts DEF Drain, None
<1>16. ASSUME NEW s \in Slot, Throw(s) PROVE Goal
  <2>1. Thrown(s)
    <3> HIDE DEF TypeOK
    <3> QED
      BY <1>16, ThrowMoves
  <2> QED
    BY <2>1, SlotFacts DEF Thrown
<1>17. ASSUME NEW s \in Slot, RestoreFails(s) PROVE Goal
  BY <1>17, SlotFacts DEF RestoreFails
<1>18. CASE CreateSlot
  BY <1>18, SlotFacts DEF CreateSlot
<1>19. CASE Created
  BY <1>19, SlotFacts DEF Created
<1>20. CASE Spawn
  BY <1>20, SlotFacts DEF Spawn
<1>21. CASE Spawned
  BY <1>21, SlotFacts DEF Spawned
<1>22. CASE SpawnFails
  BY <1>22, SlotFacts DEF SpawnFails
<1>23. CASE Join
  BY <1>23, SlotFacts DEF Join, None
<1>24. CASE AfterWork
  BY <1>24, SlotFacts DEF AfterWork
<1>25. CASE StageA
  BY <1>25, SlotFacts DEF StageA, None
<1>26. CASE StageDone
  BY <1>26, SlotFacts DEF StageDone
<1>27. CASE MainFails
  <2>1. main \in {"create", "after", "stage", "close"}
    BY <1>27, FailAssumption DEF MainFails, MainRefused, TypeOK, MainStepName, Steps
  <2>2. AllJoined /\ uploads' \subseteq live
    BY <1>27, <2>1, SlotFacts DEF MainFails, MainInv, AllJoined
  <2>3. QED
    BY <1>27, <2>2 DEF MainFails, workerVars, MainInv, CancelInv, AllJoined
<1>28. CASE StageRestoreFails
  BY <1>28, SlotFacts DEF StageRestoreFails
<1>29. CASE DestroySlot
  BY <1>29, SlotFacts DEF DestroySlot, Destroy
<1>30. CASE Leave
  BY <1>30, SlotFacts DEF Leave
<1>31. CASE Execute
  BY <1>31, SlotFacts DEF Execute
<1>32. CASE UNCHANGED vars
  BY <1>32, SlotFacts DEF vars
<1>33. QED
  BY <1>1, <1>2, <1>3, <1>4, <1>5, <1>6, <1>7, <1>8, <1>9, <1>10, <1>11, <1>12,
     <1>13, <1>14, <1>15, <1>16, <1>17, <1>18, <1>19, <1>20, <1>21, <1>22,
     <1>23, <1>24, <1>25, <1>26, <1>27, <1>28, <1>29, <1>30, <1>31, <1>32
     DEF Next, MainStep, Worker, Ended

\* Joining every worker without an error finds every request delivered,
\* published and in place; nothing changes that afterwards.
LEMMA CompleteStep ==
    ASSUME TypeOK, HandInv, EachRequestOnce, EntryInv, PendingInv, LandInv,
           MainInv, CancelInv, ResultComplete, [Next]_vars
    PROVE  ResultComplete'
<1> USE DEF Goto, Main, mainVars, workerVars, slotVars, arenaVars,
            ResultComplete
<1>1. ASSUME NEW s \in Slot, Loop(s) PROVE ResultComplete'
  BY <1>1 DEF Loop, MainInv, AllJoined
<1>2. ASSUME NEW s \in Slot, Claim(s) PROVE ResultComplete'
  BY <1>2 DEF Claim, None, MainInv, AllJoined
<1>3. ASSUME NEW s \in Slot, Bind(s) PROVE ResultComplete'
  BY <1>3 DEF Bind, MainInv, AllJoined
<1>4. ASSUME NEW s \in Slot, Optimize(s) PROVE ResultComplete'
  BY <1>4 DEF Optimize, MainInv, AllJoined
<1>5. ASSUME NEW s \in Slot, Restore(s) PROVE ResultComplete'
  BY <1>5 DEF Restore, MainInv, AllJoined
<1>6. ASSUME NEW s \in Slot, Lock(s) PROVE ResultComplete'
  BY <1>6 DEF Lock, None, MainInv, AllJoined
<1>7. ASSUME NEW s \in Slot, Copy(s) PROVE ResultComplete'
  BY <1>7 DEF Copy, MainInv, AllJoined
<1>8. ASSUME NEW s \in Slot, Publish(s) PROVE ResultComplete'
  BY <1>8 DEF Publish, None, MainInv, AllJoined
<1>9. ASSUME NEW s \in Slot, Record(s) PROVE ResultComplete'
  BY <1>9 DEF Record, None, MainInv, AllJoined
<1>10. ASSUME NEW s \in Slot, Wait(s) PROVE ResultComplete'
  BY <1>10 DEF Wait, MainInv, AllJoined
<1>11. ASSUME NEW s \in Slot, Release(s) PROVE ResultComplete'
  BY <1>11 DEF Release, None, MainInv, AllJoined
<1>12. ASSUME NEW s \in Slot, Cancel(s) PROVE ResultComplete'
  BY <1>12 DEF Cancel, MainInv, AllJoined
<1>13. ASSUME NEW s \in Slot, KeepError(s) PROVE ResultComplete'
  BY <1>13 DEF KeepError, None, MainInv, AllJoined
<1>14. ASSUME NEW s \in Slot, Synchronize(s) PROVE ResultComplete'
  BY <1>14 DEF Synchronize, MainInv, AllJoined
<1>15. ASSUME NEW s \in Slot, Drain(s) PROVE ResultComplete'
  BY <1>15 DEF Drain, None, MainInv, AllJoined
<1>16. ASSUME NEW s \in Slot, Throw(s) PROVE ResultComplete'
  BY <1>16, ThrowFrom DEF Throw, Refused, None, MainInv, AllJoined
<1>17. ASSUME NEW s \in Slot, RestoreFails(s) PROVE ResultComplete'
  BY <1>17 DEF RestoreFails, MainInv, AllJoined
<1>18. CASE CreateSlot
  BY <1>18 DEF CreateSlot
<1>19. CASE Created
  BY <1>19 DEF Created
<1>20. CASE Spawn
  BY <1>20 DEF Spawn
<1>21. CASE Spawned
  BY <1>21 DEF Spawned
<1>22. CASE SpawnFails
  BY <1>22 DEF SpawnFails
<1>23. CASE Join
  <2>1. SUFFICES ASSUME main = "join", error = None, main' = "after" PROVE ResultComplete'
    BY <1>23 DEF Join, ResultComplete
  <2>2. AllJoined /\ UNCHANGED <<setups, entries, storage>>
    BY <1>23 DEF Join, workerVars, arenaVars
  <2>3. \A s \in Slot : pc[s] = "done" /\ req[s] = None
    BY <2>1, <2>2 DEF AllJoined, MainInv, HandInv, InHand
  <2>4. ~cancelled /\ next > NumRequests
    BY <2>1, <2>3, SlotFacts DEF CancelInv
  <2>5. \A r \in Request : r < next
    BY <2>4, RequestsAssumption DEF TypeOK, Request
  <2>6. setups = Request
    <3>1. \A r \in Request : r \in setups
      BY <2>3, <2>4, <2>5, SlotFacts DEF EachRequestOnce
    <3>2. QED
      BY <3>1 DEF TypeOK
  <2>7. ASSUME NEW r \in Request PROVE entries[r] # None /\ storage[entries[r]] = r
    <3>1. entries[r] # None /\ Lands(entries[r], r)
      BY <2>6 DEF EntryInv, LandInv
    <3>2. done = Len(stream) /\ done \in Nat
      BY <2>2, JoinedMeansDone DEF TypeOK
    <3>3. ~LastWrite(entries[r], r)
      BY <3>2 DEF LastWrite
    <3>4. QED
      BY <3>1, <3>3 DEF Lands
  <2>8. QED
    BY <2>2, <2>6, <2>7 DEF ResultComplete
<1>24. CASE AfterWork
  BY <1>24 DEF AfterWork
<1>25. CASE StageA
  BY <1>25 DEF StageA, None
<1>26. CASE StageDone
  BY <1>26 DEF StageDone
<1>27. CASE MainFails
  BY <1>27 DEF MainFails, MainRefused
<1>28. CASE StageRestoreFails
  BY <1>28 DEF StageRestoreFails
<1>29. CASE DestroySlot
  BY <1>29 DEF DestroySlot, Destroy
<1>30. CASE Leave
  BY <1>30 DEF Leave
<1>31. CASE Execute
  <2>1. done # Len(stream) /\ UNCHANGED main
    BY <1>31 DEF Execute, TypeOK, mainVars
  <2>2. ~AllJoined
    BY <2>1, JoinedMeansDone
  <2>3. QED
    BY <2>1, <2>2 DEF MainInv, ResultComplete
<1>32. CASE UNCHANGED vars
  BY <1>32 DEF vars
<1>33. QED
  BY <1>1, <1>2, <1>3, <1>4, <1>5, <1>6, <1>7, <1>8, <1>9, <1>10, <1>11, <1>12,
     <1>13, <1>14, <1>15, <1>16, <1>17, <1>18, <1>19, <1>20, <1>21, <1>22,
     <1>23, <1>24, <1>25, <1>26, <1>27, <1>28, <1>29, <1>30, <1>31, <1>32
     DEF Next, MainStep, Worker, Ended

\* The invariant is inductive.
LEMMA StepHolds == IInv /\ [Next]_vars => IInv'
<1> SUFFICES ASSUME IInv, [Next]_vars PROVE IInv'
  OBVIOUS
<1> USE DEF IInv
<1>1. TypeOK'
  BY TypeStep
<1>2. HandInv' /\ ClaimInv' /\ EachRequestOnce'
  BY RequestStep
<1>3. LeaseInv' /\ MutexInv'
  BY LeaseStep
<1>4. EntryInv' /\ SizeInv'
  BY EntryStep
<1>5. PendingInv'
  BY PendingStep
<1>6. LandInv'
  BY LandStep
<1>7. MainInv' /\ CancelInv'
  BY MainStepInv
<1>8. ResultComplete'
  BY CompleteStep
<1>9. QED
  BY <1>1, <1>2, <1>3, <1>4, <1>5, <1>6, <1>7, <1>8

\* IInv holds of every state of the slot pool.
THEOREM Invariance == Spec => []IInv
<1>1. Init => IInv
  BY InitHolds
<1>2. IInv /\ [Next]_vars => IInv'
  BY StepHolds
<1>3. QED
  BY <1>1, <1>2, PTL DEF Spec

\* Every variable keeps its type: in particular no copy is issued to a place
\* outside the arena storage reserved for the level.
THEOREM TypeCorrect == Spec => []TypeOK
<1>1. IInv => TypeOK
  BY DEF IInv
<1>2. QED
  BY <1>1, Invariance, PTL

\* The shared counter gives each request to one worker, once, and none is
\* lost without a cancellation.
THEOREM RequestsHandedOnce == Spec => []EachRequestOnce
<1>1. IInv => EachRequestOnce
  BY DEF IInv
<1>2. QED
  BY <1>1, Invariance, PTL

\* A worker that runs has its slot.
LEMMA PoolStands == IInv => PoolOutlivesWorkers
<1> SUFFICES ASSUME IInv, NEW s \in Slot, pc[s] \notin {"none", "done"}
             PROVE  s \in live
  BY DEF PoolOutlivesWorkers
<1>1. main \in {"spawn", "join", "abort"}
  BY DEF IInv, MainInv, AllJoined
<1>2. QED
  BY <1>1 DEF IInv, MainInv

\* No path of the calling thread destroys a slot under a running worker.
THEOREM PoolIsJoinedFirst == Spec => []PoolOutlivesWorkers
BY PoolStands, Invariance, PTL

\* "Do not release an output lease until all consumers of it have drained":
\* what the device has still to copy is leased, exists and is intact.
THEOREM LeaseHeldForCopies == Spec => []LeaseCoversCopies
<1>1. IInv => LeaseCoversCopies
  <2> SUFFICES ASSUME IInv, NEW k \in done + 1 .. Len(stream)
               PROVE  /\ stream[k].slot \in live \cap leased
                      /\ output[stream[k].slot] = stream[k].request
    BY DEF LeaseCoversCopies
  <2>1. stream[k] \in CopyRecord
    BY DEF IInv, TypeOK
  <2>2. pc[stream[k].slot] \in Reading /\ stream[k].slot \in leased
        /\ output[stream[k].slot] = stream[k].request
    BY DEF IInv, PendingInv
  <2>3. stream[k].slot \in live
    BY <2>1, <2>2, PoolStands DEF PoolOutlivesWorkers, Reading, CopyRecord
  <2>4. QED
    BY <2>2, <2>3
<1>2. QED
  BY <1>1, Invariance, PTL

\* The checks on leases, keys and the arena's contents never refuse.
THEOREM NothingRefused == Spec => []NoRefusal
<1>1. IInv => NoRefusal
  <2> SUFFICES ASSUME IInv PROVE NoRefusal
    OBVIOUS
  <2>1. ASSUME NEW s \in Slot PROVE ~Refused(s)
    BY DEF IInv, Refused, LeaseInv, Free, EntryInv, Before
  <2>2. ASSUME main \in {"stage", "close"} PROVE leased = {}
    <3>1. \A s \in Slot : pc[s] \in Free
      BY <2>2 DEF IInv, MainInv, AllJoined, Free
    <3>2. QED
      BY <3>1 DEF IInv, LeaseInv, TypeOK
  <2>3. ASSUME main = "stage", stage <= NumRequests PROVE entries[stage] # None
    <3>1. stage \in Request
      BY <2>3, RequestsAssumption DEF IInv, TypeOK, Request
    <3>2. QED
      BY <2>3, <3>1 DEF IInv, ResultComplete
  <2>4. QED
    BY <2>1, <2>2, <2>3 DEF NoRefusal, MainRefused
<1>2. QED
  BY <1>1, Invariance, PTL

\* A call that joins its workers without an error has every request's result,
\* and Stage A finds each request's own coefficients in the arena.
THEOREM ResultsComplete == Spec => []ResultComplete
<1>1. IInv => ResultComplete
  BY DEF IInv
<1>2. QED
  BY <1>1, Invariance, PTL

\* However the call ends, it leaves no thread, slot, lease, upload or copy.
THEOREM EndsQuiesced == Spec => []Quiesced
<1>1. IInv => Quiesced
  <2> SUFFICES ASSUME IInv, main \in {"returned", "thrown"}
               PROVE  /\ AllJoined /\ live = {} /\ leased = {} /\ uploads = {}
                      /\ done = Len(stream)
    BY DEF Quiesced, AllJoined
  <2>1. AllJoined /\ live = {} /\ uploads = {}
    BY DEF IInv, MainInv
  <2>2. leased = {}
    BY <2>1 DEF IInv, AllJoined, LeaseInv, Free, TypeOK
  <2>3. done = Len(stream)
    BY <2>1, JoinedMeansDone DEF IInv
  <2>4. QED
    BY <2>1, <2>2, <2>3
<1>2. QED
  BY <1>1, Invariance, PTL

-----------------------------------------------------------------------------
(* The strict engine's use of prepared contexts: the two-tier cache, and   *)
(* the windows that are in the optimizer while it may evict.               *)

\* A list holds exactly the keys of S, each once.
Lists(s, S) ==
    /\ s \in Seq(Key)
    /\ \A i, j \in 1 .. Len(s) : s[i] = s[j] => i = j
    /\ \A k : k \in S <=> \E i \in 1 .. Len(s) : s[i] = k

LEMMA ListsMeans ==
    ASSUME NEW s \in Seq(Key), NEW S
    PROVE  Lists(s, S) <=> Windows!IsInjective(s) /\ Windows!ToSet(s) = S
<1>1. DOMAIN s = 1 .. Len(s)
  BY LenProperties
<1> QED
  BY <1>1 DEF Lists, Windows!IsInjective, Windows!ToSet

LEMMA ListsFinite ==
    ASSUME NEW s, NEW S, Lists(s, S)
    PROVE  IsFiniteSet(S) /\ Cardinality(S) <= Len(s)
<1>1. s \in Seq(Key) /\ Len(s) \in Nat
  BY LenProperties DEF Lists
<1>2. IsFiniteSet(1 .. Len(s)) /\ Cardinality(1 .. Len(s)) = Len(s)
  BY <1>1, FS_Interval
<1> DEFINE f == [i \in 1 .. Len(s) |-> s[i]]
<1>3. S = {f[i] : i \in 1 .. Len(s)}
  BY DEF Lists
<1>4. f \in Surjection(1 .. Len(s), S)
  BY <1>3 DEF Surjection
<1> HIDE DEF f
<1> QED
  BY <1>2, <1>4, FS_Surjection

LEMMA PushLists ==
    ASSUME NEW s, NEW S, Lists(s, S), NEW k \in Key, k \notin S
    PROVE  /\ Lists(<<k>> \o s, S \cup {k})
           /\ Len(<<k>> \o s) = Len(s) + 1 /\ (<<k>> \o s)[1] = k
           /\ \A i \in 1 .. Len(s) : (<<k>> \o s)[i + 1] = s[i]
<1> DEFINE t == <<k>> \o s
<1>1. s \in Seq(Key) /\ Len(s) \in Nat
  BY LenProperties DEF Lists
<1>2. <<k>> \in Seq(Key) /\ Len(<<k>>) = 1 /\ <<k>>[1] = k
  OBVIOUS
<1>3. /\ t \in Seq(Key) /\ Len(t) = Len(s) + 1
      /\ \A i \in 1 .. Len(s) + 1 : t[i] = IF i <= 1 THEN <<k>>[i] ELSE s[i - 1]
  BY <1>1, <1>2, ConcatProperties
<1> HIDE DEF t
<1>4. t[1] = k /\ \A i \in 1 .. Len(s) : t[i + 1] = s[i]
  BY <1>1, <1>2, <1>3
<1>5. \A i \in 2 .. Len(t) : t[i] = s[i - 1] /\ i - 1 \in 1 .. Len(s)
  BY <1>1, <1>3
<1>6. \A i, j \in 1 .. Len(t) : t[i] = t[j] => i = j
  <2> SUFFICES ASSUME NEW i \in 1 .. Len(t), NEW j \in 1 .. Len(t), t[i] = t[j] PROVE i = j
    OBVIOUS
  <2>1. i \in 2 .. Len(t) => t[i] # k
    BY <1>5 DEF Lists
  <2>2. j \in 2 .. Len(t) => t[j] # k
    BY <1>5 DEF Lists
  <2>3. i = 1 \/ i \in 2 .. Len(t)
    BY <1>1, <1>3
  <2>4. j = 1 \/ j \in 2 .. Len(t)
    BY <1>1, <1>3
  <2>5. CASE i \in 2 .. Len(t) /\ j \in 2 .. Len(t)
    <3>1. i - 1 = j - 1
      BY <1>5, <2>5 DEF Lists
    <3> QED
      BY <1>1, <1>3, <3>1
  <2> QED
    BY <1>4, <2>1, <2>2, <2>3, <2>4, <2>5
<1>7. \A x : x \in S \cup {k} <=> \E i \in 1 .. Len(t) : t[i] = x
  <2>1. ASSUME NEW x \in S PROVE \E i \in 1 .. Len(t) : t[i] = x
    <3>1. PICK i \in 1 .. Len(s) : s[i] = x
      BY DEF Lists
    <3>2. i + 1 \in 1 .. Len(t) /\ t[i + 1] = x
      BY <1>1, <1>3, <1>4, <3>1
    <3> QED
      BY <3>2
  <2>2. 1 \in 1 .. Len(t)
    BY <1>1, <1>3
  <2>3. ASSUME NEW i \in 1 .. Len(t) PROVE t[i] \in S \cup {k}
    <3>1. i = 1 \/ i \in 2 .. Len(t)
      BY <1>1, <1>3
    <3> QED
      BY <1>4, <1>5, <3>1 DEF Lists
  <2> QED
    BY <1>4, <2>1, <2>2, <2>3
<1> QED
  BY <1>3, <1>4, <1>6, <1>7 DEF Lists, t

\* A list without the key at i.
LEMMA EraseLists ==
    ASSUME NEW s, NEW S, Lists(s, S), NEW i \in 1 .. Len(s)
    PROVE  LET t == Windows!RemoveAt(s, i) IN
           /\ Lists(t, S \ {s[i]}) /\ Len(t) = Len(s) - 1
           /\ \A j \in 1 .. Len(s) - 1 : t[j] = IF j < i THEN s[j] ELSE s[j + 1]
<1> DEFINE a == SubSeq(s, 1, i - 1)
           b == SubSeq(s, i + 1, Len(s))
           t == Windows!RemoveAt(s, i)
           n == Len(s)
<1>1. s \in Seq(Key) /\ n \in Nat /\ i \in 1 .. n
  BY LenProperties DEF Lists
<1>2. \A j \in 1 .. n : s[j] \in Key
  BY <1>1, ElementOfSeq
<1>3. /\ a \in Seq(Key) /\ Len(a) = i - 1
      /\ \A j \in 1 .. i - 1 : a[j] = s[j]
  <2>1. \A j \in 1 .. i - 1 : s[j] \in Key
    BY <1>1, <1>2
  <2>2. i - 1 \in Int /\ 1 \in Int
    BY <1>1
  <2>3. /\ a \in Seq(Key) /\ Len(a) = IF 1 <= i - 1 THEN i - 1 - 1 + 1 ELSE 0
        /\ \A j \in 1 .. i - 1 - 1 + 1 : a[j] = s[1 + j - 1]
    BY <2>1, <2>2, SubSeqProperties
  <2> HIDE DEF a
  <2> QED
    BY <1>1, <2>3
<1>4. /\ b \in Seq(Key) /\ Len(b) = n - i
      /\ \A j \in 1 .. n - i : b[j] = s[i + j]
  <2>1. \A j \in i + 1 .. n : s[j] \in Key
    BY <1>1, <1>2
  <2>2. i + 1 \in Int /\ n \in Int
    BY <1>1
  <2>3. /\ b \in Seq(Key) /\ Len(b) = IF i + 1 <= n THEN n - (i + 1) + 1 ELSE 0
        /\ \A j \in 1 .. n - (i + 1) + 1 : b[j] = s[i + 1 + j - 1]
    BY <2>1, <2>2, SubSeqProperties
  <2> HIDE DEF b
  <2> QED
    BY <1>1, <2>3
<1>5. t = a \o b
  BY DEF Windows!RemoveAt
<1> HIDE DEF a, b, t
<1>6. /\ t \in Seq(Key) /\ Len(t) = Len(a) + Len(b)
      /\ \A j \in 1 .. Len(a) + Len(b) : t[j] = IF j <= Len(a) THEN a[j] ELSE b[j - Len(a)]
  BY <1>3, <1>4, <1>5, ConcatProperties
<1>7. Len(t) = n - 1 /\ \A j \in 1 .. n - 1 : t[j] = IF j < i THEN s[j] ELSE s[j + 1]
  <2>1. Len(t) = n - 1
    BY <1>1, <1>3, <1>4, <1>6
  <2>2. ASSUME NEW j \in 1 .. n - 1 PROVE t[j] = IF j < i THEN s[j] ELSE s[j + 1]
    <3>1. CASE j < i
      BY <1>1, <1>3, <1>4, <1>6, <3>1
    <3>2. CASE ~(j < i)
      <4>1. j - (i - 1) \in 1 .. n - i /\ i + (j - (i - 1)) = j + 1
        BY <1>1, <3>2
      <4>a. j \in 1 .. Len(a) + Len(b) /\ ~(j <= Len(a)) /\ Len(a) = i - 1
        BY <1>1, <1>3, <1>4, <3>2
      <4>2. t[j] = b[j - (i - 1)]
        BY <1>6, <4>a
      <4> QED
        BY <1>4, <3>2, <4>1, <4>2
    <3> QED
      BY <3>1, <3>2
  <2> QED
    BY <2>1, <2>2
<1>8. \A j \in 1 .. n - 1 : \E m \in 1 .. n : t[j] = s[m] /\ m # i /\ m = IF j < i THEN j ELSE j + 1
  BY <1>1, <1>7
<1>9. \A j, m \in 1 .. n - 1 : t[j] = t[m] => j = m
  <2> SUFFICES ASSUME NEW j \in 1 .. n - 1, NEW m \in 1 .. n - 1, t[j] = t[m] PROVE j = m
    OBVIOUS
  <2>1. (IF j < i THEN j ELSE j + 1) = (IF m < i THEN m ELSE m + 1)
    BY <1>8 DEF Lists
  <2> QED
    BY <1>1, <2>1
<1>10. \A x : x \in S \ {s[i]} <=> \E j \in 1 .. n - 1 : t[j] = x
  <2>1. ASSUME NEW x \in S \ {s[i]} PROVE \E j \in 1 .. n - 1 : t[j] = x
    <3>1. PICK m \in 1 .. n : s[m] = x
      BY DEF Lists
    <3>2. m # i
      BY <3>1
    <3>3. CASE m < i
      <4>1. m \in 1 .. n - 1 /\ t[m] = x
        BY <1>1, <1>7, <3>1, <3>3
      <4> QED
        BY <4>1
    <3>4. CASE m > i
      <4>1. m - 1 \in 1 .. n - 1 /\ ~(m - 1 < i) /\ (m - 1) + 1 = m
        BY <1>1, <3>4
      <4>2. t[m - 1] = x
        BY <1>7, <3>1, <4>1
      <4> QED
        BY <4>1, <4>2
    <3> QED
      BY <1>1, <3>2, <3>3, <3>4
  <2>2. ASSUME NEW j \in 1 .. n - 1 PROVE t[j] \in S \ {s[i]}
    BY <1>8 DEF Lists
  <2> QED
    BY <2>1, <2>2
<1> QED
  BY <1>6, <1>7, <1>9, <1>10 DEF Lists, t

LEMMA FrontLists ==
    ASSUME NEW s, NEW S, Lists(s, S), Len(s) > 0
    PROVE  /\ Windows!Last(s) = s[Len(s)] /\ s[Len(s)] \in S
           /\ Lists(Windows!Front(s), S \ {s[Len(s)]})
           /\ Len(Windows!Front(s)) = Len(s) - 1
           /\ \A j \in 1 .. Len(s) - 1 : Windows!Front(s)[j] = s[j]
<1> DEFINE t == Windows!Front(s)
           n == Len(s)
<1>1. s \in Seq(Key) /\ n \in Nat /\ n > 0
  BY LenProperties DEF Lists
<1>2. \A j \in 1 .. n - 1 : s[j] \in Key
  BY <1>1, ElementOfSeq
<1>3. /\ t \in Seq(Key) /\ Len(t) = IF 1 <= n - 1 THEN n - 1 - 1 + 1 ELSE 0
      /\ \A j \in 1 .. n - 1 - 1 + 1 : t[j] = s[1 + j - 1]
  BY <1>1, <1>2, SubSeqProperties DEF Windows!Front
<1> HIDE DEF t
<1>4. Len(t) = n - 1 /\ \A j \in 1 .. n - 1 : t[j] = s[j]
  <2>0. Len(t) = IF 1 <= n - 1 THEN n - 1 - 1 + 1 ELSE 0
    BY <1>3
  <2> HIDE DEF n
  <2>1. Len(t) = n - 1
    BY <1>1, <2>0
  <2>2. ASSUME NEW j \in 1 .. n - 1 PROVE t[j] = s[j]
    <3>1. j \in 1 .. n - 1 - 1 + 1 /\ 1 + j - 1 = j
      BY <1>1
    <3> QED
      BY <1>3, <3>1
  <2> QED
    BY <2>1, <2>2
<1>5. \A j, m \in 1 .. Len(t) : t[j] = t[m] => j = m
  BY <1>1, <1>4 DEF Lists
<1>6. \A x : x \in S \ {s[n]} <=> \E j \in 1 .. Len(t) : t[j] = x
  <2>1. ASSUME NEW x \in S \ {s[n]} PROVE \E j \in 1 .. Len(t) : t[j] = x
    <3>1. PICK m \in 1 .. n : s[m] = x
      BY DEF Lists
    <3>2. m # n
      BY <3>1
    <3>3. m \in 1 .. n - 1 /\ t[m] = x
      BY <1>1, <1>4, <3>1, <3>2
    <3> QED
      BY <1>4, <3>3
  <2>2. ASSUME NEW j \in 1 .. Len(t) PROVE t[j] \in S \ {s[n]}
    <3>1. j \in 1 .. n /\ n \in 1 .. n /\ j # n /\ t[j] = s[j]
      BY <1>1, <1>4
    <3> QED
      BY <3>1 DEF Lists
  <2> QED
    BY <2>1, <2>2
<1>7. s[n] \in S
  <2>1. n \in 1 .. n
    BY <1>1
  <2> QED
    BY <2>1 DEF Lists
<1> QED
  BY <1>3, <1>4, <1>5, <1>6, <1>7 DEF Lists, t, Windows!Last

\* Touch moves a key of the list to its front; the others move by one at
\* most.
LEMMA TouchLists ==
    ASSUME NEW s, NEW S, Lists(s, S), NEW k \in S
    PROVE  /\ Lists(Windows!Touch(s, k), S)
           /\ Len(Windows!Touch(s, k)) = Len(s) /\ Windows!Touch(s, k)[1] = k
           /\ \A m \in 2 .. Len(s) : \E j \in 1 .. Len(s) :
                 Windows!Touch(s, k)[m] = s[j] /\ m <= j + 1
<1> DEFINE i == CHOOSE j \in DOMAIN s : s[j] = k
           e == Windows!RemoveAt(s, i)
           t == Windows!Touch(s, k)
           n == Len(s)
<1>1. s \in Seq(Key) /\ n \in Nat /\ DOMAIN s = 1 .. n
  BY LenProperties DEF Lists
<1>2. i \in 1 .. n /\ s[i] = k
  <2>1. \E j \in DOMAIN s : s[j] = k
    BY <1>1 DEF Lists
  <2> QED
    BY <1>1, <2>1
<1>3. t = <<k>> \o e
  BY DEF Windows!Touch
<1> HIDE DEF i
<1>4. /\ Lists(e, S \ {k}) /\ Len(e) = n - 1
      /\ \A j \in 1 .. n - 1 : e[j] = IF j < i THEN s[j] ELSE s[j + 1]
  BY <1>2, EraseLists
<1>5. k \in Key /\ k \notin S \ {k}
  BY <1>1, <1>2, ElementOfSeq
<1> HIDE DEF e, t
<1> DEFINE R == (S \ {k}) \cup {k}
<1>6. /\ Lists(t, R)
      /\ Len(t) = Len(e) + 1 /\ t[1] = k
      /\ \A j \in 1 .. Len(e) : t[j + 1] = e[j]
  BY <1>3, <1>4, <1>5, PushLists
<1>7. R = S
  OBVIOUS
<1> HIDE DEF R
<1>8. ASSUME NEW m \in 2 .. n PROVE \E j \in 1 .. n : t[m] = s[j] /\ m <= j + 1
  <2>1. m - 1 \in 1 .. n - 1 /\ t[m] = e[m - 1]
    <3>1. m - 1 \in 1 .. n - 1 /\ (m - 1) + 1 = m
      BY <1>1
    <3> QED
      BY <1>4, <1>6, <3>1
  <2>2. CASE m - 1 < i
    <3>1. m - 1 \in 1 .. n /\ m <= (m - 1) + 1 /\ t[m] = s[m - 1]
      BY <1>1, <1>4, <2>1, <2>2
    <3> QED
      BY <3>1
  <2>3. CASE ~(m - 1 < i)
    <3>1. m \in 1 .. n /\ m <= m + 1 /\ (m - 1) + 1 = m
      BY <1>1
    <3>2. t[m] = s[(m - 1) + 1]
      BY <1>4, <2>1, <2>3
    <3> QED
      BY <3>1, <3>2
  <2> QED
    BY <2>2, <2>3
<1>9. Lists(t, S) /\ Len(t) = n /\ t[1] = k
  BY <1>1, <1>4, <1>6, <1>7
<1> HIDE DEF n
<1> QED
  BY <1>8, <1>9 DEF t, n

-----------------------------------------------------------------------------
(* The rows: the device tier's list of each class.                         *)

Sizes == Windows!CapacityAssumption

OfClass(S, class) == {k \in S : Windows!ClassOf(k) = class}

Rows(o, E) ==
    /\ o \in [Windows!Class -> Seq(Key)]
    /\ \A class \in Windows!Class :
          /\ Lists(o[class], OfClass(E, class))
          /\ Len(o[class]) <= Windows!Capacity(class)

\* A key is at the front, or where it was, or one place further.
Shifted(s, t, k) ==
    \A i \in 1 .. Len(t) : \/ i = 1 /\ t[i] = k
                           \/ \E j \in 1 .. Len(s) : t[i] = s[j] /\ i <= j + 1

Moved(o, p, k) == \A class \in Windows!Class : Shifted(o[class], p[class], k)

\* The lists of p are prefixes of those of o.
Cut(o, p) ==
    \A class \in Windows!Class :
        \A i \in 1 .. Len(p[class]) : i \in 1 .. Len(o[class]) /\ p[class][i] = o[class][i]

LEMMA Capacities ==
    ASSUME Sizes, NEW class \in Windows!Class
    PROVE  Windows!Capacity(class) \in Nat \ {0}
BY DEF Sizes, Windows!CapacityAssumption, Windows!Capacity, Windows!Class

LEMMA ClassOfIs ==
    ASSUME NEW k
    PROVE  Windows!ClassOf(k) \in Windows!Class
BY DEF Windows!ClassOf, Windows!Class

LEMMA RowLength ==
    ASSUME NEW o, NEW E, Rows(o, E), NEW class \in Windows!Class
    PROVE  o[class] \in Seq(Key) /\ Len(o[class]) \in Nat
<1>1. o[class] \in Seq(Key)
  BY DEF Rows
<1> QED
  BY <1>1, LenProperties

LEMMA CutMoves ==
    ASSUME NEW o, NEW p, NEW q, NEW k, Cut(o, p), Moved(p, q, k)
    PROVE  Moved(o, q, k)
<1> SUFFICES ASSUME NEW class \in Windows!Class, NEW i \in 1 .. Len(q[class])
             PROVE  \/ i = 1 /\ q[class][i] = k
                    \/ \E j \in 1 .. Len(o[class]) : q[class][i] = o[class][j] /\ i <= j + 1
  BY DEF Moved, Shifted
<1>1. CASE i = 1 /\ q[class][i] = k
  BY <1>1
<1>2. ASSUME NEW j \in 1 .. Len(p[class]), q[class][i] = p[class][j], i <= j + 1
      PROVE  \E m \in 1 .. Len(o[class]) : q[class][i] = o[class][m] /\ i <= m + 1
  <2>1. j \in 1 .. Len(o[class]) /\ p[class][j] = o[class][j]
    BY DEF Cut
  <2> QED
    BY <1>2, <2>1
<1> QED
  BY <1>1, <1>2 DEF Moved, Shifted

\* One list replaced, for the keys of its class.
LEMMA OneRow ==
    ASSUME NEW o, NEW E, Rows(o, E), NEW class \in Windows!Class, NEW t, NEW F,
           Lists(t, OfClass(F, class)), Len(t) <= Windows!Capacity(class),
           \A k : Windows!ClassOf(k) # class => (k \in E <=> k \in F)
    PROVE  Rows([o EXCEPT ![class] = t], F)
<1> DEFINE p == [o EXCEPT ![class] = t]
<1>1. o \in [Windows!Class -> Seq(Key)] /\ t \in Seq(Key)
  BY DEF Rows, Lists
<1>2. p \in [Windows!Class -> Seq(Key)] /\ p[class] = t
      /\ \A d \in Windows!Class : d # class => p[d] = o[d]
  BY <1>1
<1> HIDE DEF p
<1>3. ASSUME NEW d \in Windows!Class, d # class
      PROVE  Lists(p[d], OfClass(F, d)) /\ Len(p[d]) <= Windows!Capacity(d)
  <2>1. \A k : k \in OfClass(E, d) <=> k \in OfClass(F, d)
    BY <1>3 DEF OfClass
  <2>2. Lists(o[d], OfClass(E, d)) /\ Len(o[d]) <= Windows!Capacity(d)
    BY DEF Rows
  <2> QED
    BY <1>2, <1>3, <2>1, <2>2 DEF Lists
<1>4. \A d \in Windows!Class :
         Lists(p[d], OfClass(F, d)) /\ Len(p[d]) <= Windows!Capacity(d)
  BY <1>2, <1>3
<1> QED
  BY <1>2, <1>4 DEF Rows, p

LEMMA EvictRow ==
    ASSUME Sizes, NEW o, NEW E, Rows(o, E), NEW class \in Windows!Class,
           Len(o[class]) >= Windows!Capacity(class)
    PROVE  LET v == Windows!Last(o[class])
               p == [o EXCEPT ![class] = Windows!Front(o[class])] IN
           /\ Rows(p, E \ {v}) /\ Cut(o, p)
           /\ Len(p[class]) < Windows!Capacity(class)
           /\ v \in E /\ Windows!ClassOf(v) = class
           /\ Len(o[class]) = Windows!Capacity(class) /\ v = o[class][Len(o[class])]
<1> DEFINE s == o[class]
           t == Windows!Front(s)
           v == Windows!Last(s)
           p == [o EXCEPT ![class] = t]
<1>1. Lists(s, OfClass(E, class)) /\ Len(s) <= Windows!Capacity(class)
  BY DEF Rows
<1>2. Len(s) \in Nat /\ Windows!Capacity(class) \in Nat \ {0}
  BY RowLength, Capacities
<1>3. Len(s) > 0 /\ Len(s) = Windows!Capacity(class)
  BY <1>1, <1>2
<1>4. /\ v = s[Len(s)] /\ v \in OfClass(E, class)
      /\ Lists(t, OfClass(E, class) \ {v})
      /\ Len(t) = Len(s) - 1
      /\ \A j \in 1 .. Len(s) - 1 : t[j] = s[j]
  BY <1>1, <1>3, FrontLists
<1>5. \A d \in Windows!Class : p[d] = IF d = class THEN t ELSE o[d]
  BY DEF Rows
<1>6. DOMAIN p = Windows!Class
  BY DEF Rows
<1> HIDE DEF t, v
<1>7. Lists(t, OfClass(E \ {v}, class))
  BY <1>4 DEF Lists, OfClass
<1>8. \A k : Windows!ClassOf(k) # class => (k \in E <=> k \in E \ {v})
  BY <1>4 DEF OfClass
<1>9. Len(t) <= Windows!Capacity(class) /\ Len(t) < Windows!Capacity(class)
  BY <1>2, <1>3, <1>4
<1> HIDE DEF s
<1>10. Rows(p, E \ {v})
  BY <1>7, <1>8, <1>9, OneRow
<1>11. Cut(o, p)
  <2> SUFFICES ASSUME NEW d \in Windows!Class, NEW i \in 1 .. Len(p[d])
               PROVE  i \in 1 .. Len(o[d]) /\ p[d][i] = o[d][i]
    BY DEF Cut
  <2>1. CASE d = class
    <3>1. p[d] = t /\ o[d] = s
      BY <1>5, <2>1 DEF s
    <3>2. i \in 1 .. Len(s) - 1 /\ i \in 1 .. Len(s)
      BY <1>2, <1>4, <3>1
    <3> QED
      BY <1>4, <3>1, <3>2
  <2>2. CASE d # class
    BY <1>5, <2>2
  <2> QED
    BY <2>1, <2>2
<1>12. Len(p[class]) < Windows!Capacity(class)
  BY <1>5, <1>9
<1>13. v \in E /\ Windows!ClassOf(v) = class
  BY <1>4 DEF OfClass
<1> QED
  BY <1>3, <1>4, <1>10, <1>11, <1>12, <1>13 DEF s, t, v, p

LEMMA PushRow ==
    ASSUME Sizes, NEW o, NEW E, Rows(o, E), NEW k \in Key, k \notin E,
           Len(o[Windows!ClassOf(k)]) < Windows!Capacity(Windows!ClassOf(k))
    PROVE  LET p == [o EXCEPT ![Windows!ClassOf(k)] = <<k>> \o o[Windows!ClassOf(k)]] IN
           Rows(p, E \cup {k}) /\ Moved(o, p, k) /\ p[Windows!ClassOf(k)][1] = k
<1> DEFINE class == Windows!ClassOf(k)
           s == o[class]
           t == <<k>> \o s
           p == [o EXCEPT ![class] = t]
<1>0. class \in Windows!Class
  BY ClassOfIs
<1>1. Lists(s, OfClass(E, class))
  BY <1>0 DEF Rows
<1>2. Len(s) \in Nat /\ Windows!Capacity(class) \in Nat \ {0}
  BY <1>0, RowLength, Capacities
<1>3. k \notin OfClass(E, class)
  BY DEF OfClass
<1>4. /\ Lists(t, OfClass(E, class) \cup {k}) /\ Len(t) = Len(s) + 1 /\ t[1] = k
      /\ \A i \in 1 .. Len(s) : t[i + 1] = s[i]
  BY <1>1, <1>3, PushLists
<1>5. \A d \in Windows!Class : p[d] = IF d = class THEN t ELSE o[d]
  BY DEF Rows
<1>6. \A d \in Windows!Class : Len(o[d]) \in Nat
  BY RowLength
<1> HIDE DEF t
<1>7. Lists(t, OfClass(E \cup {k}, class))
  BY <1>4 DEF Lists, OfClass
<1>8. \A x : Windows!ClassOf(x) # class => (x \in E <=> x \in E \cup {k})
  OBVIOUS
<1>9. Len(t) <= Windows!Capacity(class)
  BY <1>2, <1>4
<1> HIDE DEF s, class
<1>10. Rows(p, E \cup {k})
  BY <1>0, <1>7, <1>8, <1>9, OneRow
<1>11. Moved(o, p, k)
  <2> SUFFICES ASSUME NEW d \in Windows!Class, NEW i \in 1 .. Len(p[d])
               PROVE  \/ i = 1 /\ p[d][i] = k
                      \/ \E j \in 1 .. Len(o[d]) : p[d][i] = o[d][j] /\ i <= j + 1
    BY DEF Moved, Shifted
  <2>1. CASE d = class /\ i = 1
    BY <1>4, <1>5, <2>1
  <2>2. CASE d = class /\ i # 1
    <3>1. p[d] = t /\ o[d] = s
      BY <1>5, <2>2 DEF s
    <3>2. i - 1 \in 1 .. Len(s) /\ (i - 1) + 1 = i /\ i <= (i - 1) + 1
      BY <1>2, <1>4, <2>2, <3>1
    <3>3. t[i] = s[i - 1]
      BY <1>4, <3>2
    <3> QED
      BY <3>1, <3>2, <3>3
  <2>3. CASE d # class
    <3>1. p[d] = o[d] /\ i \in 1 .. Len(o[d]) /\ i <= i + 1
      BY <1>5, <1>6, <2>3
    <3> QED
      BY <3>1
  <2> QED
    BY <2>1, <2>2, <2>3
<1>12. p[class][1] = k
  BY <1>0, <1>4, <1>5
<1> QED
  BY <1>10, <1>11, <1>12 DEF class, s, t, p

LEMMA TouchRow ==
    ASSUME Sizes, NEW o, NEW E, Rows(o, E), NEW k \in E
    PROVE  LET p == [o EXCEPT ![Windows!ClassOf(k)] =
                        Windows!Touch(o[Windows!ClassOf(k)], k)] IN
           Rows(p, E) /\ Moved(o, p, k) /\ p[Windows!ClassOf(k)][1] = k
<1> DEFINE class == Windows!ClassOf(k)
           s == o[class]
           t == Windows!Touch(s, k)
           p == [o EXCEPT ![class] = t]
<1>0. class \in Windows!Class
  BY ClassOfIs
<1>1. Lists(s, OfClass(E, class)) /\ Len(s) <= Windows!Capacity(class)
  BY <1>0 DEF Rows
<1>3. k \in OfClass(E, class)
  BY DEF OfClass
<1>4. /\ Lists(t, OfClass(E, class)) /\ Len(t) = Len(s) /\ t[1] = k
      /\ \A i \in 2 .. Len(s) : \E j \in 1 .. Len(s) : t[i] = s[j] /\ i <= j + 1
  <2> DEFINE S == OfClass(E, class)
  <2>1. Lists(s, S) /\ k \in S
    BY <1>1, <1>3
  <2> HIDE DEF S, s
  <2>2. /\ Lists(Windows!Touch(s, k), S)
        /\ Len(Windows!Touch(s, k)) = Len(s) /\ Windows!Touch(s, k)[1] = k
        /\ \A m \in 2 .. Len(s) : \E j \in 1 .. Len(s) :
               Windows!Touch(s, k)[m] = s[j] /\ m <= j + 1
    BY <2>1, TouchLists
  <2> QED
    BY <2>2 DEF S
<1>5. \A d \in Windows!Class : p[d] = IF d = class THEN t ELSE o[d]
  BY DEF Rows
<1>6. \A d \in Windows!Class : Len(o[d]) \in Nat
  BY RowLength
<1> HIDE DEF t
<1>9. Len(t) <= Windows!Capacity(class)
  BY <1>1, <1>4
<1> HIDE DEF s, class
<1>10. Rows(p, E)
  BY <1>0, <1>4, <1>9, OneRow
<1>11. Moved(o, p, k)
  <2> SUFFICES ASSUME NEW d \in Windows!Class, NEW i \in 1 .. Len(p[d])
               PROVE  \/ i = 1 /\ p[d][i] = k
                      \/ \E j \in 1 .. Len(o[d]) : p[d][i] = o[d][j] /\ i <= j + 1
    BY DEF Moved, Shifted
  <2>1. CASE d = class /\ i = 1
    BY <1>4, <1>5, <2>1
  <2>2. CASE d = class /\ i # 1
    <3>1. p[d] = t /\ o[d] = s
      BY <1>5, <2>2 DEF s
    <3>2. i \in 2 .. Len(s)
      BY <1>4, <1>6, <2>2, <3>1
    <3> QED
      BY <1>4, <3>1, <3>2
  <2>3. CASE d # class
    <3>1. p[d] = o[d] /\ i \in 1 .. Len(o[d]) /\ i <= i + 1
      BY <1>5, <1>6, <2>3
    <3> QED
      BY <3>1
  <2> QED
    BY <2>1, <2>2, <2>3
<1>12. p[class][1] = k
  BY <1>0, <1>4, <1>5
<1> QED
  BY <1>10, <1>11, <1>12 DEF class, s, t, p

-----------------------------------------------------------------------------
(* The cache: what its get() keeps.                                        *)

CacheRecords ==
    [order : [Windows!Class -> Seq(Key)], entries : SUBSET Key,
     live : SUBSET Key, hostOrder : Seq(Key), host : SUBSET Key,
     fixed : SUBSET Key, multi : SUBSET Key]

HostList(c) ==
    /\ Lists(c.hostOrder, c.host) /\ Windows!Cardinality(c.host) <= HostCapacity
    /\ c.entries \subseteq c.host

\* The two tiers agree, and a handle belongs to a context of the device.
Tidy(c) ==
    /\ c \in CacheRecords
    /\ Rows(c.order, c.entries) /\ c.live = c.entries
    /\ HostList(c)
    /\ c.fixed \cup c.multi \subseteq c.entries

\* What left the device tier was the last of a full list of the class.
Expelled(c, d, class) ==
    \A x \in c.entries \ d.entries :
        /\ Windows!ClassOf(x) = class
        /\ x = c.order[class][Windows!Capacity(class)]
        /\ Windows!Capacity(class) \in 1 .. Len(c.order[class])

\* What a get of k does to the cache c.
Taken(c, d, k) ==
    /\ Tidy(d) /\ k \in d.entries
    /\ Moved(c.order, d.order, k) /\ d.order[Windows!ClassOf(k)][1] = k
    /\ Expelled(c, d, Windows!ClassOf(k))
    /\ c.fixed \cap d.entries \subseteq d.fixed
    /\ d.multi = c.multi \cap d.entries

\* No key of X is further down its list than n.
AtMost(c, X, n) ==
    \A class \in Windows!Class :
        \A i \in 1 .. Len(c.order[class]) : c.order[class][i] \in X => i <= n

LEMMA Counts ==
    ASSUME NEW S
    PROVE  Windows!Cardinality(S) = Cardinality(S)
BY Zenon DEF Windows!Cardinality, Cardinality

\* The device tier is smaller than the host tier can be.
LEMMA DeviceSize ==
    ASSUME Sizes, NEW o, NEW E, Rows(o, E)
    PROVE  IsFiniteSet(E) /\ Cardinality(E) < HostCapacity
<1> DEFINE A == OfClass(E, "single")
           B == OfClass(E, "multi")
<1>1. /\ Lists(o["single"], A) /\ Len(o["single"]) <= SingleCapacity
      /\ Lists(o["multi"], B) /\ Len(o["multi"]) <= MultiCapacity
  BY DEF Rows, Windows!Class, Windows!Capacity
<1>2. A \cup B = E
  BY DEF OfClass, Windows!ClassOf
<1> HIDE DEF A, B
<1>3. /\ IsFiniteSet(A) /\ Cardinality(A) <= Len(o["single"])
      /\ IsFiniteSet(B) /\ Cardinality(B) <= Len(o["multi"])
  BY <1>1, ListsFinite
<1>4. /\ IsFiniteSet(A \cup B) /\ IsFiniteSet(A \cap B)
      /\ Cardinality(A \cup B) = Cardinality(A) + Cardinality(B) - Cardinality(A \cap B)
  BY <1>3, FS_Union, FS_Intersection
<1>5. /\ Cardinality(A) \in Nat /\ Cardinality(B) \in Nat /\ Cardinality(A \cap B) \in Nat
  BY <1>3, <1>4, FS_CardinalityType
<1>6. Len(o["single"]) \in Nat /\ Len(o["multi"]) \in Nat
  BY RowLength DEF Windows!Class
<1>7. /\ SingleCapacity \in Nat /\ MultiCapacity \in Nat
      /\ HostCapacity \in Nat /\ HostCapacity > SingleCapacity + MultiCapacity
  BY DEF Sizes, Windows!CapacityAssumption
<1>8. IsFiniteSet(E) /\ Cardinality(E) = Cardinality(A) + Cardinality(B) - Cardinality(A \cap B)
  BY <1>2, <1>4
<1> DEFINE a == Cardinality(A)
           b == Cardinality(B)
           m == Len(o["single"])
           n == Len(o["multi"])
<1>9. /\ a \in Nat /\ b \in Nat /\ m \in Nat /\ n \in Nat
      /\ a <= m /\ b <= n /\ m <= SingleCapacity /\ n <= MultiCapacity
  BY <1>1, <1>3, <1>5, <1>6
<1> HIDE DEF a, b, m, n
<1>10. a + b < HostCapacity
  BY <1>7, <1>9
<1>11. Cardinality(E) = a + b - Cardinality(A \cap B)
  BY <1>8 DEF a, b
<1>12. Cardinality(E) < HostCapacity
  BY <1>5, <1>7, <1>9, <1>10, <1>11
<1> QED
  BY <1>8, <1>12

LEMMA HostCount ==
    ASSUME Sizes, NEW c, HostList(c)
    PROVE  /\ IsFiniteSet(c.host) /\ Cardinality(c.host) \in Nat
           /\ Cardinality(c.host) <= HostCapacity /\ HostCapacity \in Nat
<1>1. IsFiniteSet(c.host)
  BY ListsFinite DEF HostList
<1>2. Cardinality(c.host) <= HostCapacity
  BY Counts DEF HostList
<1> QED
  BY <1>1, <1>2, FS_CardinalityType DEF Sizes, Windows!CapacityAssumption

\* A full host tier has a context that is not on the device.
LEMMA FullHost ==
    ASSUME Sizes, NEW c, Rows(c.order, c.entries), HostList(c),
           Windows!Cardinality(c.host) >= HostCapacity
    PROVE  c.host # c.entries
<1>1. Cardinality(c.entries) < HostCapacity /\ Cardinality(c.entries) \in Nat
  BY DeviceSize, FS_CardinalityType
<1>2. Cardinality(c.host) >= HostCapacity /\ HostCapacity \in Nat
  BY Counts, HostCount
<1> QED
  BY <1>1, <1>2

\* A non-empty set of positions has a last one.
LEMMA LastPosition ==
    ASSUME NEW n \in Nat, NEW S, S \subseteq 1 .. n, S # {}
    PROVE  \E i \in S : \A j \in S : j <= i
<1> DEFINE T == {n - i : i \in S}
<1>0. \A i \in S : i \in Int /\ n - i \in Nat
  OBVIOUS
<1>1. T \subseteq Nat /\ T # {}
  BY <1>0
<1>2. PICK x \in T : \A y \in T : ~(<<y, x>> \in OpToRel(<, Nat))
  <2> HIDE DEF T
  <2> QED
    BY <1>1, NatLessThanWellFounded, WFMin, Zenon
<1>3. PICK i \in S : x = n - i
  BY <1>2
<1>4. ASSUME NEW j \in S PROVE j <= i
  <2>1. n - j \in T
    OBVIOUS
  <2> HIDE DEF T
  <2>2. n - j \in Nat /\ x \in Nat /\ <<n - j, x>> \notin OpToRel(<, Nat)
    BY <1>1, <1>2, <2>1
  <2>3. ~(n - j < x)
    BY <2>2 DEF OpToRel
  <2>4. i \in Int /\ j \in Int /\ n \in Int
    BY <1>0
  <2>5. ~(n - j < n - i)
    BY <1>3, <2>3
  <2> QED
    BY <2>4, <2>5
<1> QED
  BY <1>4

LEMMA HostRoomTidy ==
    ASSUME Sizes, NEW c, Tidy(c)
    PROVE  LET d == Windows!HostRoom(c) IN
           /\ Tidy(d) /\ Windows!Cardinality(d.host) < HostCapacity
           /\ d.order = c.order /\ d.entries = c.entries
           /\ d.fixed = c.fixed /\ d.multi = c.multi
           /\ d.host \subseteq c.host
<1> DEFINE d == Windows!HostRoom(c)
<1>1. c \in CacheRecords /\ Rows(c.order, c.entries) /\ HostList(c)
  BY DEF Tidy
<1>2. /\ IsFiniteSet(c.host) /\ Cardinality(c.host) \in Nat
      /\ Cardinality(c.host) <= HostCapacity /\ HostCapacity \in Nat
  BY <1>1, HostCount
<1>3. CASE ~(Windows!Cardinality(c.host) >= HostCapacity)
  <2>1. d = c
    BY <1>3 DEF Windows!HostRoom
  <2>2. Windows!Cardinality(c.host) < HostCapacity
    BY <1>2, <1>3, Counts
  <2> QED
    BY <2>1, <2>2
<1>4. CASE Windows!Cardinality(c.host) >= HostCapacity
  <2> DEFINE s == c.hostOrder
             dormant == {i \in DOMAIN s : s[i] \notin c.entries}
             p == CHOOSE i \in dormant : \A j \in dormant : j <= i
             x == s[p]
  <2>1. Lists(s, c.host) /\ c.entries \subseteq c.host
    BY <1>1 DEF HostList
  <2>2. s \in Seq(Key) /\ Len(s) \in Nat /\ DOMAIN s = 1 .. Len(s)
    BY <2>1, LenProperties DEF Lists
  <2>a. c.host # c.entries
    BY <1>1, <1>4, FullHost
  <2>3. PICK y \in c.host : y \notin c.entries
    BY <2>1, <2>a
  <2>4. \E i \in 1 .. Len(s) : s[i] = y
    BY <2>1, <2>3 DEF Lists
  <2>5. dormant \subseteq 1 .. Len(s) /\ dormant # {}
    BY <2>2, <2>3, <2>4
  <2>6. \A i \in dormant : s[i] \notin c.entries
    OBVIOUS
  <2>7. \E i \in dormant : \A j \in dormant : j <= i
    <3> HIDE DEF dormant
    <3> QED
      BY <2>2, <2>5, LastPosition
  <2>8. p \in dormant
    BY <2>7
  <2>9. d = [c EXCEPT !.hostOrder = Windows!RemoveAt(s, p), !.host = c.host \ {x}]
    BY <1>4 DEF Windows!HostRoom, Windows!evict_host_one
  <2> HIDE DEF p, dormant
  <2>10. p \in 1 .. Len(s) /\ x \notin c.entries
    BY <2>5, <2>6, <2>8
  <2>11. Lists(Windows!RemoveAt(s, p), c.host \ {x})
    BY <2>1, <2>10, EraseLists
  <2>12. x \in c.host
    BY <2>1, <2>10 DEF Lists
  <2>13. Cardinality(c.host \ {x}) = Cardinality(c.host) - 1
    BY <1>2, <2>12, FS_RemoveElement
  <2>14. Windows!Cardinality(c.host \ {x}) < HostCapacity
    BY <1>2, <2>13, Counts
  <2> DEFINE r == Windows!RemoveAt(s, p)
             h == c.host \ {x}
  <2>15. r \in Seq(Key) /\ h \in SUBSET Key /\ c.entries \subseteq h
    BY <1>1, <2>1, <2>10, <2>11 DEF Lists, CacheRecords
  <2>16. h \subseteq c.host
    OBVIOUS
  <2> HIDE DEF r, h, s
  <2>17. d = [c EXCEPT !.hostOrder = r, !.host = h]
    BY <2>9 DEF r, h
  <2>18. /\ d \in CacheRecords /\ d.hostOrder = r /\ d.host = h
         /\ d.order = c.order /\ d.entries = c.entries /\ d.live = c.live
         /\ d.fixed = c.fixed /\ d.multi = c.multi
    BY <1>1, <2>15, <2>17 DEF CacheRecords
  <2>19. HostList(d)
    <3>1. Windows!Cardinality(h) <= HostCapacity /\ Windows!Cardinality(h) < HostCapacity
      BY <1>2, <2>13, Counts DEF h
    <3> QED
      BY <2>11, <2>15, <2>18, <3>1 DEF HostList, h, r
  <2>20. Tidy(d)
    BY <2>18, <2>19 DEF Tidy
  <2> QED
    BY <2>14, <2>16, <2>18, <2>20 DEF h
<1> QED
  BY <1>3, <1>4
LEMMA DeviceRoomTidy ==
    ASSUME Sizes, NEW c, Tidy(c), NEW class \in Windows!Class
    PROVE  LET d == Windows!DeviceRoom(c, class) IN
           /\ Tidy(d) /\ Cut(c.order, d.order) /\ Expelled(c, d, class)
           /\ Len(d.order[class]) < Windows!Capacity(class)
           /\ d.entries \subseteq c.entries
           /\ d.host = c.host /\ d.hostOrder = c.hostOrder
           /\ d.fixed = c.fixed \cap d.entries /\ d.multi = c.multi \cap d.entries
<1> DEFINE d == Windows!DeviceRoom(c, class)
           s == c.order[class]
<1>1. /\ c \in CacheRecords /\ Rows(c.order, c.entries) /\ HostList(c)
      /\ c.live = c.entries /\ c.fixed \cup c.multi \subseteq c.entries
  BY DEF Tidy
<1>2. s \in Seq(Key) /\ Len(s) \in Nat /\ Windows!Capacity(class) \in Nat \ {0}
  BY <1>1, RowLength, Capacities
<1>3. CASE ~(Len(s) >= Windows!Capacity(class))
  <2>1. d = c
    BY <1>3 DEF Windows!DeviceRoom
  <2>2. Len(s) < Windows!Capacity(class)
    BY <1>2, <1>3
  <2>3. Cut(c.order, c.order) /\ Expelled(c, c, class)
    BY DEF Cut, Expelled
  <2>4. c.fixed = c.fixed \cap c.entries /\ c.multi = c.multi \cap c.entries
    BY <1>1
  <2> QED
    BY <2>1, <2>2, <2>3, <2>4
<1>4. CASE Len(s) >= Windows!Capacity(class)
  <2> DEFINE v == Windows!Last(s)
             p == [c.order EXCEPT ![class] = Windows!Front(s)]
             E == c.entries \ {v}
             f == c.fixed \ {v}
             m == c.multi \ {v}
  <2>1. /\ Rows(p, E) /\ Cut(c.order, p)
        /\ Len(p[class]) < Windows!Capacity(class)
        /\ v \in c.entries /\ Windows!ClassOf(v) = class
        /\ Len(s) = Windows!Capacity(class) /\ v = s[Len(s)]
    BY <1>1, <1>4, EvictRow
  <2>2. d = [[c EXCEPT !.order = p, !.entries = E, !.live = c.live \ {v}]
                EXCEPT !.fixed = f, !.multi = m]
    BY <1>1, <1>4 DEF Windows!DeviceRoom, Windows!evict_one, Windows!close_context, CacheRecords
  <2>3. p \in [Windows!Class -> Seq(Key)]
    BY <2>1 DEF Rows
  <2>4. E \in SUBSET Key /\ f \in SUBSET Key /\ m \in SUBSET Key
        /\ f = c.fixed \cap E /\ m = c.multi \cap E /\ c.live \ {v} = E /\ E \subseteq c.entries
        /\ \A x \in c.entries \ E : x = v
    BY <1>1 DEF CacheRecords
  <2> HIDE DEF p, E, f, m, v, s
  <2>5. /\ d \in CacheRecords /\ d.order = p /\ d.entries = E /\ d.live = E
        /\ d.hostOrder = c.hostOrder /\ d.host = c.host /\ d.fixed = f /\ d.multi = m
    BY <1>1, <2>2, <2>3, <2>4 DEF CacheRecords
  <2> HIDE DEF d
  <2>6. HostList(d)
    BY <1>1, <2>4, <2>5 DEF HostList
  <2>7. Tidy(d)
    BY <2>1, <2>4, <2>5, <2>6 DEF Tidy
  <2>8. Expelled(c, d, class)
    <3>1. Windows!Capacity(class) \in 1 .. Len(s)
      BY <1>2, <2>1
    <3> QED
      BY <2>1, <2>4, <2>5, <3>1 DEF Expelled, s
  <2> QED
    BY <2>1, <2>4, <2>5, <2>7, <2>8 DEF d
<1> QED
  BY <1>3, <1>4 DEF s

\* A context put on the device, in a list with room.
LEMMA OnDeviceMoves ==
    ASSUME Sizes, NEW c, c \in CacheRecords, Rows(c.order, c.entries),
           NEW k \in Key, k \notin c.entries,
           Len(c.order[Windows!ClassOf(k)]) < Windows!Capacity(Windows!ClassOf(k))
    PROVE  LET d == Windows!OnDevice(c, k) IN
           /\ d \in CacheRecords
           /\ Rows(d.order, d.entries) /\ Moved(c.order, d.order, k)
           /\ d.order[Windows!ClassOf(k)][1] = k
           /\ d.entries = c.entries \cup {k} /\ d.live = c.live \cup {k}
           /\ d.hostOrder = c.hostOrder /\ d.host = c.host
           /\ d.fixed = c.fixed /\ d.multi = c.multi
<1> DEFINE class == Windows!ClassOf(k)
           d == Windows!OnDevice(c, k)
           p == [c.order EXCEPT ![class] = <<k>> \o c.order[class]]
           E == c.entries \cup {k}
           L == c.live \cup {k}
<1>1. Rows(p, E) /\ Moved(c.order, p, k) /\ p[class][1] = k
  BY PushRow
<1>2. d = [c EXCEPT !.order = p, !.entries = E, !.live = L]
  BY DEF Windows!OnDevice, CacheRecords
<1>3. p \in [Windows!Class -> Seq(Key)]
  BY <1>1 DEF Rows
<1>4. E \in SUBSET Key /\ L \in SUBSET Key
  BY DEF CacheRecords
<1> HIDE DEF p, E, L
<1>5. /\ d \in CacheRecords /\ d.order = p /\ d.entries = E /\ d.live = L
      /\ d.hostOrder = c.hostOrder /\ d.host = c.host
      /\ d.fixed = c.fixed /\ d.multi = c.multi
  BY <1>2, <1>3, <1>4 DEF CacheRecords
<1> QED
  BY <1>1, <1>5 DEF E, L

LEMMA DeviceHitTakes ==
    ASSUME Sizes, NEW c, Tidy(c), NEW k \in c.entries
    PROVE  Taken(c, Windows!DeviceHit(c, k), k)
<1> DEFINE class == Windows!ClassOf(k)
           d == Windows!DeviceHit(c, k)
           p == [c.order EXCEPT ![class] = Windows!Touch(c.order[class], k)]
           h == Windows!Touch(c.hostOrder, k)
<1>1. /\ c \in CacheRecords /\ Rows(c.order, c.entries) /\ HostList(c)
      /\ c.live = c.entries /\ c.fixed \cup c.multi \subseteq c.entries
  BY DEF Tidy
<1>2. Rows(p, c.entries) /\ Moved(c.order, p, k) /\ p[class][1] = k
  BY <1>1, TouchRow
<1>3. Lists(h, c.host)
  BY <1>1, TouchLists DEF HostList
<1>4. d = [[c EXCEPT !.order = p] EXCEPT !.hostOrder = h]
  BY <1>1 DEF Windows!DeviceHit, Windows!touch_host, CacheRecords
<1>5. p \in [Windows!Class -> Seq(Key)] /\ h \in Seq(Key)
  BY <1>2, <1>3 DEF Rows, Lists
<1> HIDE DEF p, h
<1>6. /\ d \in CacheRecords /\ d.order = p /\ d.entries = c.entries /\ d.live = c.live
      /\ d.hostOrder = h /\ d.host = c.host /\ d.fixed = c.fixed /\ d.multi = c.multi
  BY <1>1, <1>4, <1>5 DEF CacheRecords
<1> HIDE DEF d
<1>7. Tidy(d)
  BY <1>1, <1>2, <1>3, <1>6 DEF Tidy, HostList
<1>8. Expelled(c, d, class)
  BY <1>6 DEF Expelled
<1> QED
  BY <1>1, <1>2, <1>6, <1>7, <1>8 DEF Taken, d

LEMMA HostHitTakes ==
    ASSUME Sizes, NEW c, Tidy(c), NEW k \in c.host, k \notin c.entries
    PROVE  Taken(c, Windows!HostHit(c, k), k)
<1> DEFINE class == Windows!ClassOf(k)
           r == Windows!DeviceRoom(c, class)
           e == Windows!OnDevice(r, k)
           d == Windows!HostHit(c, k)
           h == Windows!Touch(c.hostOrder, k)
           f == e.fixed \cup {k}
<1>0. class \in Windows!Class
  BY ClassOfIs
<1>1. /\ Tidy(r) /\ Cut(c.order, r.order) /\ Expelled(c, r, class)
      /\ Len(r.order[class]) < Windows!Capacity(class)
      /\ r.entries \subseteq c.entries
      /\ r.host = c.host /\ r.hostOrder = c.hostOrder
      /\ r.fixed = c.fixed \cap r.entries /\ r.multi = c.multi \cap r.entries
  BY <1>0, DeviceRoomTidy
<1>2. /\ r \in CacheRecords /\ Rows(r.order, r.entries) /\ HostList(r)
      /\ r.live = r.entries /\ r.fixed \cup r.multi \subseteq r.entries
  BY <1>1 DEF Tidy
<1>3. k \in Key /\ k \notin r.entries
  BY <1>1, <1>2 DEF CacheRecords
<1> HIDE DEF r
<1>4. /\ e \in CacheRecords
      /\ Rows(e.order, e.entries) /\ Moved(r.order, e.order, k)
      /\ e.order[class][1] = k
      /\ e.entries = r.entries \cup {k} /\ e.live = r.live \cup {k}
      /\ e.hostOrder = r.hostOrder /\ e.host = r.host
      /\ e.fixed = r.fixed /\ e.multi = r.multi
  BY <1>1, <1>2, <1>3, OnDeviceMoves
<1> HIDE DEF e
<1>5. Lists(h, c.host)
  BY TouchLists DEF Tidy, HostList
<1>6. d = [[e EXCEPT !.fixed = f] EXCEPT !.hostOrder = h]
  <2>1. [e EXCEPT !.fixed = f].hostOrder = c.hostOrder
    BY <1>1, <1>4 DEF CacheRecords
  <2> QED
    BY <2>1 DEF Windows!HostHit, Windows!touch_host, e, r
<1>7. h \in Seq(Key) /\ f \in SUBSET Key
  BY <1>3, <1>4, <1>5 DEF Lists, CacheRecords
<1> HIDE DEF h, f
<1>8. /\ d \in CacheRecords /\ d.order = e.order /\ d.entries = e.entries /\ d.live = e.live
      /\ d.hostOrder = h /\ d.host = e.host /\ d.fixed = f /\ d.multi = e.multi
  BY <1>4, <1>6, <1>7 DEF CacheRecords
<1> HIDE DEF d
<1>9. HostList(d)
  BY <1>1, <1>2, <1>4, <1>5, <1>8 DEF HostList
<1>10. d.fixed \cup d.multi \subseteq d.entries
  BY <1>2, <1>4, <1>8 DEF f
<1>11. Tidy(d)
  BY <1>2, <1>4, <1>8, <1>9, <1>10 DEF Tidy
<1>12. Expelled(c, d, class)
  BY <1>1, <1>4, <1>8 DEF Expelled
<1>13. Moved(c.order, d.order, k)
  BY <1>1, <1>4, <1>8, CutMoves
<1>14. c.fixed \cap d.entries \subseteq d.fixed /\ d.multi = c.multi \cap d.entries
  <2>1. c.fixed \cup c.multi \subseteq c.entries
    BY DEF Tidy
  <2> QED
    BY <1>1, <1>4, <1>8, <2>1 DEF f
<1> QED
  BY <1>4, <1>8, <1>11, <1>12, <1>13, <1>14 DEF Taken, d

LEMMA MissTakes ==
    ASSUME Sizes, NEW c, Tidy(c), NEW k \in Key, k \notin c.host, NEW deferred \in BOOLEAN
    PROVE  Taken(c, Windows!Miss(c, k, deferred), k)
<1> DEFINE class == Windows!ClassOf(k)
           b == Windows!HostRoom(c)
           r == Windows!DeviceRoom(b, class)
           e == Windows!OnDevice(r, k)
           d == Windows!Miss(c, k, deferred)
           h == <<k>> \o e.hostOrder
           H == e.host \cup {k}
           f == IF deferred THEN e.fixed ELSE e.fixed \cup {k}
<1>0. class \in Windows!Class
  BY ClassOfIs
<1>a. /\ Tidy(b) /\ Windows!Cardinality(b.host) < HostCapacity
      /\ b.order = c.order /\ b.entries = c.entries
      /\ b.fixed = c.fixed /\ b.multi = c.multi
      /\ b.host \subseteq c.host
  BY HostRoomTidy
<1> HIDE DEF b
<1>1. /\ Tidy(r) /\ Cut(b.order, r.order) /\ Expelled(b, r, class)
      /\ Len(r.order[class]) < Windows!Capacity(class)
      /\ r.entries \subseteq b.entries
      /\ r.host = b.host /\ r.hostOrder = b.hostOrder
      /\ r.fixed = b.fixed \cap r.entries /\ r.multi = b.multi \cap r.entries
  BY <1>0, <1>a, DeviceRoomTidy
<1>2. /\ r \in CacheRecords /\ Rows(r.order, r.entries) /\ HostList(r)
      /\ r.live = r.entries /\ r.fixed \cup r.multi \subseteq r.entries
  BY <1>1 DEF Tidy
<1>3. k \notin b.host /\ k \notin r.entries
  <2>1. c.entries \subseteq c.host
    BY DEF Tidy, HostList
  <2> QED
    BY <1>a, <1>1, <2>1
<1> HIDE DEF r
<1>4. /\ e \in CacheRecords
      /\ Rows(e.order, e.entries) /\ Moved(r.order, e.order, k)
      /\ e.order[class][1] = k
      /\ e.entries = r.entries \cup {k} /\ e.live = r.live \cup {k}
      /\ e.hostOrder = r.hostOrder /\ e.host = r.host
      /\ e.fixed = r.fixed /\ e.multi = r.multi
  BY <1>1, <1>2, <1>3, OnDeviceMoves
<1> HIDE DEF e
<1>5. Lists(h, H)
  BY <1>1, <1>2, <1>3, <1>4, PushLists DEF HostList
<1>6. d = [e EXCEPT !.hostOrder = h, !.host = H, !.fixed = f]
  BY <1>4 DEF Windows!Miss, e, r, b, CacheRecords
<1>7. h \in Seq(Key) /\ H \in SUBSET Key /\ f \in SUBSET Key
  BY <1>3, <1>4, <1>5 DEF Lists, CacheRecords
<1>c. Windows!Cardinality(H) <= HostCapacity
  <2>1. IsFiniteSet(e.host) /\ Cardinality(e.host) < HostCapacity
    BY <1>a, <1>1, <1>2, <1>4, HostCount, Counts
  <2>2. Cardinality(H) = Cardinality(e.host) + 1 /\ Cardinality(e.host) \in Nat
    BY <1>1, <1>3, <1>4, <2>1, FS_AddElement, FS_CardinalityType
  <2>3. HostCapacity \in Nat
    BY DEF Sizes, Windows!CapacityAssumption
  <2>4. Cardinality(H) <= HostCapacity
    BY <2>1, <2>2, <2>3
  <2> QED
    BY <2>4, Counts
<1>f. f \subseteq e.fixed \cup {k} /\ e.fixed \subseteq f
  OBVIOUS
<1>h. e.entries \subseteq H
  BY <1>2, <1>4 DEF HostList
<1> HIDE DEF h, f, H
<1>8. /\ d \in CacheRecords /\ d.order = e.order /\ d.entries = e.entries /\ d.live = e.live
      /\ d.hostOrder = h /\ d.host = H /\ d.fixed = f /\ d.multi = e.multi
  BY <1>4, <1>6, <1>7 DEF CacheRecords
<1> HIDE DEF d
<1>9. HostList(d)
  BY <1>c, <1>h, <1>5, <1>8 DEF HostList
<1>10. d.fixed \cup d.multi \subseteq d.entries
  BY <1>2, <1>4, <1>8, <1>f
<1>11. Tidy(d)
  BY <1>2, <1>4, <1>8, <1>9, <1>10 DEF Tidy
<1>12. Expelled(c, d, class)
  BY <1>a, <1>1, <1>4, <1>8 DEF Expelled
<1>13. Moved(c.order, d.order, k)
  BY <1>a, <1>1, <1>4, <1>8, CutMoves
<1>14. c.fixed \cap d.entries \subseteq d.fixed /\ d.multi = c.multi \cap d.entries
  <2>1. c.fixed \cup c.multi \subseteq c.entries
    BY DEF Tidy
  <2>2. k \notin c.entries
    BY DEF Tidy, HostList
  <2> QED
    BY <1>a, <1>1, <1>4, <1>8, <1>f, <2>1, <2>2
<1> QED
  BY <1>4, <1>8, <1>11, <1>12, <1>13, <1>14 DEF Taken, d

LEMMA GetTakes ==
    ASSUME Sizes, NEW c, Tidy(c), NEW k \in Key, NEW deferred \in BOOLEAN
    PROVE  Taken(c, Windows!get(c, k, deferred), k)
BY DeviceHitTakes, HostHitTakes, MissTakes DEF Windows!get

LEMMA GetFailsTidy ==
    ASSUME Sizes, NEW c, Tidy(c), NEW k \in Key
    PROVE  Tidy(Windows!GetFails(c, k))
BY ClassOfIs, DeviceRoomTidy, HostRoomTidy DEF Windows!GetFails

\* A get moves the contexts of a set by at most one place.
LEMMA TakenMoves ==
    ASSUME NEW c, NEW d, NEW k \in Key, Taken(c, d, k),
           NEW X, NEW n \in Nat, AtMost(c, X, n)
    PROVE  AtMost(d, X \cup {k}, n + 1)
<1> SUFFICES ASSUME NEW t \in Windows!Class, NEW i \in 1 .. Len(d.order[t]),
                    d.order[t][i] \in X \cup {k}
             PROVE  i <= n + 1
  BY DEF AtMost
<1> DEFINE p == d.order[t]
           s == c.order[t]
<1>1. \/ i = 1 /\ p[i] = k
      \/ \E j \in 1 .. Len(s) : p[i] = s[j] /\ i <= j + 1
  BY DEF Taken, Moved, Shifted
<1>2. CASE i = 1
  BY <1>2
<1>3. ASSUME NEW j \in 1 .. Len(s), p[i] = s[j], i <= j + 1, i # 1
      PROVE  i <= n + 1
  <2>0. Lists(p, OfClass(d.entries, t))
    BY DEF Taken, Tidy, Rows
  <2>1. CASE p[i] \in X
    <3>1. j <= n
      BY <1>3, <2>1 DEF AtMost
    <3> QED
      BY <1>3, <3>1
  <2>2. CASE p[i] = k /\ t # Windows!ClassOf(k)
    BY <2>0, <2>2 DEF Lists, OfClass
  <2>3. CASE p[i] = k /\ t = Windows!ClassOf(k)
    <3>1. p[1] = k /\ 1 \in 1 .. Len(p) /\ i \in 1 .. Len(p)
      <4>1. Len(p) \in Nat
        BY <2>0, LenProperties DEF Lists
      <4> QED
        BY <2>3, <4>1 DEF Taken
    <3> QED
      BY <1>3, <2>0, <2>3, <3>1 DEF Lists
  <2> QED
    BY <2>1, <2>2, <2>3
<1> QED
  BY <1>1, <1>2, <1>3

\* The contexts of a set stay on the device while fewer than a list's
\* capacity have been taken since.
LEMMA TakenStays ==
    ASSUME Sizes, NEW c, NEW d, NEW k \in Key, Taken(c, d, k),
           NEW X, X \subseteq c.entries, NEW n \in Nat, AtMost(c, X, n),
           n < Windows!Capacity(Windows!ClassOf(k))
    PROVE  X \cup {k} \subseteq d.entries
<1> DEFINE class == Windows!ClassOf(k)
<1>1. class \in Windows!Class /\ Windows!Capacity(class) \in Nat \ {0}
  BY ClassOfIs, Capacities
<1>2. ASSUME NEW x \in X, x \notin d.entries PROVE FALSE
  <2>1. /\ x = c.order[class][Windows!Capacity(class)]
        /\ Windows!Capacity(class) \in 1 .. Len(c.order[class])
    BY <1>2 DEF Taken, Expelled
  <2>2. Windows!Capacity(class) <= n
    BY <1>1, <2>1 DEF AtMost
  <2> QED
    BY <1>1, <2>2
<1> QED
  BY <1>2 DEF Taken

LEMMA AtMostLess ==
    ASSUME NEW c, NEW d, d.order = c.order, NEW X, NEW Y, Y \subseteq X,
           NEW n \in Nat, NEW m \in Nat, n <= m, AtMost(c, X, n)
    PROVE  AtMost(d, Y, m)
BY DEF AtMost

LEMMA NoneAtMost ==
    ASSUME NEW c, NEW n
    PROVE  AtMost(c, {}, n)
BY DEF AtMost

WithHandles(c, f, m) == [c EXCEPT !.fixed = f, !.multi = m]

\* Handles are created for, and released from, contexts of the device.
LEMMA HandlesTidy ==
    ASSUME NEW c, Tidy(c), NEW f, NEW m, f \cup m \subseteq c.entries
    PROVE  /\ Tidy(WithHandles(c, f, m))
           /\ WithHandles(c, f, m).order = c.order
           /\ WithHandles(c, f, m).entries = c.entries
           /\ WithHandles(c, f, m).fixed = f /\ WithHandles(c, f, m).multi = m
<1> DEFINE d == WithHandles(c, f, m)
<1>1. c \in CacheRecords
  BY DEF Tidy
<1>2. f \in SUBSET Key /\ m \in SUBSET Key
  BY <1>1 DEF CacheRecords
<1>3. /\ d \in CacheRecords /\ d.order = c.order /\ d.entries = c.entries
      /\ d.live = c.live /\ d.hostOrder = c.hostOrder /\ d.host = c.host
      /\ d.fixed = f /\ d.multi = m
  BY <1>1, <1>2 DEF CacheRecords, WithHandles
<1> HIDE DEF d
<1>4. Tidy(d)
  BY <1>3 DEF Tidy, HostList
<1> QED
  BY <1>3, <1>4 DEF d

LEMMA EmptyTidy ==
    ASSUME Sizes
    PROVE  Tidy(Windows!EmptyCache)
<1> DEFINE c == Windows!EmptyCache
           o == [class \in Windows!Class |-> <<>>]
<1>1. Lists(<<>>, {})
  <2>1. <<>> \in Seq(Key) /\ Len(<<>>) = 0
    BY EmptySeq
  <2> QED
    BY <2>1 DEF Lists
<1>2. <<>> \in Seq(Key) /\ Len(<<>>) = 0
  BY EmptySeq
<1>3. c = [order |-> o, entries |-> {}, live |-> {},
           hostOrder |-> <<>>, host |-> {}, fixed |-> {}, multi |-> {}]
  BY DEF Windows!EmptyCache
<1>4. o \in [Windows!Class -> Seq(Key)] /\ \A class \in Windows!Class : o[class] = <<>>
  BY <1>2
<1> HIDE DEF c, o
<1>5. /\ c \in CacheRecords /\ c.order = o /\ c.entries = {} /\ c.live = {}
      /\ c.hostOrder = <<>> /\ c.host = {} /\ c.fixed = {} /\ c.multi = {}
  BY <1>2, <1>3, <1>4 DEF CacheRecords
<1>6. Rows(o, {})
  <2>1. \A class \in Windows!Class : OfClass({}, class) = {}
    BY DEF OfClass
  <2>2. \A class \in Windows!Class : 0 <= Windows!Capacity(class)
    BY Capacities
  <2> QED
    BY <1>1, <1>2, <1>4, <2>1, <2>2 DEF Rows
<1>7. HostList(c)
  <2>1. Windows!Cardinality({}) = 0
    BY Counts, FS_EmptySet
  <2>2. HostCapacity \in Nat
    BY DEF Sizes, Windows!CapacityAssumption
  <2> QED
    BY <1>1, <1>5, <2>1, <2>2 DEF HostList
<1>8. Tidy(c)
  BY <1>5, <1>6, <1>7 DEF Tidy
<1> QED
  BY <1>8 DEF c

LEMMA ClearEmpties ==
    ASSUME Sizes, NEW c, Tidy(c)
    PROVE  Windows!clear(c) = Windows!EmptyCache
<1> DEFINE e == Windows!EmptyCache
<1>1. c.fixed \ c.entries = {} /\ c.multi \ c.entries = {}
  BY DEF Tidy
<1>2. Windows!clear(c) = [e EXCEPT !.fixed = {}, !.multi = {}]
  BY <1>1 DEF Windows!clear
<1>3. e.fixed = {} /\ e.multi = {} /\ e \in CacheRecords
  BY EmptyTidy DEF Tidy, Windows!EmptyCache
<1> HIDE DEF e
<1>4. [e EXCEPT !.fixed = {}, !.multi = {}] = e
  BY <1>3 DEF CacheRecords
<1> QED
  BY <1>2, <1>4 DEF e
-----------------------------------------------------------------------------
(* Sequences of keys and the sets they hold.                               *)

LEMMA SetOfEmpty == Windows!ToSet(<<>>) = {}
BY DEF Windows!ToSet

LEMMA SetOfSeq ==
    ASSUME NEW s \in Seq(Key)
    PROVE  /\ Windows!ToSet(s) \subseteq Key /\ Len(s) \in Nat
           /\ Windows!ToSet(s) = {s[i] : i \in 1 .. Len(s)}
           /\ s # <<>> => Windows!Last(s) \in Windows!ToSet(s) /\ Len(s) > 0
<1>1. Len(s) \in Nat /\ DOMAIN s = 1 .. Len(s)
  BY LenProperties
<1>2. \A i \in 1 .. Len(s) : s[i] \in Key
  BY ElementOfSeq
<1>3. s # <<>> => Len(s) > 0
  BY <1>1, EmptySeq
<1>4. s # <<>> => Len(s) \in 1 .. Len(s)
  BY <1>1, <1>3
<1> QED
  BY <1>1, <1>2, <1>3, <1>4 DEF Windows!ToSet, Windows!Last

LEMMA SetOfAppend ==
    ASSUME NEW s \in Seq(Key), NEW k \in Key
    PROVE  /\ Append(s, k) \in Seq(Key) /\ Append(s, k) # <<>>
           /\ Windows!ToSet(Append(s, k)) = Windows!ToSet(s) \cup {k}
           /\ Len(Append(s, k)) = Len(s) + 1
           /\ Windows!Last(Append(s, k)) = k
<1> DEFINE t == Append(s, k)
           n == Len(s)
<1>1. /\ t \in Seq(Key) /\ t # <<>> /\ Len(t) = n + 1 /\ n \in Nat
      /\ \A i \in 1 .. n : t[i] = s[i]
      /\ t[n + 1] = k
  <2>1. /\ t \in Seq(Key) /\ Len(t) = n + 1 /\ n \in Nat
        /\ \A i \in 1 .. n : t[i] = s[i]
        /\ t[n + 1] = k
    BY AppendProperties, LenProperties
  <2>2. t # <<>>
    BY <2>1, EmptySeq
  <2> QED
    BY <2>1, <2>2
<1> HIDE DEF t, n
<1>2. Windows!Last(t) = k
  BY <1>1 DEF Windows!Last
<1>3. Windows!ToSet(t) = {t[i] : i \in 1 .. n + 1}
  BY <1>1, SetOfSeq
<1>4. Windows!ToSet(s) = {s[i] : i \in 1 .. n}
  BY SetOfSeq DEF n
<1>5. 1 .. n + 1 = (1 .. n) \cup {n + 1}
  BY <1>1
<1> QED
  BY <1>1, <1>2, <1>3, <1>4, <1>5 DEF t, n

LEMMA SetOfTail ==
    ASSUME NEW s \in Seq(Key), s # <<>>
    PROVE  /\ Tail(s) \in Seq(Key) /\ Head(s) \in Key
           /\ Windows!ToSet(s) = {Head(s)} \cup Windows!ToSet(Tail(s))
           /\ Len(Tail(s)) = Len(s) - 1
           /\ Windows!IsInjective(s) =>
                 /\ Head(s) \notin Windows!ToSet(Tail(s))
                 /\ Windows!IsInjective(Tail(s))
<1> DEFINE t == Tail(s)
           n == Len(s)
<1>1. /\ t \in Seq(Key) /\ Len(t) = n - 1 /\ n \in Nat /\ n > 0
      /\ \A i \in 1 .. n - 1 : t[i] = s[i + 1]
      /\ Head(s) = s[1] /\ s[1] \in Key
  BY HeadTailProperties, LenProperties, EmptySeq, ElementOfSeq
<1> HIDE DEF t, n
<1>2. Windows!ToSet(t) = {t[i] : i \in 1 .. n - 1}
  BY <1>1, SetOfSeq
<1>3. Windows!ToSet(s) = {s[i] : i \in 1 .. n}
  BY SetOfSeq DEF n
<1>4. DOMAIN s = 1 .. n /\ DOMAIN t = 1 .. n - 1
  BY <1>1, LenProperties DEF n
<1>5. ASSUME NEW x PROVE x \in Windows!ToSet(s) <=> x = s[1] \/ x \in Windows!ToSet(t)
  <2>1. ASSUME NEW i \in 1 .. n PROVE s[i] = s[1] \/ \E j \in 1 .. n - 1 : s[i] = t[j]
    <3>1. i = 1 \/ (i - 1 \in 1 .. n - 1 /\ (i - 1) + 1 = i)
      BY <1>1
    <3>2. i - 1 \in 1 .. n - 1 /\ (i - 1) + 1 = i => t[i - 1] = s[i]
      BY <1>1
    <3> QED
      BY <3>1, <3>2
  <2>2. ASSUME NEW j \in 1 .. n - 1 PROVE \E i \in 1 .. n : s[i] = t[j]
    <3>1. j + 1 \in 1 .. n /\ t[j] = s[j + 1]
      BY <1>1
    <3> QED
      BY <3>1
  <2>3. 1 \in 1 .. n
    BY <1>1
  <2> QED
    BY <1>2, <1>3, <2>1, <2>2, <2>3
<1>6. ASSUME Windows!IsInjective(s)
      PROVE  s[1] \notin Windows!ToSet(t) /\ Windows!IsInjective(t)
  <2>1. \A i, j \in 1 .. n : s[i] = s[j] => i = j
    BY <1>4, <1>6 DEF Windows!IsInjective
  <2>2. \A i \in 1 .. n - 1 : t[i] # s[1]
    <3> TAKE i \in 1 .. n - 1
    <3>1. i + 1 \in 1 .. n /\ 1 \in 1 .. n /\ i + 1 # 1
      BY <1>1
    <3> QED
      BY <1>1, <2>1, <3>1
  <2>3. \A i, j \in 1 .. n - 1 : t[i] = t[j] => i = j
    <3> SUFFICES ASSUME NEW i \in 1 .. n - 1, NEW j \in 1 .. n - 1, t[i] = t[j] PROVE i = j
      OBVIOUS
    <3>1. i + 1 \in 1 .. n /\ j + 1 \in 1 .. n
      BY <1>1
    <3>2. i + 1 = j + 1
      BY <1>1, <2>1, <3>1
    <3> QED
      BY <1>1, <3>2
  <2> QED
    BY <1>2, <1>4, <2>2, <2>3 DEF Windows!IsInjective
<1> QED
  BY <1>1, <1>5, <1>6 DEF t, n

LEMMA SetOfPart ==
    ASSUME NEW s \in Seq(Key), NEW n \in 0 .. Len(s)
    PROVE  Windows!ToSet(SubSeq(s, 1, n)) \subseteq Windows!ToSet(s)
<1>1. Len(s) \in Nat /\ \A i \in 1 .. Len(s) : s[i] \in Key
  BY LenProperties, ElementOfSeq
<1> DEFINE t == SubSeq(s, 1, n)
<1>2. n \in Int /\ 1 \in Int /\ \A i \in 1 .. n : s[i] \in Key /\ i \in 1 .. Len(s)
  BY <1>1
<1>3. /\ t \in Seq(Key) /\ Len(t) = IF 1 <= n THEN n - 1 + 1 ELSE 0
      /\ \A i \in 1 .. n - 1 + 1 : t[i] = s[1 + i - 1]
  BY <1>2, SubSeqProperties
<1> HIDE DEF t
<1>4. \A i \in 1 .. Len(t) : i \in 1 .. n
  BY <1>2, <1>3
<1>5. ASSUME NEW i \in 1 .. n PROVE t[i] = s[i]
  <2>1. i \in 1 .. n - 1 + 1 /\ 1 + i - 1 = i
    BY <1>2
  <2> QED
    BY <1>3, <2>1
<1>6. /\ Windows!ToSet(t) = {t[i] : i \in 1 .. Len(t)}
      /\ Windows!ToSet(s) = {s[i] : i \in 1 .. Len(s)}
  BY <1>3, SetOfSeq
<1> QED
  BY <1>2, <1>4, <1>5, <1>6 DEF t
-----------------------------------------------------------------------------
(* The invariant of the pipeline.                                          *)

Settings ==
    /\ Windows!KeyAssumption /\ Windows!CapacityAssumption
    /\ Windows!LevelsAssumption /\ Windows!WidthAssumption
    /\ Windows!WaveAssumption /\ Windows!StartsAssumption
    /\ Windows!NoneAssumption

Prefilling == windowPc \in {"collect", "push", "run", "materialize", "finish"}

\* Where no window is under way.
Between == windowPc \in {"plan", "frontier", "execute", "done"}

Carried == IF hand = None THEN {} ELSE {hand}

Typed ==
    /\ opts \in Windows!Options
    /\ level \in 0 .. Len(Levels)
    /\ hand \in Key \cup {None}
    /\ todo \in Seq(Key) /\ window \in Seq(Key)
    /\ pending \in Seq(Key) /\ wave \in Seq(Key)
    /\ async \in {"none", "running", "done", "failed"}
    /\ states \subseteq Key
    /\ windowPc \in {"plan", "collect", "push", "run", "materialize", "finish",
                     "frontier", "execute", "unwind", "done"}

\* What each place of the calling thread means.
Placed ==
    /\ Between => async = "none" /\ window = <<>> /\ hand = None
    /\ Prefilling => wave = <<>> /\ opts.fresh
    /\ windowPc \notin {"plan", "unwind", "done"} => level \in 1 .. Len(Levels)
    /\ windowPc = "plan" => wave = <<>>
    /\ windowPc = "collect" => hand = None
    /\ windowPc = "push" => hand # None
    /\ windowPc \in {"run", "materialize"} => window # <<>>
    /\ windowPc = "materialize" => async = "none"
    /\ windowPc = "finish" => async # "none"
    /\ windowPc = "execute" => wave # <<>>
    /\ async = "none" => pending = <<>>
    /\ Prefilling /\ ~opts.pipelined /\ async # "none" =>
          windowPc = "finish" /\ window = <<>>

\* The sets of the level are still to be taken, in hand, in the window, in
\* the optimizer or stored, each in one place.
Parted ==
    /\ Prefilling =>
        /\ Windows!IsInjective(todo)
        /\ Windows!ToSet(todo) \subseteq Windows!LevelKeys
        /\ Carried \subseteq Windows!LevelKeys
        /\ Windows!ToSet(window) \subseteq Windows!LevelKeys
        /\ Windows!ToSet(pending) \subseteq Windows!LevelKeys
        /\ Windows!LevelKeys \subseteq
              Windows!ToSet(todo) \cup Carried \cup Windows!ToSet(window)
                 \cup Windows!ToSet(pending) \cup states
        /\ Windows!ToSet(todo) \cap (Carried \cup Windows!ToSet(window)
                 \cup Windows!ToSet(pending) \cup states) = {}
        /\ Carried \cap (Windows!ToSet(window) \cup Windows!ToSet(pending) \cup states) = {}
        /\ (Windows!ToSet(window) \cup Windows!ToSet(pending)) \cap states = {}
    /\ Windows!ToSet(window) \cap Windows!ToSet(pending) = {}
    /\ \A x \in states : \E i \in 1 .. level : x \in Windows!ToSet(Levels[i])
    /\ windowPc \in {"frontier", "execute"} /\ opts.fresh =>
          Windows!LevelKeys \subseteq states
    /\ Windows!ToSet(wave) \subseteq Windows!LevelKeys

Flowing == Typed /\ Placed /\ Parted

LEMMA LevelIs ==
    ASSUME Settings, level \in 1 .. Len(Levels)
    PROVE  /\ Windows!LevelKeys = Windows!ToSet(Levels[level])
           /\ Levels[level] \in Seq(Key) /\ Windows!LevelKeys \subseteq Key
<1>1. Levels \in Seq(Seq(Key))
  BY DEF Settings, Windows!LevelsAssumption
<1>2. DOMAIN Levels = 1 .. Len(Levels) /\ Levels[level] \in Seq(Key)
  BY <1>1, LenProperties, ElementOfSeq
<1>3. Windows!LevelKeys = Windows!ToSet(Levels[level])
  BY <1>2 DEF Windows!LevelKeys
<1> QED
  BY <1>2, <1>3, SetOfSeq

LEMMA OptionsAre ==
    ASSUME Settings, opts \in Windows!Options
    PROVE  /\ opts.pipelined \in BOOLEAN /\ opts.fresh \in BOOLEAN
           /\ opts.component \in BOOLEAN /\ opts.slots \in BOOLEAN
           /\ opts.component => opts.fresh
           /\ opts.slots => opts.component /\ ~opts.pipelined
BY DEF Settings, Windows!Options, Windows!StartsAssumption

LEMMA FlowInit ==
    ASSUME Settings, Windows!Init
    PROVE  Flowing
<1>1. Levels \in Seq(Seq(Key))
  BY DEF Settings, Windows!LevelsAssumption
<1>2. Len(Levels) \in Nat
  BY <1>1, LenProperties
<1>3. Typed
  BY <1>2, EmptySeq DEF Windows!Init, Typed
<1>4. Placed
  BY DEF Windows!Init, Placed, Prefilling, Between
<1>5. Parted
  BY SetOfEmpty DEF Windows!Init, Parted, Prefilling
<1> QED
  BY <1>3, <1>4, <1>5 DEF Flowing

(* The types.                                                              *)
LEMMA TypedNextLevel ==
    ASSUME Settings, Typed, Windows!NextLevel
    PROVE  Typed'
<1>1. Levels \in Seq(Seq(Key))
  BY DEF Settings, Windows!LevelsAssumption
<1>2. Len(Levels) \in Nat
  BY <1>1, LenProperties
<1>3. level + 1 \in 1 .. Len(Levels) /\ level + 1 \in 0 .. Len(Levels)
  BY <1>2 DEF Windows!NextLevel, Typed
<1>4. Levels[level + 1] \in Seq(Key)
  BY <1>1, <1>3, ElementOfSeq
<1> QED
  BY <1>3, <1>4 DEF Windows!NextLevel, Typed

LEMMA TypedPrefill ==
    ASSUME Settings, Typed, Placed, Windows!Prefill
    PROVE  Typed'
<1>1. CASE Windows!Collect
  BY <1>1, SetOfTail DEF Windows!Collect, Typed
<1>2. CASE Windows!Push
  <2>1. hand \in Key
    BY <1>2 DEF Windows!Push, Typed, Placed
  <2>2. Append(window, hand) \in Seq(Key)
    BY <2>1, SetOfAppend DEF Typed
  <2> QED
    BY <1>2, <2>2 DEF Windows!Push, Typed
<1>3. CASE Windows!Collected
  BY <1>3 DEF Windows!Collected, Typed
<1>4. CASE Windows!RunWindow
  BY <1>4 DEF Windows!RunWindow, Typed
<1>5. CASE Windows!Launch
  BY <1>5, EmptySeq DEF Windows!Launch, Windows!AfterRun, Typed
<1>6. CASE Windows!Finish
  <2>1. states' \subseteq Key
    BY <1>6, SetOfSeq DEF Windows!Finish, Typed
  <2> QED
    BY <1>6, <2>1, EmptySeq DEF Windows!Finish, Windows!AfterRun, Typed
<1>7. CASE Windows!Rethrow
  BY <1>7 DEF Windows!Rethrow, Windows!Throw, Typed
<1> QED
  BY <1>1, <1>2, <1>3, <1>4, <1>5, <1>6, <1>7 DEF Windows!Prefill

LEMMA TypedFrontier ==
    ASSUME Settings, Typed, Placed, Windows!Frontier
    PROVE  Typed'
<1>1. CASE Windows!Select
  <2>1. PICK k \in Key : /\ wave' = Append(wave, k)
                         /\ UNCHANGED <<opts, level, todo, hand, window, pending, async,
                                        states, windowPc>>
    BY <1>1 DEF Windows!Select
  <2>2. Append(wave, k) \in Seq(Key)
    BY SetOfAppend DEF Typed
  <2> QED
    BY <2>1, <2>2 DEF Typed
<1>2. CASE Windows!Reject
  BY <1>2 DEF Windows!Reject, Typed
<1>3. CASE Windows!Begin
  BY <1>3 DEF Windows!Begin, Typed
<1>4. CASE Windows!Execute
  <2>1. wave # <<>>
    BY <1>4 DEF Windows!Execute, Placed
  <2>2. Head(wave) \in Key /\ Tail(wave) \in Seq(Key)
    BY <2>1, SetOfTail DEF Typed
  <2> QED
    BY <1>4, <2>2 DEF Windows!Execute, Typed
<1>5. CASE Windows!LevelDone
  BY <1>5, EmptySeq DEF Windows!LevelDone, Typed
<1> QED
  BY <1>1, <1>2, <1>3, <1>4, <1>5 DEF Windows!Frontier

LEMMA TypedEnds ==
    ASSUME Settings, Typed, Windows!Close \/ Windows!Unwind \/ Windows!Optimize
    PROVE  Typed'
<1>1. CASE Windows!Close
  BY <1>1 DEF Windows!Close, Typed
<1>2. CASE Windows!Unwind
  BY <1>2, EmptySeq DEF Windows!Unwind, Typed
<1>3. CASE Windows!Optimize
  BY <1>3 DEF Windows!Optimize, Typed
<1> QED
  BY <1>1, <1>2, <1>3

LEMMA TypedFault ==
    ASSUME Settings, Typed, Placed, Windows!Fault
    PROVE  Typed'
<1>1. CASE Windows!CollectFails
  BY <1>1 DEF Windows!CollectFails, Windows!Throw, Typed
<1>2. CASE Windows!LaunchFails
  BY <1>2 DEF Windows!LaunchFails, Windows!Throw, Typed
<1>3. CASE Windows!FinishFails
  <2>1. PICK n \in 0 .. Len(pending) :
           states' = states \cup Windows!ToSet(SubSeq(pending, 1, n))
    BY <1>3 DEF Windows!FinishFails
  <2>2. states' \subseteq Key
    BY <2>1, SetOfPart, SetOfSeq DEF Typed
  <2> QED
    BY <1>3, <2>2 DEF Windows!FinishFails, Windows!Throw, Typed
<1>4. CASE Windows!SelectFails
  BY <1>4 DEF Windows!SelectFails, Windows!Throw, Typed
<1>5. CASE Windows!ExecuteFails
  <2>1. Head(wave) \in Key
    BY <1>5, SetOfTail DEF Windows!ExecuteFails, Placed, Typed
  <2> QED
    BY <1>5, <2>1 DEF Windows!ExecuteFails, Windows!Throw, Typed
<1> QED
  BY <1>1, <1>2, <1>3, <1>4, <1>5 DEF Windows!Fault

LEMMA TypedStep ==
    ASSUME Settings, Typed, Placed, Windows!Next
    PROVE  Typed'
BY TypedNextLevel, TypedPrefill, TypedFrontier, TypedEnds, TypedFault
   DEF Windows!Next, Windows!Main

(* The places.                                                             *)
LEMMA PlacedPrefill ==
    ASSUME Settings, Typed, Placed, Windows!Prefill
    PROVE  Placed'
<1> USE DEF Placed, Prefilling, Between
<1>1. CASE Windows!Collect
  <2>1. Head(todo) # None
    BY <1>1, SetOfTail DEF Windows!Collect, Typed, Settings, Windows!NoneAssumption
  <2> QED
    BY <1>1, <2>1 DEF Windows!Collect
<1>2. CASE Windows!Push
  <2>1. hand \in Key
    BY <1>2 DEF Windows!Push, Typed
  <2>2. Append(window, hand) # <<>>
    BY <2>1, SetOfAppend DEF Typed
  <2>3. CASE Windows!Flush /\ windowPc' = "run" /\ UNCHANGED <<window, hand>>
    BY <1>2, <2>3 DEF Windows!Push, Windows!Flush
  <2>4. CASE /\ window' = Append(window, hand) /\ hand' = None
             /\ windowPc' \in {"run", "collect"}
    BY <1>2, <2>2, <2>4 DEF Windows!Push
  <2> QED
    BY <1>2, <2>3, <2>4 DEF Windows!Push
<1>3. CASE Windows!Collected
  BY <1>3 DEF Windows!Collected
<1>4. CASE Windows!RunWindow
  BY <1>4 DEF Windows!RunWindow
<1>5. CASE Windows!Launch
  BY <1>5 DEF Windows!Launch, Windows!AfterRun
<1>6. CASE Windows!Finish
  BY <1>6 DEF Windows!Finish, Windows!AfterRun
<1>7. CASE Windows!Rethrow
  BY <1>7 DEF Windows!Rethrow, Windows!Throw
<1> QED
  BY <1>1, <1>2, <1>3, <1>4, <1>5, <1>6, <1>7 DEF Windows!Prefill

LEMMA PlacedFrontier ==
    ASSUME Settings, Typed, Placed, Windows!Frontier
    PROVE  Placed'
<1> USE DEF Placed, Prefilling, Between
<1>1. CASE Windows!Select
  <2>1. /\ windowPc = "frontier"
        /\ UNCHANGED <<opts, level, todo, hand, window, pending, async, states, windowPc>>
    BY <1>1 DEF Windows!Select, Windows!Selectable
  <2> QED
    BY <2>1
<1>2. CASE Windows!Reject
  BY <1>2 DEF Windows!Reject, Windows!Selectable
<1>3. CASE Windows!Begin
  BY <1>3 DEF Windows!Begin
<1>4. CASE Windows!Execute
  BY <1>4 DEF Windows!Execute
<1>5. CASE Windows!LevelDone
  BY <1>5 DEF Windows!LevelDone
<1> QED
  BY <1>1, <1>2, <1>3, <1>4, <1>5 DEF Windows!Frontier

LEMMA PlacedOther ==
    ASSUME Settings, Typed, Placed,
           Windows!NextLevel \/ Windows!Close \/ Windows!Unwind \/ Windows!Optimize
    PROVE  Placed'
<1> USE DEF Placed, Prefilling, Between
<1>1. CASE Windows!Close
  BY <1>1 DEF Windows!Close
<1>2. CASE Windows!Unwind
  BY <1>2 DEF Windows!Unwind
<1>3. CASE Windows!Optimize
  BY <1>3 DEF Windows!Optimize
<1>4. CASE Windows!NextLevel
  <2>1. level' \in 1 .. Len(Levels)
    <3>1. Levels \in Seq(Seq(Key))
      BY DEF Settings, Windows!LevelsAssumption
    <3>2. Len(Levels) \in Nat
      BY <3>1, LenProperties
    <3> QED
      BY <1>4, <3>2 DEF Windows!NextLevel, Typed
  <2> QED
    BY <1>4, <2>1 DEF Windows!NextLevel
<1> QED
  BY <1>1, <1>2, <1>3, <1>4

LEMMA PlacedFault ==
    ASSUME Settings, Typed, Placed, Windows!Fault
    PROVE  Placed'
<1> USE DEF Placed, Prefilling, Between, Windows!Throw
<1>1. CASE Windows!CollectFails
  BY <1>1 DEF Windows!CollectFails
<1>2. CASE Windows!LaunchFails
  BY <1>2 DEF Windows!LaunchFails
<1>3. CASE Windows!FinishFails
  BY <1>3 DEF Windows!FinishFails
<1>4. CASE Windows!SelectFails
  BY <1>4 DEF Windows!SelectFails
<1>5. CASE Windows!ExecuteFails
  BY <1>5 DEF Windows!ExecuteFails
<1> QED
  BY <1>1, <1>2, <1>3, <1>4, <1>5 DEF Windows!Fault

LEMMA PlacedStep ==
    ASSUME Settings, Typed, Placed, Windows!Next
    PROVE  Placed'
BY PlacedPrefill, PlacedFrontier, PlacedOther, PlacedFault
   DEF Windows!Next, Windows!Main
(* The parts of the level.                                                 *)
LEMMA SameLevel ==
    ASSUME level' = level
    PROVE  Windows!LevelKeys' = Windows!LevelKeys
BY DEF Windows!LevelKeys

LEMMA PartedNextLevel ==
    ASSUME Settings, Flowing, Windows!NextLevel
    PROVE  Parted'
<1> DEFINE L == Windows!ToSet(Levels[level + 1])
<1>1. /\ level' = level + 1 /\ todo' = Levels[level + 1]
      /\ window' = <<>> /\ pending' = <<>> /\ hand' = None /\ wave' = <<>>
      /\ states' = states /\ opts' = opts /\ level \in Nat
      /\ windowPc' = IF opts.fresh THEN "collect" ELSE "frontier"
  BY DEF Windows!NextLevel, Flowing, Typed, Placed, Between
<1>2. Levels \in Seq(Seq(Key)) /\ Len(Levels) \in Nat /\ DOMAIN Levels = 1 .. Len(Levels)
  <2>1. Levels \in Seq(Seq(Key))
    BY DEF Settings, Windows!LevelsAssumption
  <2> QED
    BY <2>1, LenProperties
<1>3. level + 1 \in 1 .. Len(Levels) /\ \A i \in 1 .. level : i \in 1 .. Len(Levels) /\ i # level + 1
  BY <1>1, <1>2 DEF Windows!NextLevel, Flowing, Typed
<1>4. Windows!LevelKeys' = L
  BY <1>1, <1>2, <1>3 DEF Windows!LevelKeys
<1>5. Windows!IsInjective(Levels[level + 1])
  BY <1>2, <1>3 DEF Settings, Windows!LevelsAssumption
<1>6. \A i \in 1 .. level : Windows!ToSet(Levels[i]) \cap L = {}
  BY <1>2, <1>3 DEF Settings, Windows!LevelsAssumption
<1>7. \A x \in states : \E i \in 1 .. level : x \in Windows!ToSet(Levels[i])
  BY DEF Flowing, Parted
<1>8. L \cap states = {}
  BY <1>6, <1>7
<1>9. \A x \in states : \E i \in 1 .. level + 1 : x \in Windows!ToSet(Levels[i])
  <2>1. \A i \in 1 .. level : i \in 1 .. level + 1
    BY <1>1
  <2> QED
    BY <1>7, <2>1
<1> HIDE DEF L
<1>10. Windows!ToSet(todo') = L
  BY <1>1 DEF L
<1>11. Carried' = {}
  BY <1>1 DEF Carried
<1>12. windowPc' = "frontier" => ~opts.fresh
  BY <1>1
<1>13. windowPc' # "execute"
  BY <1>1
<1>14. Windows!IsInjective(todo')
  BY <1>1, <1>5
<1> QED
  BY <1>1, <1>4, <1>8, <1>9, <1>10, <1>11, <1>12, <1>13, <1>14, SetOfEmpty DEF Parted

LEMMA PartedPrefill ==
    ASSUME Settings, Flowing, Windows!Prefill
    PROVE  Parted'
<1> USE DEF Flowing
<1>1. CASE Windows!Collect
  <2>1. /\ windowPc = "collect" /\ windowPc' = "push" /\ hand = None
        /\ hand' = Head(todo) /\ todo' = Tail(todo) /\ level' = level
        /\ UNCHANGED <<window, pending, states, wave>>
    BY <1>1 DEF Windows!Collect, Placed
  <2>2. /\ Head(todo) \in Key /\ Head(todo) # None
        /\ Windows!ToSet(todo) = {Head(todo)} \cup Windows!ToSet(Tail(todo))
        /\ Windows!IsInjective(todo) =>
              /\ Head(todo) \notin Windows!ToSet(Tail(todo))
              /\ Windows!IsInjective(Tail(todo))
    BY <1>1, SetOfTail DEF Windows!Collect, Typed, Settings, Windows!NoneAssumption
  <2>3. Carried = {} /\ Carried' = {Head(todo)}
    BY <2>1, <2>2 DEF Carried
  <2> QED
    BY <2>1, <2>2, <2>3, SameLevel DEF Parted, Prefilling
<1>2. CASE Windows!Push
  <2>1. /\ windowPc = "push" /\ hand \in Key /\ hand # None /\ level' = level
        /\ UNCHANGED <<todo, pending, states, wave>>
    BY <1>2 DEF Windows!Push, Placed, Typed
  <2>2. Windows!ToSet(Append(window, hand)) = Windows!ToSet(window) \cup {hand}
    BY <2>1, SetOfAppend DEF Typed
  <2>3. Carried = {hand}
    BY <2>1 DEF Carried
  <2>4. CASE windowPc' = "run" /\ UNCHANGED <<window, hand>>
    BY <2>1, <2>4, SameLevel DEF Parted, Prefilling, Carried
  <2>5. CASE /\ window' = Append(window, hand) /\ hand' = None
             /\ windowPc' \in {"run", "collect"}
    <3>1. Carried' = {}
      BY <2>5 DEF Carried
    <3>2. Windows!ToSet(window') = Windows!ToSet(window) \cup {hand}
      BY <2>2, <2>5
    <3> QED
      BY <2>1, <2>3, <2>5, <3>1, <3>2, SameLevel DEF Parted, Prefilling
  <2> QED
    BY <1>2, <2>4, <2>5 DEF Windows!Push
<1>3. CASE Windows!Collected
  <2>1. /\ windowPc = "collect" /\ todo = <<>> /\ level' = level /\ opts' = opts
        /\ UNCHANGED <<todo, hand, window, pending, states, wave>>
        /\ hand = None
        /\ windowPc' \in {"run", "finish", "frontier"}
        /\ windowPc' = "frontier" => window = <<>> /\ pending = <<>>
    BY <1>3 DEF Windows!Collected, Placed
  <2>2. Carried = {} /\ Carried' = {}
    BY <2>1 DEF Carried
  <2> QED
    BY <2>1, <2>2, SameLevel, SetOfEmpty DEF Parted, Prefilling
<1>4. CASE Windows!RunWindow
  BY <1>4, SameLevel DEF Windows!RunWindow, Parted, Prefilling, Carried
<1>5. CASE Windows!Launch
  <2>1. /\ windowPc = "materialize" /\ level' = level /\ pending = <<>>
        /\ pending' = window /\ window' = <<>>
        /\ UNCHANGED <<todo, hand, states, wave>>
        /\ windowPc' \in {"push", "collect", "finish"}
    BY <1>5 DEF Windows!Launch, Windows!AfterRun, Placed
  <2>2. Carried' = Carried
    BY <2>1 DEF Carried
  <2> QED
    BY <2>1, <2>2, SameLevel, SetOfEmpty DEF Parted, Prefilling
<1>6. CASE Windows!Finish
  <2>1. /\ windowPc = "finish" /\ level' = level
        /\ pending' = <<>> /\ states' = states \cup Windows!ToSet(pending)
        /\ UNCHANGED <<todo, hand, window, wave>>
        /\ windowPc' \in {"push", "collect", "materialize"}
    BY <1>6 DEF Windows!Finish, Windows!AfterRun
  <2>2. Carried' = Carried
    BY <2>1 DEF Carried
  <2>3. level \in 1 .. Len(Levels)
    BY <2>1 DEF Placed
  <2>4. level \in 1 .. level
    BY <2>3 DEF Typed
  <2>5. Windows!LevelKeys = Windows!ToSet(Levels[level])
    BY <2>3, LevelIs
  <2>6. Windows!ToSet(pending) \subseteq Windows!LevelKeys
    BY <2>1 DEF Parted, Prefilling
  <2>7. \A x \in states' : \E i \in 1 .. level : x \in Windows!ToSet(Levels[i])
    BY <2>1, <2>4, <2>5, <2>6 DEF Parted
  <2> QED
    BY <2>1, <2>2, <2>7, SameLevel, SetOfEmpty DEF Parted, Prefilling
<1>7. CASE Windows!Rethrow
  BY <1>7, SameLevel DEF Windows!Rethrow, Windows!Throw, Parted, Prefilling
<1> QED
  BY <1>1, <1>2, <1>3, <1>4, <1>5, <1>6, <1>7 DEF Windows!Prefill

LEMMA PartedFrontier ==
    ASSUME Settings, Flowing, Windows!Frontier
    PROVE  Parted'
<1> USE DEF Flowing
<1>1. CASE Windows!Select
  <2>1. PICK k \in Key :
           /\ windowPc = "frontier" /\ k \in Windows!LevelKeys
           /\ wave' = Append(wave, k)
           /\ UNCHANGED <<opts, level, todo, hand, window, pending, async, states, windowPc>>
    BY <1>1 DEF Windows!Select, Windows!Selectable
  <2>2. Windows!ToSet(wave') = Windows!ToSet(wave) \cup {k}
    BY <2>1, SetOfAppend DEF Typed
  <2> QED
    BY <2>1, <2>2, SameLevel DEF Parted, Prefilling
<1>2. CASE Windows!Reject
  BY <1>2, SameLevel DEF Windows!Reject, Windows!Selectable, Parted, Prefilling
<1>3. CASE Windows!Begin
  BY <1>3, SameLevel DEF Windows!Begin, Parted, Prefilling
<1>4. CASE Windows!Execute
  <2>1. /\ windowPc = "execute" /\ level' = level /\ opts' = opts
        /\ window = <<>> /\ pending = <<>>
        /\ states' = states \cup {Head(wave)} /\ wave' = Tail(wave)
        /\ UNCHANGED <<todo, hand, window, pending>> /\ wave # <<>>
        /\ windowPc' \in {"frontier", "execute"}
    BY <1>4 DEF Windows!Execute, Placed, Between
  <2>2. Windows!ToSet(wave) = {Head(wave)} \cup Windows!ToSet(Tail(wave))
    BY <2>1, SetOfTail DEF Typed
  <2>3. level \in 1 .. Len(Levels)
    BY <2>1 DEF Placed
  <2>4. level \in 1 .. level
    BY <2>3 DEF Typed
  <2>5. Windows!LevelKeys = Windows!ToSet(Levels[level])
    BY <2>3, LevelIs
  <2>6. \A x \in states' : \E i \in 1 .. level : x \in Windows!ToSet(Levels[i])
    BY <2>1, <2>2, <2>4, <2>5 DEF Parted
  <2> QED
    BY <2>1, <2>2, <2>6, SameLevel, SetOfEmpty DEF Parted, Prefilling
<1>5. CASE Windows!LevelDone
  BY <1>5, SameLevel, SetOfEmpty DEF Windows!LevelDone, Parted, Prefilling
<1> QED
  BY <1>1, <1>2, <1>3, <1>4, <1>5 DEF Windows!Frontier

LEMMA PartedEnds ==
    ASSUME Settings, Flowing, Windows!Close \/ Windows!Unwind \/ Windows!Optimize
    PROVE  Parted'
<1> USE DEF Flowing
<1>1. CASE Windows!Close
  BY <1>1, SameLevel DEF Windows!Close, Parted, Prefilling
<1>2. CASE Windows!Unwind
  BY <1>2, SameLevel, SetOfEmpty DEF Windows!Unwind, Parted, Prefilling
<1>3. CASE Windows!Optimize
  BY <1>3, SameLevel DEF Windows!Optimize, Parted, Prefilling, Carried
<1> QED
  BY <1>1, <1>2, <1>3

LEMMA PartedFault ==
    ASSUME Settings, Flowing, Windows!Fault
    PROVE  Parted'
<1> USE DEF Flowing, Windows!Throw
<1>1. CASE Windows!CollectFails
  BY <1>1, SameLevel DEF Windows!CollectFails, Parted, Prefilling
<1>2. CASE Windows!LaunchFails
  BY <1>2, SameLevel DEF Windows!LaunchFails, Parted, Prefilling
<1>3. CASE Windows!FinishFails
  <2>1. PICK n \in 0 .. Len(pending) :
           states' = states \cup Windows!ToSet(SubSeq(pending, 1, n))
    BY <1>3 DEF Windows!FinishFails
  <2>2. Windows!ToSet(SubSeq(pending, 1, n)) \subseteq Windows!ToSet(pending)
    BY <2>1, SetOfPart DEF Typed
  <2>3. level \in 1 .. Len(Levels) /\ Windows!ToSet(pending) \subseteq Windows!LevelKeys
    BY <1>3 DEF Windows!FinishFails, Placed, Parted, Prefilling
  <2>4. level \in 1 .. level
    BY <2>3 DEF Typed
  <2>5. Windows!LevelKeys = Windows!ToSet(Levels[level])
    BY <2>3, LevelIs
  <2>6. \A x \in states' : \E i \in 1 .. level : x \in Windows!ToSet(Levels[i])
    BY <2>1, <2>2, <2>3, <2>4, <2>5 DEF Parted
  <2> QED
    BY <1>3, <2>6, SameLevel DEF Windows!FinishFails, Parted, Prefilling
<1>4. CASE Windows!SelectFails
  BY <1>4, SameLevel DEF Windows!SelectFails, Parted, Prefilling
<1>5. CASE Windows!ExecuteFails
  <2>1. wave # <<>> /\ level \in 1 .. Len(Levels)
    BY <1>5 DEF Windows!ExecuteFails, Placed
  <2>2. Head(wave) \in Windows!ToSet(wave)
    BY <2>1, SetOfTail DEF Typed
  <2>4. level \in 1 .. level
    BY <2>1 DEF Typed
  <2>5. Windows!LevelKeys = Windows!ToSet(Levels[level])
    BY <2>1, LevelIs
  <2>6. states' \subseteq states \cup {Head(wave)}
    BY <1>5 DEF Windows!ExecuteFails
  <2>7. \A x \in states' : \E i \in 1 .. level : x \in Windows!ToSet(Levels[i])
    BY <2>2, <2>4, <2>5, <2>6 DEF Parted
  <2> QED
    BY <1>5, <2>7, SameLevel DEF Windows!ExecuteFails, Parted, Prefilling
<1> QED
  BY <1>1, <1>2, <1>3, <1>4, <1>5 DEF Windows!Fault

LEMMA FlowingStep ==
    ASSUME Settings, Flowing, Windows!Next
    PROVE  Flowing'
<1>1. Typed' /\ Placed'
  BY TypedStep, PlacedStep DEF Flowing
<1>2. Parted'
  BY PartedNextLevel, PartedPrefill, PartedFrontier, PartedEnds, PartedFault
     DEF Windows!Next, Windows!Main
<1> QED
  BY <1>1, <1>2 DEF Flowing
-----------------------------------------------------------------------------
(* What the cache holds for the pipeline.                                  *)

Held == IF hand = None THEN 0 ELSE 1

\* The contexts of one level have one class: a window fits its list, and two
\* windows of several penalties fit theirs.
Sized ==
    /\ window # <<>> => Len(window) <= Width[Windows!Last(window)]
    /\ window # <<>> /\ windowPc \in {"collect", "push"} =>
          Len(window) < Width[Windows!Last(window)]
    /\ pending # <<>> => Len(pending) <= Width[Windows!Last(pending)]

\* The windows' contexts have been taken since any other.
Recent ==
    /\ Carried \cup Windows!ToSet(window) \subseteq cache.entries
    /\ AtMost(cache, Carried, Held)
    /\ AtMost(cache, Carried \cup Windows!ToSet(window), Len(window) + Held)
    /\ AtMost(cache, Carried \cup Windows!ToSet(window) \cup Windows!ToSet(pending),
              Len(window) + Len(pending) + Held)

\* Whose multi_penalty handles are open.
Opened ==
    /\ windowPc \notin {"unwind", "done"} =>
          cache.multi \subseteq Windows!ToSet(pending)
    /\ Prefilling /\ Windows!Multi /\ ~Windows!Slots /\ async # "none" =>
          Windows!ToSet(pending) \subseteq cache.multi
    /\ Prefilling /\ ~(Windows!Multi /\ ~Windows!Slots) => cache.multi = {}

\* The groups of a wave have their contexts and fixed_sp handles.
Waved ==
    /\ windowPc \in {"frontier", "execute"} =>
          Windows!ToSet(wave) \subseteq cache.entries \cap cache.fixed
    /\ windowPc = "frontier" =>
          AtMost(cache, Windows!ToSet(wave), Len(wave)) /\ Len(wave) <= WaveCap

Stored ==
    /\ Tidy(cache)
    /\ Prefilling /\ ~Windows!Slots => Sized /\ Recent
    /\ Opened /\ Waved
    /\ windowPc = "done" => cache = Windows!EmptyCache

PipeInv == Flowing /\ Stored

LEMMA Lengths ==
    ASSUME Typed
    PROVE  Len(window) \in Nat /\ Len(pending) \in Nat /\ Len(wave) \in Nat /\ Held \in Nat
BY LenProperties DEF Typed, Held

\* A list has room for a window of the level.
LEMMA LevelRoom ==
    ASSUME Settings, level \in 1 .. Len(Levels),
           NEW k \in Windows!LevelKeys, NEW x \in Windows!LevelKeys
    PROVE  /\ Width[x] \in Nat \ {0}
           /\ Width[x] <= Windows!Capacity(Windows!ClassOf(k))
           /\ Windows!Multi => 2 * Width[x] <= Windows!Capacity(Windows!ClassOf(k))
           /\ Windows!Capacity(Windows!ClassOf(k)) \in Nat \ {0}
<1>1. x \in Key /\ k \in Key /\ Windows!LevelKeys = Windows!ToSet(Levels[level])
  BY LevelIs
<1>2. \/ Windows!LevelKeys \subseteq SinglePenalty
      \/ Windows!LevelKeys \cap SinglePenalty = {}
  <2>1. Levels \in Seq(Seq(Key))
    BY DEF Settings, Windows!LevelsAssumption
  <2>2. level \in DOMAIN Levels
    BY <2>1, LenProperties
  <2> QED
    BY <1>1, <2>2 DEF Settings, Windows!LevelsAssumption
<1>3. /\ Width[x] \in Nat \ {0} /\ 2 * Width[x] <= MultiCapacity
      /\ x \in SinglePenalty => Width[x] <= SingleCapacity
  BY <1>1 DEF Settings, Windows!WidthAssumption
<1>4. SingleCapacity \in Nat \ {0} /\ MultiCapacity \in Nat \ {0}
  BY DEF Settings, Windows!CapacityAssumption
<1>5. CASE Windows!LevelKeys \subseteq SinglePenalty
  <2>1. ~Windows!Multi /\ Windows!Capacity(Windows!ClassOf(k)) = SingleCapacity
        /\ x \in SinglePenalty
    BY <1>5 DEF Windows!Multi, Windows!Capacity, Windows!ClassOf
  <2> QED
    BY <1>3, <1>4, <2>1
<1>6. CASE Windows!LevelKeys \cap SinglePenalty = {}
  <2>1. Windows!Capacity(Windows!ClassOf(k)) = MultiCapacity
    BY <1>6 DEF Windows!Capacity, Windows!ClassOf
  <2> QED
    BY <1>3, <1>4, <2>1
<1> QED
  BY <1>2, <1>5, <1>6

LEMMA StoredInit ==
    ASSUME Settings, Windows!Init
    PROVE  Stored
<1>1. cache = Windows!EmptyCache /\ windowPc = "plan" /\ pending = <<>>
  BY DEF Windows!Init
<1>2. Tidy(cache)
  BY <1>1, EmptyTidy DEF Settings, Sizes
<1>3. cache.multi = {}
  BY <1>1 DEF Windows!EmptyCache
<1> QED
  BY <1>1, <1>2, <1>3 DEF Stored, Opened, Waved, Prefilling

\* The level and the options decide the kind of a window.
LEMMA SameKind ==
    ASSUME level' = level, opts' = opts
    PROVE  Windows!Multi' = Windows!Multi /\ Windows!Slots' = Windows!Slots
BY SameLevel DEF Windows!Multi, Windows!Slots

LEMMA StoredNextLevel ==
    ASSUME Settings, PipeInv, Windows!NextLevel
    PROVE  Stored'
<1>1. /\ window' = <<>> /\ pending' = <<>> /\ hand' = None /\ wave' = <<>>
      /\ cache' = cache /\ pending = <<>> /\ windowPc = "plan"
      /\ windowPc' \in {"collect", "frontier"}
  BY DEF Windows!NextLevel, PipeInv, Flowing, Typed, Placed, Between
<1>2. Carried' = {} /\ Held' = 0
  BY <1>1 DEF Carried, Held
<1>3. Len(<<>>) = 0
  BY EmptySeq
<1>4. cache.multi = {}
  BY <1>1, SetOfEmpty DEF PipeInv, Stored, Opened
<1>5. Tidy(cache')
  BY <1>1 DEF PipeInv, Stored
<1>6. Sized'
  BY <1>1 DEF Sized
<1>7. Recent'
  BY <1>1, <1>2, SetOfEmpty, NoneAtMost DEF Recent
<1>8. Opened'
  BY <1>1, <1>4, SetOfEmpty DEF Opened, Prefilling
<1>9. Waved'
  <2>1. 0 <= WaveCap
    BY DEF Settings, Windows!WaveAssumption
  <2> QED
    BY <1>1, <1>3, <2>1, SetOfEmpty, NoneAtMost DEF Waved
<1> QED
  BY <1>1, <1>5, <1>6, <1>7, <1>8, <1>9 DEF Stored

LEMMA StoredCollect ==
    ASSUME Settings, PipeInv, Windows!Collect
    PROVE  Stored'
<1> DEFINE k == Head(todo)
           W == Windows!ToSet(window)
           P == Windows!ToSet(pending)
           n == Len(window)
           m == Len(pending)
           cap == Windows!Capacity(Windows!ClassOf(k))
<1>1. /\ windowPc = "collect" /\ windowPc' = "push" /\ hand = None /\ hand' = k
      /\ cache' = Windows!get(cache, k, opts.pipelined)
      /\ opts' = opts /\ level' = level /\ async' = async
      /\ UNCHANGED <<window, pending, wave, states>>
  BY DEF Windows!Collect, PipeInv, Flowing, Placed
<1>2. k \in Key /\ k # None /\ k \in Windows!LevelKeys
  BY SetOfTail DEF Windows!Collect, PipeInv, Flowing, Typed, Parted, Prefilling, Settings,
                   Windows!NoneAssumption
<1>3. level \in 1 .. Len(Levels) /\ W \subseteq Windows!LevelKeys /\ P \subseteq Windows!LevelKeys
  BY <1>1 DEF PipeInv, Flowing, Placed, Parted, Prefilling
<1>4. Carried = {} /\ Held = 0 /\ Carried' = {k} /\ Held' = 1
  BY <1>1, <1>2 DEF Carried, Held
<1>5. Sizes /\ Tidy(cache) /\ opts.pipelined \in BOOLEAN
  BY OptionsAre DEF Settings, Sizes, PipeInv, Stored, Flowing, Typed
<1>6. Taken(cache, cache', k)
  BY <1>1, <1>2, <1>5, GetTakes
<1>7. n \in Nat /\ m \in Nat
  BY Lengths DEF PipeInv, Flowing
<1>8. window # <<>> => Windows!Last(window) \in Windows!LevelKeys
  BY <1>3, SetOfSeq DEF PipeInv, Flowing, Typed
<1>9. pending # <<>> => Windows!Last(pending) \in Windows!LevelKeys
  BY <1>3, SetOfSeq DEF PipeInv, Flowing, Typed
<1>10. (window = <<>> => n = 0) /\ (pending = <<>> => m = 0)
  BY EmptySeq
<1>11. cap \in Nat \ {0}
  BY <1>2, <1>3, LevelRoom
<1> HIDE DEF k, W, P, n, m, cap
<1>12. ASSUME ~Windows!Slots
       PROVE  /\ Sized' /\ Recent'
              /\ Windows!Multi /\ P \subseteq cache.entries => P \subseteq cache'.entries
  <2>1. Sized /\ Recent
    BY <1>1, <1>12 DEF PipeInv, Stored, Prefilling
  <2>2. /\ W \subseteq cache.entries
        /\ AtMost(cache, {}, 0) /\ AtMost(cache, W, n) /\ AtMost(cache, W \cup P, n + m)
    <3>1. {} \cup W = W /\ n + 0 = n /\ n + m + 0 = n + m
      BY <1>7
    <3> QED
      BY <1>4, <2>1, <3>1, NoneAtMost DEF Recent, W, P, n, m
  <2>3. n < cap
    <3>1. CASE window = <<>>
      BY <1>10, <1>11, <3>1
    <3>2. CASE window # <<>>
      <4>1. n < Width[Windows!Last(window)]
        BY <1>1, <2>1, <3>2 DEF Sized, n
      <4>2. /\ Width[Windows!Last(window)] \in Nat
            /\ Width[Windows!Last(window)] <= cap
        BY <1>2, <1>3, <1>8, <3>2, LevelRoom DEF cap
      <4> QED
        BY <1>7, <1>11, <4>1, <4>2
    <3> QED
      BY <3>1, <3>2
  <2>4. Windows!Multi => n + m < cap
    <3> SUFFICES ASSUME Windows!Multi PROVE n + m < cap
      OBVIOUS
    <3>1. 2 * n < cap
      <4>1. CASE window = <<>>
        BY <1>10, <1>11, <4>1
      <4>2. CASE window # <<>>
        <5>1. n < Width[Windows!Last(window)]
          BY <1>1, <2>1, <4>2 DEF Sized, n
        <5>2. /\ Width[Windows!Last(window)] \in Nat
              /\ 2 * Width[Windows!Last(window)] <= cap
          BY <1>2, <1>3, <1>8, <4>2, LevelRoom DEF cap
        <5> QED
          BY <1>7, <1>11, <5>1, <5>2
      <4> QED
        BY <4>1, <4>2
    <3>2. 2 * m <= cap
      <4>1. CASE pending = <<>>
        BY <1>10, <1>11, <4>1
      <4>2. CASE pending # <<>>
        <5>1. m <= Width[Windows!Last(pending)]
          BY <2>1, <4>2 DEF Sized, m
        <5>2. /\ Width[Windows!Last(pending)] \in Nat
              /\ 2 * Width[Windows!Last(pending)] <= cap
          BY <1>2, <1>3, <1>9, <4>2, LevelRoom DEF cap
        <5> QED
          BY <1>7, <1>11, <5>1, <5>2
      <4> QED
        BY <4>1, <4>2
    <3> QED
      BY <1>7, <1>11, <3>1, <3>2
  <2>5. W \cup {k} \subseteq cache'.entries
    BY <1>2, <1>5, <1>6, <1>7, <2>2, <2>3, TakenStays DEF cap
  <2>6. Windows!Multi /\ P \subseteq cache.entries => P \subseteq cache'.entries
    <3> SUFFICES ASSUME Windows!Multi, P \subseteq cache.entries
                 PROVE  P \subseteq cache'.entries
      OBVIOUS
    <3> DEFINE X == W \cup P
               q == n + m
    <3>1. X \subseteq cache.entries /\ q \in Nat /\ q < cap /\ AtMost(cache, X, q)
      BY <1>7, <2>2, <2>4
    <3> HIDE DEF X, q
    <3>2. X \cup {k} \subseteq cache'.entries
      BY <1>2, <1>5, <1>6, <3>1, TakenStays DEF cap
    <3> QED
      BY <3>2 DEF X
  <2>7. AtMost(cache', {} \cup {k}, 0 + 1)
    BY <1>2, <1>6, <2>2, TakenMoves
  <2>8. AtMost(cache', W \cup {k}, n + 1)
    BY <1>2, <1>6, <1>7, <2>2, TakenMoves
  <2>9. AtMost(cache', (W \cup P) \cup {k}, (n + m) + 1)
    <3> DEFINE X == W \cup P
               q == n + m
    <3>1. q \in Nat /\ AtMost(cache, X, q)
      BY <1>7, <2>2
    <3> HIDE DEF X, q
    <3>2. AtMost(cache', X \cup {k}, q + 1)
      BY <1>2, <1>6, <3>1, TakenMoves
    <3> QED
      BY <3>2 DEF X, q
  <2>10. Recent'
    <3>1. /\ {k} \cup W = W \cup {k} /\ {k} \cup W \cup P = (W \cup P) \cup {k}
          /\ {} \cup {k} = {k} /\ 0 + 1 = 1 /\ n + m + 1 = (n + m) + 1
      OBVIOUS
    <3>2. /\ {k} \cup W \subseteq cache'.entries
          /\ AtMost(cache', {k}, 1)
          /\ AtMost(cache', {k} \cup W, n + 1)
          /\ AtMost(cache', {k} \cup W \cup P, n + m + 1)
      BY <2>5, <2>7, <2>8, <2>9, <3>1
    <3> QED
      BY <1>1, <1>4, <3>2 DEF Recent, W, P, n, m
  <2>11. Sized'
    BY <1>1, <2>1 DEF Sized
  <2> QED
    BY <2>6, <2>10, <2>11
<1>13. Tidy(cache') /\ cache'.multi = cache.multi \cap cache'.entries
  BY <1>6 DEF Taken
<1>14. Opened'
  <2>1. cache.multi \subseteq P /\ cache.multi \subseteq cache.entries
    BY <1>1, <1>5 DEF PipeInv, Stored, Opened, P, Tidy
  <2>2. Windows!Multi /\ ~Windows!Slots /\ async # "none" => P \subseteq cache'.multi
    <3> SUFFICES ASSUME Windows!Multi, ~Windows!Slots, async # "none"
                 PROVE  P \subseteq cache'.multi
      OBVIOUS
    <3>1. P \subseteq cache.multi
      BY <1>1 DEF PipeInv, Stored, Opened, Prefilling, P
    <3>2. P \subseteq cache'.entries
      BY <1>12, <2>1, <3>1
    <3> QED
      BY <1>13, <3>1, <3>2
  <2>3. ~(Windows!Multi /\ ~Windows!Slots) => cache'.multi = {}
    BY <1>1, <1>13 DEF PipeInv, Stored, Opened, Prefilling
  <2> QED
    BY <1>1, <1>13, <2>1, <2>2, <2>3, SameKind DEF Opened, P
<1>15. Waved'
  BY <1>1 DEF Waved
<1> QED
  BY <1>1, <1>12, <1>13, <1>14, <1>15, SameKind DEF Stored, Prefilling
LEMMA StoredPush ==
    ASSUME Settings, PipeInv, Windows!Push
    PROVE  Stored'
<1> DEFINE W == Windows!ToSet(window)
           P == Windows!ToSet(pending)
           n == Len(window)
           m == Len(pending)
<1>1. /\ windowPc = "push" /\ hand \in Key /\ hand # None
      /\ cache' = cache /\ opts' = opts /\ level' = level /\ async' = async
      /\ pending' = pending /\ wave' = wave
      /\ window \in Seq(Key)
  BY DEF Windows!Push, PipeInv, Flowing, Typed, Placed
<1>2. Carried = {hand} /\ Held = 1
  BY <1>1 DEF Carried, Held
<1>3. windowPc' \in {"run", "collect"}
  BY DEF Windows!Push
<1>4. n \in Nat /\ m \in Nat
  BY Lengths DEF PipeInv, Flowing
<1>5. Opened'
  BY <1>1, <1>3, SameKind DEF PipeInv, Stored, Opened, Prefilling
<1>6. Waved'
  BY <1>3 DEF Waved
<1>7. Tidy(cache')
  BY <1>1 DEF PipeInv, Stored
<1>8. ASSUME ~Windows!Slots PROVE Sized' /\ Recent'
  <2>1. Sized /\ Recent
    BY <1>1, <1>8 DEF PipeInv, Stored, Prefilling
  <2>2. CASE Windows!Flush /\ windowPc' = "run" /\ UNCHANGED <<window, hand>>
    <3>1. window # <<>> => n <= Width[Windows!Last(window)]
      BY <2>1 DEF Sized
    <3>2. Sized'
      BY <1>1, <2>1, <2>2, <3>1 DEF Sized
    <3> QED
      BY <1>1, <2>1, <2>2, <3>2 DEF Recent, Carried, Held
  <2>3. CASE /\ ~Windows!Flush
             /\ window' = Append(window, hand) /\ hand' = None
             /\ windowPc' = IF Windows!Full(window') THEN "run" ELSE "collect"
    <3>1. /\ Windows!ToSet(window') = W \cup {hand} /\ Len(window') = n + 1
          /\ Windows!Last(window') = hand
      BY <1>1, <2>3, SetOfAppend
    <3>2. Carried' = {} /\ Held' = 0
      BY <2>3 DEF Carried, Held
    <3>3. n + 1 <= Width[hand] /\ Width[hand] \in Nat
      <4>1. Width[hand] \in Nat \ {0}
        BY <1>1 DEF Settings, Windows!WidthAssumption
      <4>2. CASE window = <<>>
        <5>1. n = 0
          BY <4>2, EmptySeq
        <5> QED
          BY <4>1, <5>1
      <4>3. CASE window # <<>>
        <5>1. Width[hand] = Width[Windows!Last(window)]
          BY <1>8, <2>3, <4>3 DEF Windows!Flush
        <5>2. n < Width[Windows!Last(window)]
          BY <1>1, <2>1, <4>3 DEF Sized
        <5> QED
          BY <1>4, <4>1, <5>1, <5>2
      <4> QED
        BY <4>2, <4>3
    <3>4. windowPc' # "run" => n + 1 < Width[hand]
      <4>1. windowPc' # "run" => Len(window') # Width[Windows!Last(window')]
        BY <1>8, <2>3 DEF Windows!Full
      <4> QED
        BY <1>4, <3>1, <3>3, <4>1
    <3>5. Sized'
      BY <1>1, <1>3, <2>1, <3>1, <3>3, <3>4 DEF Sized
    <3>6. /\ {hand} \cup W \subseteq cache.entries
          /\ AtMost(cache, {hand} \cup W, n + 1)
          /\ AtMost(cache, {hand} \cup W \cup P, n + m + 1)
      BY <1>2, <2>1 DEF Recent
    <3>7. /\ {} \cup (W \cup {hand}) = {hand} \cup W
          /\ {} \cup (W \cup {hand}) \cup P = {hand} \cup W \cup P
          /\ n + 1 + 0 = n + 1 /\ n + 1 + m + 0 = n + m + 1
      BY <1>4
    <3>8. Recent'
      BY <1>1, <3>1, <3>2, <3>6, <3>7, NoneAtMost DEF Recent
    <3> QED
      BY <3>5, <3>8
  <2> QED
    BY <2>2, <2>3 DEF Windows!Push
<1> QED
  BY <1>1, <1>3, <1>5, <1>6, <1>7, <1>8, SameKind DEF Stored, Prefilling

LEMMA StoredCollected ==
    ASSUME Settings, PipeInv, Windows!Collected \/ Windows!RunWindow
    PROVE  Stored'
<1>1. /\ windowPc \in {"collect", "run"}
      /\ windowPc' \in {"run", "materialize", "finish", "frontier"}
      /\ UNCHANGED <<opts, level, hand, window, pending, async, wave, cache>>
      /\ wave = <<>>
      /\ windowPc' = "frontier" => pending = <<>>
  BY DEF Windows!Collected, Windows!RunWindow, PipeInv, Flowing, Placed, Prefilling
<1>2. Prefilling
  BY <1>1 DEF Prefilling
<1>3. Opened'
  BY <1>1, <1>2, SameKind DEF PipeInv, Stored, Opened, Prefilling
<1>4. Waved'
  <2>1. 0 <= WaveCap /\ Len(<<>>) = 0
    BY EmptySeq DEF Settings, Windows!WaveAssumption
  <2> QED
    BY <1>1, <2>1, SetOfEmpty, NoneAtMost DEF Waved
<1>5. Sized /\ Recent => Sized' /\ Recent'
  <2>1. Recent => Recent'
    BY <1>1 DEF Recent, Carried, Held
  <2>2. Sized => Sized'
    BY <1>1 DEF Sized
  <2> QED
    BY <2>1, <2>2
<1> QED
  BY <1>1, <1>2, <1>3, <1>4, <1>5, SameKind DEF PipeInv, Stored, Prefilling

LEMMA StoredLaunch ==
    ASSUME Settings, PipeInv, Windows!Launch
    PROVE  Stored'
<1> DEFINE W == Windows!ToSet(window)
           f == IF opts.pipelined THEN cache.fixed \cup W ELSE cache.fixed
           g == IF Windows!Multi /\ ~Windows!Slots THEN cache.multi \cup W ELSE cache.multi
           n == Len(window)
<1>1. /\ windowPc = "materialize" /\ windowPc' \in {"push", "collect", "finish"}
      /\ cache' = Windows!Handles
      /\ opts' = opts /\ level' = level /\ hand' = hand /\ wave' = wave
      /\ pending' = window /\ window' = <<>>
      /\ pending = <<>>
      /\ opts \in Windows!Options
  BY DEF Windows!Launch, Windows!AfterRun, PipeInv, Flowing, Typed, Placed
<1>2. Prefilling /\ Tidy(cache)
  BY <1>1 DEF Prefilling, PipeInv, Stored
<1>3. cache.multi = {}
  BY <1>1, SetOfEmpty DEF PipeInv, Stored, Opened
<1>4. ~Windows!Slots => Sized /\ Recent
  BY <1>2 DEF PipeInv, Stored
<1>5. Windows!Slots => ~opts.pipelined
  BY <1>1, OptionsAre DEF Windows!Slots
<1>6. f \cup g \subseteq cache.entries
  <2>1. cache.fixed \cup cache.multi \subseteq cache.entries
    BY <1>2 DEF Tidy
  <2>2. ~Windows!Slots => W \subseteq cache.entries
    BY <1>4 DEF Recent
  <2> QED
    BY <1>5, <2>1, <2>2
<1>7. cache' = WithHandles(cache, f, g)
  BY <1>1, <1>2 DEF Windows!Handles, Tidy, CacheRecords, WithHandles
<1>8. g \subseteq W /\ (Windows!Multi /\ ~Windows!Slots => W \subseteq g)
      /\ (~(Windows!Multi /\ ~Windows!Slots) => g = {})
  BY <1>3
<1> HIDE DEF f, g
<1>9. /\ Tidy(cache') /\ cache'.order = cache.order /\ cache'.entries = cache.entries
      /\ cache'.fixed = f /\ cache'.multi = g
  BY <1>2, <1>6, <1>7, HandlesTidy
<1>10. Opened'
  BY <1>1, <1>8, <1>9, SameKind DEF Opened, Prefilling
<1>11. Waved'
  BY <1>1 DEF Waved
<1>12. ASSUME ~Windows!Slots PROVE Sized' /\ Recent'
  <2>1. Sized'
    BY <1>1, <1>4, <1>12 DEF Sized
  <2>2. Carried' = Carried /\ Held' = Held
    BY <1>1 DEF Carried, Held
  <2>3. n \in Nat /\ Held \in Nat /\ Len(<<>>) = 0
    BY Lengths, EmptySeq DEF PipeInv, Flowing
  <2>4. /\ Carried \cup W \subseteq cache.entries
        /\ AtMost(cache, Carried, Held)
        /\ AtMost(cache, Carried \cup W, n + Held)
    BY <1>4, <1>12 DEF Recent
  <2>5. AtMost(cache', Carried, Held) /\ AtMost(cache', Carried \cup W, n + Held)
    BY <1>9, <2>4 DEF AtMost
  <2> HIDE DEF W, n
  <2>6. /\ Carried \cup {} = Carried /\ Carried \cup {} \cup W = Carried \cup W
        /\ 0 + Held = Held /\ 0 + n + Held = n + Held
    BY <2>3
  <2>7. /\ Carried \cup {} \subseteq cache'.entries
        /\ AtMost(cache', Carried, Held)
        /\ AtMost(cache', Carried \cup {}, 0 + Held)
        /\ AtMost(cache', Carried \cup {} \cup W, 0 + n + Held)
    BY <1>9, <2>4, <2>5, <2>6
  <2>8. /\ Windows!ToSet(window') = {} /\ Windows!ToSet(pending') = W
        /\ Len(window') = 0 /\ Len(pending') = n
    BY <1>1, <2>3, SetOfEmpty DEF W, n
  <2>9. Recent'
    BY <2>2, <2>7, <2>8 DEF Recent
  <2> QED
    BY <2>1, <2>9
<1> QED
  BY <1>1, <1>9, <1>10, <1>11, <1>12, SameKind DEF Stored

LEMMA ReleasedTidy ==
    ASSUME PipeInv
    PROVE  /\ Tidy(Windows!Released)
           /\ Windows!Released.order = cache.order
           /\ Windows!Released.entries = cache.entries
           /\ Windows!Released.multi = cache.multi \ Windows!ToSet(pending)
<1> DEFINE m == cache.multi \ Windows!ToSet(pending)
           f == cache.fixed
<1>1. Tidy(cache) /\ f \cup m \subseteq cache.entries
  BY DEF PipeInv, Stored, Tidy
<1>2. cache \in CacheRecords
  BY <1>1 DEF Tidy
<1>3. Windows!Released = [cache EXCEPT !.multi = m]
  BY DEF Windows!Released
<1> HIDE DEF m
<1>4. [cache EXCEPT !.multi = m] = WithHandles(cache, f, m)
  BY <1>2 DEF CacheRecords, WithHandles
<1> HIDE DEF f
<1>5. Windows!Released = WithHandles(cache, f, m)
  BY <1>3, <1>4
<1> QED
  BY <1>1, <1>5, HandlesTidy DEF m

LEMMA StoredFinish ==
    ASSUME Settings, PipeInv, Windows!Finish
    PROVE  Stored'
<1>1. /\ windowPc = "finish" /\ windowPc' \in {"push", "collect", "materialize"}
      /\ cache' = Windows!Released
      /\ opts' = opts /\ level' = level /\ hand' = hand /\ wave' = wave
      /\ pending' = <<>> /\ window' = window /\ async' = "none"
      /\ window # <<>> => windowPc' = "materialize"
  BY DEF Windows!Finish, Windows!AfterRun
<1>2. Prefilling
  BY <1>1 DEF Prefilling
<1>3. /\ Tidy(cache') /\ cache'.order = cache.order /\ cache'.entries = cache.entries
      /\ cache'.multi = cache.multi \ Windows!ToSet(pending)
  BY <1>1, ReleasedTidy
<1>4. cache'.multi = {}
  BY <1>1, <1>3 DEF PipeInv, Stored, Opened
<1>5. Opened'
  BY <1>1, <1>4 DEF Opened, Prefilling
<1>6. Waved'
  BY <1>1 DEF Waved
<1>7. ASSUME ~Windows!Slots PROVE Sized' /\ Recent'
  <2>1. Sized /\ Recent
    BY <1>2, <1>7 DEF PipeInv, Stored
  <2>2. Sized'
    BY <1>1, <2>1 DEF Sized
  <2> DEFINE A == Carried
             B == Carried \cup Windows!ToSet(window)
             n == Len(window)
  <2>3. n \in Nat /\ Held \in Nat /\ Len(<<>>) = 0
    BY Lengths, EmptySeq DEF PipeInv, Flowing
  <2>4. AtMost(cache', A, Held) /\ AtMost(cache', B, n + Held) /\ B \subseteq cache'.entries
    BY <1>3, <2>1 DEF Recent, AtMost
  <2> HIDE DEF A, B, n
  <2>5. B \cup {} = B /\ n + 0 + Held = n + Held
    BY <2>3
  <2>6. /\ B \subseteq cache'.entries
        /\ AtMost(cache', A, Held)
        /\ AtMost(cache', B, n + Held)
        /\ AtMost(cache', B \cup {}, n + 0 + Held)
    BY <2>4, <2>5
  <2>7. /\ Carried' = A /\ Held' = Held /\ window' = window
        /\ (Carried \cup Windows!ToSet(window))' = B
        /\ Windows!ToSet(pending') = {} /\ Len(pending') = 0 /\ Len(window') = n
    BY <1>1, <2>3, SetOfEmpty DEF A, B, n, Carried, Held
  <2>8. Recent'
    BY <2>6, <2>7 DEF Recent
  <2> QED
    BY <2>2, <2>8
<1> QED
  BY <1>1, <1>3, <1>5, <1>6, <1>7, SameKind DEF Stored

LEMMA StoredPrefill ==
    ASSUME Settings, PipeInv, Windows!Prefill
    PROVE  Stored'
<1>1. CASE Windows!Rethrow
  <2>1. windowPc' = "unwind" /\ cache' = Windows!Released
    BY <1>1 DEF Windows!Rethrow, Windows!Throw
  <2>2. Tidy(cache')
    BY <2>1, ReleasedTidy
  <2> QED
    BY <2>1, <2>2 DEF Stored, Prefilling, Opened, Waved
<1> QED
  BY <1>1, StoredCollect, StoredPush, StoredCollected, StoredLaunch, StoredFinish
     DEF Windows!Prefill
\* The groups of a wave stay on the device while the next one is taken.
LEMMA WaveTakes ==
    ASSUME Settings, PipeInv, NEW k \in Key, Windows!Selectable(k),
           NEW d, d = Windows!get(cache, k, opts.pipelined)
    PROVE  /\ Tidy(d) /\ d.multi = {} /\ k \in d.entries
           /\ Windows!ToSet(wave) \subseteq d.entries \cap d.fixed
           /\ AtMost(d, Windows!ToSet(wave) \cup {k}, Len(wave) + 1)
<1> DEFINE W == Windows!ToSet(wave)
           n == Len(wave)
<1>1. windowPc = "frontier" /\ n < WaveCap /\ n \in Nat
  BY Lengths DEF Windows!Selectable, PipeInv, Flowing
<1>2. Sizes /\ Tidy(cache) /\ opts.pipelined \in BOOLEAN
  BY OptionsAre DEF Settings, Sizes, PipeInv, Stored, Flowing, Typed
<1>3. Taken(cache, d, k)
  BY <1>2, GetTakes
<1>4. W \subseteq cache.entries \cap cache.fixed /\ AtMost(cache, W, n)
  BY <1>1 DEF PipeInv, Stored, Waved
<1>5. n < Windows!Capacity(Windows!ClassOf(k))
  <2>1. /\ SingleCapacity \in Nat /\ MultiCapacity \in Nat /\ WaveCap \in Nat
        /\ WaveCap <= SingleCapacity /\ WaveCap <= MultiCapacity
    BY DEF Settings, Windows!WaveAssumption, Windows!CapacityAssumption
  <2>2. n < SingleCapacity /\ n < MultiCapacity
    BY <1>1, <2>1
  <2> QED
    BY <2>2 DEF Windows!Capacity
<1> HIDE DEF W, n
<1>6. W \cup {k} \subseteq d.entries
  BY <1>1, <1>2, <1>3, <1>4, <1>5, TakenStays
<1>7. AtMost(d, W \cup {k}, n + 1)
  BY <1>1, <1>3, <1>4, TakenMoves
<1>8. cache.multi = {}
  BY <1>1, SetOfEmpty DEF PipeInv, Stored, Opened, Flowing, Placed, Between
<1>9. Tidy(d) /\ d.multi = {} /\ cache.fixed \cap d.entries \subseteq d.fixed
  BY <1>3, <1>8 DEF Taken
<1>10. W \subseteq d.entries \cap d.fixed
  BY <1>4, <1>6, <1>9
<1> QED
  BY <1>6, <1>7, <1>9, <1>10 DEF W, n

LEMMA MaterializeTidy ==
    ASSUME NEW c, Tidy(c), NEW k \in c.entries
    PROVE  LET d == Windows!materialize_device(c, k) IN
           /\ Tidy(d) /\ d.order = c.order /\ d.entries = c.entries
           /\ d.fixed = c.fixed \cup {k} /\ d.multi = c.multi
<1> DEFINE f == c.fixed \cup {k}
           m == c.multi
<1>1. c \in CacheRecords /\ f \cup m \subseteq c.entries
  BY DEF Tidy
<1>2. Windows!materialize_device(c, k) = [c EXCEPT !.fixed = f]
  BY DEF Windows!materialize_device
<1> HIDE DEF f
<1>3. [c EXCEPT !.fixed = f] = WithHandles(c, f, m)
  BY <1>1 DEF CacheRecords, WithHandles
<1> HIDE DEF m
<1>4. Windows!materialize_device(c, k) = WithHandles(c, f, m)
  BY <1>2, <1>3
<1> QED
  BY <1>1, <1>4, HandlesTidy DEF f, m

LEMMA StoredSelect ==
    ASSUME Settings, PipeInv, Windows!Select
    PROVE  Stored'
<1>1. PICK k \in Key :
         /\ Windows!Selectable(k)
         /\ cache' = Windows!materialize_device(Windows!get(cache, k, opts.pipelined), k)
         /\ wave' = Append(wave, k)
         /\ UNCHANGED <<opts, level, todo, hand, window, pending, async, states, windowPc>>
  BY DEF Windows!Select
<1> DEFINE d == Windows!get(cache, k, opts.pipelined)
           W == Windows!ToSet(wave)
           n == Len(wave)
<1>2. /\ Tidy(d) /\ d.multi = {} /\ k \in d.entries
      /\ W \subseteq d.entries \cap d.fixed
      /\ AtMost(d, W \cup {k}, n + 1)
  BY <1>1, WaveTakes
<1>3. cache' = Windows!materialize_device(d, k)
  BY <1>1
<1> HIDE DEF d
<1>4. /\ Tidy(cache') /\ cache'.order = d.order /\ cache'.entries = d.entries
      /\ cache'.fixed = d.fixed \cup {k} /\ cache'.multi = {}
  BY <1>2, <1>3, MaterializeTidy
<1>5. /\ windowPc = "frontier" /\ windowPc' = "frontier" /\ n < WaveCap /\ n \in Nat
      /\ WaveCap \in Nat
  BY <1>1, Lengths DEF Windows!Selectable, PipeInv, Flowing, Settings, Windows!WaveAssumption
<1>6. Windows!ToSet(wave') = W \cup {k} /\ Len(wave') = n + 1
  BY <1>1, SetOfAppend DEF PipeInv, Flowing, Typed
<1> HIDE DEF W, n
<1>7. AtMost(cache', W \cup {k}, n + 1)
  BY <1>2, <1>4 DEF AtMost
<1>8. n + 1 <= WaveCap
  BY <1>5
<1>9. Waved'
  BY <1>2, <1>4, <1>5, <1>6, <1>7, <1>8 DEF Waved
<1>10. Opened'
  BY <1>4, <1>5 DEF Opened, Prefilling
<1> QED
  BY <1>4, <1>5, <1>9, <1>10 DEF Stored, Prefilling

LEMMA StoredFrontier ==
    ASSUME Settings, PipeInv, Windows!Frontier
    PROVE  Stored'
<1>0. Tidy(cache) /\ Opened /\ Waved
  BY DEF PipeInv, Stored
<1>1. CASE Windows!Select
  BY <1>1, StoredSelect
<1>2. CASE Windows!Reject
  <2>1. PICK k \in Key :
           /\ Windows!Selectable(k)
           /\ cache' = Windows!get(cache, k, opts.pipelined)
           /\ windowPc' = "execute" /\ wave' = wave
    BY <1>2 DEF Windows!Reject
  <2>2. /\ Tidy(cache') /\ cache'.multi = {}
        /\ Windows!ToSet(wave) \subseteq cache'.entries \cap cache'.fixed
    BY <2>1, WaveTakes
  <2>3. Opened' /\ Waved'
    BY <2>1, <2>2 DEF Opened, Waved, Prefilling
  <2> QED
    BY <2>1, <2>2, <2>3 DEF Stored, Prefilling
<1>3. CASE Windows!Begin
  <2>1. /\ windowPc = "frontier" /\ windowPc' = "execute"
        /\ wave' = wave /\ cache' = cache /\ pending' = pending
    BY <1>3 DEF Windows!Begin
  <2>2. Opened' /\ Waved'
    BY <1>0, <2>1 DEF Opened, Waved, Prefilling
  <2> QED
    BY <1>0, <2>1, <2>2 DEF Stored, Prefilling
<1>4. CASE Windows!Execute
  <2>1. /\ windowPc = "execute" /\ windowPc' \in {"frontier", "execute"}
        /\ wave # <<>> /\ wave' = Tail(wave) /\ cache' = cache /\ pending' = pending
        /\ windowPc' = "frontier" => wave' = <<>>
    BY <1>4 DEF Windows!Execute, PipeInv, Flowing, Placed
  <2>2. Windows!ToSet(wave') \subseteq Windows!ToSet(wave)
    BY <2>1, SetOfTail DEF PipeInv, Flowing, Typed
  <2>3. 0 <= WaveCap /\ Len(<<>>) = 0
    BY EmptySeq DEF Settings, Windows!WaveAssumption
  <2>4. Waved'
    BY <1>0, <2>1, <2>2, <2>3, SetOfEmpty, NoneAtMost DEF Waved
  <2>5. Opened'
    BY <1>0, <2>1 DEF Opened, Prefilling
  <2> QED
    BY <1>0, <2>1, <2>4, <2>5 DEF Stored, Prefilling
<1>5. CASE Windows!LevelDone
  <2>1. /\ windowPc = "frontier" /\ windowPc' = "plan"
        /\ cache' = cache /\ pending' = pending
    BY <1>5 DEF Windows!LevelDone
  <2>2. Opened' /\ Waved'
    BY <1>0, <2>1 DEF Opened, Waved, Prefilling
  <2> QED
    BY <1>0, <2>1, <2>2 DEF Stored, Prefilling
<1> QED
  BY <1>1, <1>2, <1>3, <1>4, <1>5 DEF Windows!Frontier

LEMMA StoredEnds ==
    ASSUME Settings, PipeInv, Windows!Close \/ Windows!Unwind \/ Windows!Optimize
    PROVE  Stored'
<1>0. Tidy(cache) /\ Opened /\ Waved /\ Sizes
  BY DEF PipeInv, Stored, Settings, Sizes
<1>1. CASE Windows!Close \/ Windows!Unwind
  <2>1. windowPc' = "done" /\ cache' = Windows!EmptyCache
    BY <1>0, <1>1, ClearEmpties DEF Windows!Close, Windows!Unwind
  <2>2. Tidy(cache')
    BY <1>0, <2>1, EmptyTidy
  <2> QED
    BY <2>1, <2>2 DEF Stored, Opened, Waved, Prefilling
<1>2. CASE Windows!Optimize
  <2>1. /\ UNCHANGED <<opts, level, hand, window, pending, wave, cache, windowPc>>
        /\ async = "running"
    BY <1>2 DEF Windows!Optimize
  <2>2. Opened'
    BY <1>0, <2>1, SameKind DEF Opened, Prefilling
  <2>3. Waved'
    BY <1>0, <2>1 DEF Waved
  <2>4. Sized => Sized'
    BY <2>1 DEF Sized
  <2>5. Recent => Recent'
    BY <2>1 DEF Recent, Carried, Held
  <2> QED
    BY <2>1, <2>2, <2>3, <2>4, <2>5, SameKind DEF PipeInv, Stored, Prefilling
<1> QED
  BY <1>1, <1>2

LEMMA StoredFault ==
    ASSUME Settings, PipeInv, Windows!Fault
    PROVE  Stored'
<1>0. Sizes /\ Tidy(cache) /\ opts.pipelined \in BOOLEAN
  BY OptionsAre DEF Settings, Sizes, PipeInv, Stored, Flowing, Typed
<1>1. CASE Windows!CollectFails
  <2>1. /\ windowPc' = "unwind" /\ cache' = Windows!GetFails(cache, Head(todo))
        /\ Head(todo) \in Key
    BY <1>1, SetOfTail DEF Windows!CollectFails, Windows!Throw, PipeInv, Flowing, Typed
  <2>2. Tidy(cache')
    BY <1>0, <2>1, GetFailsTidy
  <2> QED
    BY <2>1, <2>2 DEF Stored, Opened, Waved, Prefilling
<1>2. CASE Windows!LaunchFails
  <2>1. windowPc = "materialize" /\ windowPc' = "unwind"
    BY <1>2 DEF Windows!LaunchFails, Windows!Throw
  <2>2. PICK n, m \in 0 .. Len(window) :
           cache' = [cache EXCEPT
                !.fixed = IF opts.pipelined
                            THEN @ \cup Windows!ToSet(SubSeq(window, 1, n)) ELSE @,
                !.multi = IF Windows!Multi /\ ~Windows!Slots
                            THEN @ \cup Windows!ToSet(SubSeq(window, 1, m)) ELSE @]
    BY <1>2 DEF Windows!LaunchFails
  <2> DEFINE f == IF opts.pipelined THEN cache.fixed \cup Windows!ToSet(SubSeq(window, 1, n))
                  ELSE cache.fixed
             g == IF Windows!Multi /\ ~Windows!Slots
                  THEN cache.multi \cup Windows!ToSet(SubSeq(window, 1, m)) ELSE cache.multi
  <2>3. cache' = WithHandles(cache, f, g)
    BY <1>0, <2>2 DEF WithHandles, Tidy, CacheRecords
  <2>4. /\ Windows!ToSet(SubSeq(window, 1, n)) \subseteq Windows!ToSet(window)
        /\ Windows!ToSet(SubSeq(window, 1, m)) \subseteq Windows!ToSet(window)
    BY SetOfPart DEF PipeInv, Flowing, Typed
  <2>5. Windows!Slots => ~opts.pipelined
    BY OptionsAre DEF Windows!Slots, PipeInv, Flowing, Typed
  <2>6. ~Windows!Slots => Windows!ToSet(window) \subseteq cache.entries
    BY <2>1 DEF PipeInv, Stored, Recent, Prefilling
  <2>7. f \cup g \subseteq cache.entries
    <3>1. cache.fixed \cup cache.multi \subseteq cache.entries
      BY <1>0 DEF Tidy
    <3> QED
      BY <2>4, <2>5, <2>6, <3>1
  <2> HIDE DEF f, g
  <2>8. Tidy(cache')
    BY <1>0, <2>3, <2>7, HandlesTidy
  <2> QED
    BY <2>1, <2>8 DEF Stored, Opened, Waved, Prefilling
<1>3. CASE Windows!FinishFails
  <2>1. windowPc' = "unwind" /\ cache' = Windows!Released
    BY <1>3 DEF Windows!FinishFails, Windows!Throw
  <2>2. Tidy(cache')
    BY <2>1, ReleasedTidy
  <2> QED
    BY <2>1, <2>2 DEF Stored, Opened, Waved, Prefilling
<1>4. CASE Windows!SelectFails
  <2>1. PICK k \in Key :
           \/ cache' = Windows!GetFails(cache, k)
           \/ cache' = Windows!get(cache, k, opts.pipelined)
    BY <1>4 DEF Windows!SelectFails
  <2>2. windowPc' = "unwind"
    BY <1>4 DEF Windows!SelectFails, Windows!Throw
  <2>3. Tidy(cache')
    BY <1>0, <2>1, GetFailsTidy, GetTakes DEF Taken
  <2> QED
    BY <2>2, <2>3 DEF Stored, Opened, Waved, Prefilling
<1>5. CASE Windows!ExecuteFails
  <2>1. windowPc' = "unwind" /\ cache' = cache
    BY <1>5 DEF Windows!ExecuteFails, Windows!Throw
  <2> QED
    BY <1>0, <2>1 DEF Stored, Opened, Waved, Prefilling
<1> QED
  BY <1>1, <1>2, <1>3, <1>4, <1>5 DEF Windows!Fault

LEMMA PipeStutters ==
    ASSUME PipeInv, UNCHANGED Windows!vars
    PROVE  PipeInv'
<1>1. UNCHANGED <<opts, level, todo, hand, window, pending, async, wave, states, cache,
                  windowPc>>
  BY DEF Windows!vars
<1>2. Typed' /\ Placed'
  BY <1>1 DEF PipeInv, Flowing, Typed, Placed, Prefilling, Between
<1>3. Parted'
  BY <1>1, SameLevel DEF PipeInv, Flowing, Parted, Prefilling, Carried
<1>4. Opened' /\ Waved'
  BY <1>1, SameKind DEF PipeInv, Stored, Opened, Waved, Prefilling
<1>5. (Sized => Sized') /\ (Recent => Recent')
  BY <1>1 DEF Sized, Recent, Carried, Held
<1> QED
  BY <1>1, <1>2, <1>3, <1>4, <1>5, SameKind DEF PipeInv, Flowing, Stored, Prefilling

(* The invariant of the prefill: it holds of every call, whatever the      *)
(* levels, widths and capacities, whatever throws and however the          *)
(* optimizer and the calling thread interleave.                            *)
THEOREM PrefillInvariant ==
    ASSUME Settings
    PROVE  Windows!Spec => []PipeInv
<1>1. Windows!Init => PipeInv
  BY FlowInit, StoredInit DEF PipeInv
<1>2. PipeInv /\ [Windows!Next]_Windows!vars => PipeInv'
  <2>1. ASSUME PipeInv, Windows!Next PROVE PipeInv'
    <3>1. Flowing'
      BY <2>1, FlowingStep DEF PipeInv
    <3>2. Stored'
      BY <2>1, StoredNextLevel, StoredPrefill, StoredFrontier, StoredEnds, StoredFault
         DEF Windows!Next, Windows!Main
    <3> QED
      BY <3>1, <3>2 DEF PipeInv
  <2> QED
    BY <2>1, PipeStutters
<1> QED
  BY <1>1, <1>2, PTL DEF Windows!Spec
-----------------------------------------------------------------------------
(* The order of use: the device tier is the recent part of the host tier.  *)

LEMMA PushAhead ==
    ASSUME NEW s, NEW S, Lists(s, S), NEW k \in Key, k \notin S
    PROVE  /\ \A a, b : Windows!Ahead(<<k>> \o s, a, b) =>
                 b # k /\ (a = k \/ (a # k /\ Windows!Ahead(s, a, b)))
           /\ \A a, b : Windows!Ahead(s, a, b) => Windows!Ahead(<<k>> \o s, a, b)
           /\ \A b \in S : Windows!Ahead(<<k>> \o s, k, b)
<1> DEFINE t == <<k>> \o s
           n == Len(s)
<1>1. /\ Lists(t, S \cup {k}) /\ Len(t) = n + 1 /\ t[1] = k
      /\ \A i \in 1 .. n : t[i + 1] = s[i]
  BY PushLists
<1> HIDE DEF t
<1>2. n \in Nat /\ DOMAIN s = 1 .. n /\ DOMAIN t = 1 .. n + 1
  BY <1>1, LenProperties DEF Lists
<1>3. \A i \in 2 .. n + 1 : i - 1 \in 1 .. n /\ t[i] = s[i - 1] /\ t[i] # k
  <2> SUFFICES ASSUME NEW i \in 2 .. n + 1
               PROVE  i - 1 \in 1 .. n /\ t[i] = s[i - 1] /\ t[i] # k
    OBVIOUS
  <2>1. i - 1 \in 1 .. n /\ (i - 1) + 1 = i
    BY <1>2
  <2>2. t[i] = s[i - 1] /\ s[i - 1] \in S
    BY <1>1, <2>1 DEF Lists
  <2> QED
    BY <2>1, <2>2
<1>4. ASSUME NEW a, NEW b, Windows!Ahead(t, a, b)
      PROVE  b # k /\ (a = k \/ (a # k /\ Windows!Ahead(s, a, b)))
  <2>1. PICK i \in 1 .. n + 1, j \in 1 .. n + 1 : i < j /\ t[i] = a /\ t[j] = b
    BY <1>2, <1>4 DEF Windows!Ahead
  <2>2. j \in 2 .. n + 1
    BY <1>2, <2>1
  <2>3. CASE i = 1
    BY <1>1, <1>3, <2>1, <2>2, <2>3
  <2>4. CASE i # 1
    <3>1. i \in 2 .. n + 1 /\ i - 1 < j - 1
      BY <1>2, <2>1, <2>4
    <3> QED
      BY <1>2, <1>3, <2>1, <2>2, <3>1 DEF Windows!Ahead
  <2> QED
    BY <2>3, <2>4
<1>5. ASSUME NEW a, NEW b, Windows!Ahead(s, a, b) PROVE Windows!Ahead(t, a, b)
  <2>1. PICK i \in 1 .. n, j \in 1 .. n : i < j /\ s[i] = a /\ s[j] = b
    BY <1>2, <1>5 DEF Windows!Ahead
  <2>2. i + 1 \in 1 .. n + 1 /\ j + 1 \in 1 .. n + 1 /\ i + 1 < j + 1
    BY <1>2, <2>1
  <2> QED
    BY <1>1, <1>2, <2>1, <2>2 DEF Windows!Ahead
<1>6. ASSUME NEW b \in S PROVE Windows!Ahead(t, k, b)
  <2>1. PICK j \in 1 .. n : s[j] = b
    BY DEF Lists
  <2>2. j + 1 \in 1 .. n + 1 /\ 1 \in 1 .. n + 1 /\ 1 < j + 1
    BY <1>2
  <2> QED
    BY <1>1, <1>2, <2>1, <2>2 DEF Windows!Ahead
<1> QED
  BY <1>4, <1>5, <1>6 DEF t

LEMMA EraseAhead ==
    ASSUME NEW s, NEW S, Lists(s, S), NEW i \in 1 .. Len(s)
    PROVE  /\ \A a, b : Windows!Ahead(Windows!RemoveAt(s, i), a, b) => Windows!Ahead(s, a, b)
           /\ \A a, b : Windows!Ahead(s, a, b) /\ a # s[i] /\ b # s[i] =>
                 Windows!Ahead(Windows!RemoveAt(s, i), a, b)
<1> DEFINE t == Windows!RemoveAt(s, i)
           n == Len(s)
<1>1. /\ Lists(t, S \ {s[i]}) /\ Len(t) = n - 1
      /\ \A j \in 1 .. n - 1 : t[j] = IF j < i THEN s[j] ELSE s[j + 1]
  BY EraseLists
<1> HIDE DEF t
<1>2. n \in Nat /\ n - 1 \in Nat /\ DOMAIN s = 1 .. n /\ DOMAIN t = 1 .. n - 1 /\ i \in 1 .. n
  BY <1>1, LenProperties DEF Lists
<1> HIDE DEF n
<1>3. ASSUME NEW a, NEW b, Windows!Ahead(t, a, b) PROVE Windows!Ahead(s, a, b)
  <2>1. PICK p \in 1 .. n - 1, q \in 1 .. n - 1 : p < q /\ t[p] = a /\ t[q] = b
    BY <1>2, <1>3 DEF Windows!Ahead
  <2> DEFINE x == IF p < i THEN p ELSE p + 1
             y == IF q < i THEN q ELSE q + 1
  <2>2. x \in 1 .. n /\ y \in 1 .. n /\ x < y
    BY <1>2, <2>1
  <2>3. s[x] = a /\ s[y] = b
    BY <1>1, <2>1
  <2> HIDE DEF x, y
  <2> QED
    BY <1>2, <2>2, <2>3 DEF Windows!Ahead
<1>4. ASSUME NEW a, NEW b, Windows!Ahead(s, a, b), a # s[i], b # s[i]
      PROVE  Windows!Ahead(t, a, b)
  <2>1. PICK p \in 1 .. n, q \in 1 .. n : p < q /\ s[p] = a /\ s[q] = b
    BY <1>2, <1>4 DEF Windows!Ahead
  <2>2. p # i /\ q # i
    BY <1>4, <2>1
  <2> DEFINE x == IF p < i THEN p ELSE p - 1
             y == IF q < i THEN q ELSE q - 1
  <2>3. x \in 1 .. n - 1 /\ y \in 1 .. n - 1 /\ x < y
    BY <1>2, <2>1, <2>2
  <2>4. p = IF x < i THEN x ELSE x + 1
    BY <1>2, <2>1, <2>2
  <2>5. q = IF y < i THEN y ELSE y + 1
    BY <1>2, <2>1, <2>2
  <2> HIDE DEF x, y
  <2>6. t[x] = a /\ t[y] = b
    BY <1>1, <2>1, <2>3, <2>4, <2>5
  <2> QED
    BY <1>2, <2>3, <2>6 DEF Windows!Ahead
<1> QED
  BY <1>3, <1>4 DEF t

LEMMA TouchAhead ==
    ASSUME NEW s, NEW S, Lists(s, S), NEW k \in S
    PROVE  /\ \A a, b : Windows!Ahead(Windows!Touch(s, k), a, b) =>
                 b # k /\ (a = k \/ (a # k /\ Windows!Ahead(s, a, b)))
           /\ \A a, b : Windows!Ahead(s, a, b) /\ a # k /\ b # k =>
                 Windows!Ahead(Windows!Touch(s, k), a, b)
           /\ \A b \in S \ {k} : Windows!Ahead(Windows!Touch(s, k), k, b)
<1> DEFINE i == CHOOSE j \in DOMAIN s : s[j] = k
           e == Windows!RemoveAt(s, i)
           t == Windows!Touch(s, k)
           n == Len(s)
<1>1. s \in Seq(Key) /\ n \in Nat /\ DOMAIN s = 1 .. n
  BY LenProperties DEF Lists
<1>2. i \in 1 .. n /\ s[i] = k
  <2>1. \E j \in DOMAIN s : s[j] = k
    BY <1>1 DEF Lists
  <2> QED
    BY <1>1, <2>1
<1>3. t = <<k>> \o e
  BY DEF Windows!Touch
<1> HIDE DEF i
<1>4. Lists(e, S \ {k})
  BY <1>2, EraseLists
<1>5. /\ \A a, b : Windows!Ahead(e, a, b) => Windows!Ahead(s, a, b)
      /\ \A a, b : Windows!Ahead(s, a, b) /\ a # k /\ b # k => Windows!Ahead(e, a, b)
  BY <1>2, EraseAhead
<1>6. k \in Key /\ k \notin S \ {k}
  BY <1>1, <1>2, ElementOfSeq
<1> HIDE DEF e, t
<1>7. /\ \A a, b : Windows!Ahead(t, a, b) =>
            b # k /\ (a = k \/ (a # k /\ Windows!Ahead(e, a, b)))
      /\ \A a, b : Windows!Ahead(e, a, b) => Windows!Ahead(t, a, b)
      /\ \A b \in S \ {k} : Windows!Ahead(t, k, b)
  BY <1>3, <1>4, <1>6, PushAhead
<1>8. /\ \A a, b : Windows!Ahead(t, a, b) =>
            b # k /\ (a = k \/ (a # k /\ Windows!Ahead(s, a, b)))
      /\ \A a, b : Windows!Ahead(s, a, b) /\ a # k /\ b # k => Windows!Ahead(t, a, b)
  BY <1>5, <1>7
<1> QED
  BY <1>7, <1>8 DEF t

LEMMA FrontAhead ==
    ASSUME NEW s, NEW S, Lists(s, S), Len(s) > 0, NEW a, NEW b, Windows!Ahead(s, a, b),
           b # s[Len(s)]
    PROVE  a # s[Len(s)] /\ Windows!Ahead(Windows!Front(s), a, b)
<1> DEFINE t == Windows!Front(s)
           n == Len(s)
<1>1. /\ Lists(t, S \ {s[n]}) /\ Len(t) = n - 1
      /\ \A j \in 1 .. n - 1 : t[j] = s[j]
  BY FrontLists
<1> HIDE DEF t
<1>2. n \in Nat /\ n > 0 /\ DOMAIN s = 1 .. n /\ DOMAIN t = 1 .. n - 1
  BY <1>1, LenProperties DEF Lists
<1>3. PICK i \in 1 .. n, j \in 1 .. n : i < j /\ s[i] = a /\ s[j] = b
  BY <1>2 DEF Windows!Ahead
<1>4. j # n
  BY <1>3
<1> HIDE DEF n
<1>5. i \in 1 .. n - 1 /\ j \in 1 .. n - 1 /\ i # n /\ n \in 1 .. n
  BY <1>2, <1>3, <1>4
<1>6. a # s[n]
  BY <1>3, <1>5 DEF Lists, n
<1>7. Windows!Ahead(t, a, b)
  BY <1>1, <1>2, <1>3, <1>5 DEF Windows!Ahead
<1> QED
  BY <1>6, <1>7 DEF t, n

\* A context brought to the front of both its lists.
Brought(c, d, k) ==
    /\ d.entries = c.entries \cup {k} /\ d.host \subseteq c.host \cup {k}
    /\ \A a, b : Windows!Ahead(d.hostOrder, a, b) =>
          b # k /\ (a = k \/ (a # k /\ Windows!Ahead(c.hostOrder, a, b)))
    /\ \A b \in d.entries \ {k} :
          Windows!ClassOf(b) = Windows!ClassOf(k) =>
             Windows!Ahead(d.order[Windows!ClassOf(k)], k, b)
    /\ \A b \in c.entries : \A a : a # k /\ b # k
          /\ Windows!Ahead(c.order[Windows!ClassOf(b)], a, b) =>
             Windows!Ahead(d.order[Windows!ClassOf(b)], a, b)

LEMMA BroughtForward ==
    ASSUME NEW c, Windows!MostRecent(c), c.entries \subseteq c.host,
           NEW d, NEW k, Brought(c, d, k)
    PROVE  Windows!MostRecent(d)
<1> SUFFICES ASSUME NEW a \in d.host, NEW b \in d.entries,
                    Windows!ClassOf(a) = Windows!ClassOf(b), Windows!Ahead(d.hostOrder, a, b)
             PROVE  a \in d.entries /\ Windows!Ahead(d.order[Windows!ClassOf(b)], a, b)
  BY DEF Windows!MostRecent
<1>1. b # k /\ (a = k \/ (a # k /\ Windows!Ahead(c.hostOrder, a, b)))
  BY DEF Brought
<1>2. CASE a = k
  <2>1. k \in d.entries
    BY DEF Brought
  <2> QED
    BY <1>1, <1>2, <2>1 DEF Brought
<1>3. CASE a # k
  <2>1. a \in c.host /\ b \in c.entries
    BY <1>1, <1>3 DEF Brought
  <2>2. a \in c.entries /\ Windows!Ahead(c.order[Windows!ClassOf(b)], a, b)
    BY <1>1, <1>3, <2>1 DEF Windows!MostRecent
  <2> QED
    BY <1>1, <1>3, <2>1, <2>2 DEF Brought
<1> QED
  BY <1>2, <1>3

LEMMA HostRoomRecent ==
    ASSUME Sizes, NEW c, Tidy(c), Windows!MostRecent(c)
    PROVE  Windows!MostRecent(Windows!HostRoom(c))
<1> DEFINE d == Windows!HostRoom(c)
           s == c.hostOrder
           dormant == {i \in DOMAIN s : s[i] \notin c.entries}
           p == CHOOSE i \in dormant : \A j \in dormant : j <= i
<1>1. CASE ~(Windows!Cardinality(c.host) >= HostCapacity)
  BY <1>1 DEF Windows!HostRoom
<1>2. CASE Windows!Cardinality(c.host) >= HostCapacity
  <2>1. /\ Lists(s, c.host) /\ c \in CacheRecords
        /\ Rows(c.order, c.entries) /\ HostList(c) /\ c.entries \subseteq c.host
    BY DEF Tidy, HostList
  <2>2. Len(s) \in Nat /\ DOMAIN s = 1 .. Len(s)
    BY <2>1, LenProperties DEF Lists
  <2>3. c.host # c.entries
    BY <1>2, <2>1, FullHost
  <2>a. PICK y \in c.host : y \notin c.entries
    BY <2>1, <2>3
  <2>b. \E i \in 1 .. Len(s) : s[i] = y
    BY <2>1, <2>a DEF Lists
  <2>4. \E i \in 1 .. Len(s) : s[i] \notin c.entries
    BY <2>a, <2>b
  <2>5. dormant \subseteq 1 .. Len(s) /\ dormant # {}
    BY <2>2, <2>4
  <2>6. \E i \in dormant : \A j \in dormant : j <= i
    <3> HIDE DEF dormant
    <3> QED
      BY <2>2, <2>5, LastPosition
  <2>7. p \in 1 .. Len(s)
    BY <2>5, <2>6
  <2>8. /\ d.order = c.order /\ d.entries = c.entries /\ d.host \subseteq c.host
    BY HostRoomTidy
  <2>9. d.hostOrder = Windows!RemoveAt(s, p)
    BY <1>2, <2>1 DEF Windows!HostRoom, Windows!evict_host_one, CacheRecords
  <2> HIDE DEF p, dormant, d, s
  <2>10. \A a, b : Windows!Ahead(d.hostOrder, a, b) => Windows!Ahead(s, a, b)
    BY <2>1, <2>7, <2>9, EraseAhead
  <2>11. Windows!MostRecent(d)
    BY <2>8, <2>10 DEF Windows!MostRecent, s
  <2> QED
    BY <2>11 DEF d
<1> QED
  BY <1>1, <1>2

LEMMA DeviceRoomRecent ==
    ASSUME Sizes, NEW c, Tidy(c), Windows!MostRecent(c), NEW class \in Windows!Class
    PROVE  Windows!MostRecent(Windows!DeviceRoom(c, class))
<1> DEFINE d == Windows!DeviceRoom(c, class)
           s == c.order[class]
           v == Windows!Last(s)
<1>1. CASE ~(Len(s) >= Windows!Capacity(class))
  BY <1>1 DEF Windows!DeviceRoom
<1>2. CASE Len(s) >= Windows!Capacity(class)
  <2>1. c \in CacheRecords /\ Lists(s, OfClass(c.entries, class))
    BY DEF Tidy, Rows
  <2>2. Len(s) \in Nat /\ Windows!Capacity(class) \in Nat \ {0}
    BY <2>1, LenProperties, Capacities DEF Lists
  <2>3. Len(s) > 0
    BY <1>2, <2>2
  <2>4. v = s[Len(s)]
    BY <2>1, <2>3, FrontLists
  <2>5. /\ d.order = [c.order EXCEPT ![class] = Windows!Front(s)]
        /\ d.entries = c.entries \ {v}
        /\ d.host = c.host /\ d.hostOrder = c.hostOrder
    BY <1>2, <2>1 DEF Windows!DeviceRoom, Windows!evict_one, Windows!close_context, CacheRecords
  <2>v. v \in OfClass(c.entries, class)
    BY <2>1, <2>3, FrontLists
  <2> HIDE DEF d, v, s
  <2>6. \A x \in Windows!Class :
           d.order[x] = IF x = class THEN Windows!Front(s) ELSE c.order[x]
    <3>1. c.order \in [Windows!Class -> Seq(Key)]
      BY <2>1 DEF CacheRecords
    <3> QED
      BY <2>5, <3>1
  <2>7. ASSUME NEW a \in d.host, NEW b \in d.entries,
               Windows!ClassOf(a) = Windows!ClassOf(b), Windows!Ahead(d.hostOrder, a, b)
        PROVE  a \in d.entries /\ Windows!Ahead(d.order[Windows!ClassOf(b)], a, b)
    <3>1. /\ b \in c.entries /\ b # v /\ a \in c.entries
          /\ Windows!Ahead(c.order[Windows!ClassOf(b)], a, b)
      BY <2>5, <2>7 DEF Windows!MostRecent
    <3>2. CASE Windows!ClassOf(b) = class
      <4>1. Windows!Ahead(s, a, b)
        BY <3>1, <3>2 DEF s
      <4>2. a # s[Len(s)] /\ Windows!Ahead(Windows!Front(s), a, b)
        BY <2>1, <2>3, <2>4, <3>1, <4>1, FrontAhead
      <4> QED
        BY <2>4, <2>5, <2>6, <3>1, <3>2, <4>2
    <3>3. CASE Windows!ClassOf(b) # class
      <4>1. a # v
        BY <2>7, <2>v, <3>3 DEF OfClass
      <4> QED
        BY <2>5, <2>6, <3>1, <3>3, <4>1, ClassOfIs
    <3> QED
      BY <3>2, <3>3
  <2>8. Windows!MostRecent(d)
    BY <2>7 DEF Windows!MostRecent
  <2> QED
    BY <2>8 DEF d
<1> QED
  BY <1>1, <1>2

\* A context put on the device and at the front of the host tier.
LEMMA PlacedRecent ==
    ASSUME Sizes, NEW c, Tidy(c), Windows!MostRecent(c),
           NEW k \in Key, k \notin c.entries,
           Len(c.order[Windows!ClassOf(k)]) < Windows!Capacity(Windows!ClassOf(k)),
           NEW d, d.order = Windows!OnDevice(c, k).order, d.entries = c.entries \cup {k},
           d.host \subseteq c.host \cup {k},
           \A a, b : Windows!Ahead(d.hostOrder, a, b) =>
              b # k /\ (a = k \/ (a # k /\ Windows!Ahead(c.hostOrder, a, b)))
    PROVE  Windows!MostRecent(d)
<1> DEFINE class == Windows!ClassOf(k)
           s == c.order[class]
           t == <<k>> \o s
<1>0. class \in Windows!Class
  BY ClassOfIs
<1>1. c \in CacheRecords /\ Lists(s, OfClass(c.entries, class)) /\ c.entries \subseteq c.host
  BY <1>0 DEF Tidy, Rows, HostList
<1>2. k \notin OfClass(c.entries, class)
  BY DEF OfClass
<1>3. /\ \A a, b : Windows!Ahead(s, a, b) => Windows!Ahead(t, a, b)
      /\ \A b \in OfClass(c.entries, class) : Windows!Ahead(t, k, b)
  BY <1>1, <1>2, PushAhead
<1>4. d.order = [c.order EXCEPT ![class] = t]
  BY <1>1 DEF Windows!OnDevice, CacheRecords
<1>5. c.order \in [Windows!Class -> Seq(Key)]
  BY <1>1 DEF CacheRecords
<1> HIDE DEF class, s, t
<1>6. \A x \in Windows!Class : d.order[x] = IF x = class THEN t ELSE c.order[x]
  BY <1>4, <1>5
<1>7. \A b \in d.entries \ {k} :
         Windows!ClassOf(b) = class => Windows!Ahead(d.order[class], k, b)
  BY <1>0, <1>3, <1>6 DEF OfClass
<1>8. \A b \in c.entries : \A a : a # k /\ b # k
         /\ Windows!Ahead(c.order[Windows!ClassOf(b)], a, b) =>
            Windows!Ahead(d.order[Windows!ClassOf(b)], a, b)
  BY <1>3, <1>6, ClassOfIs DEF s
<1>9. \A b \in d.entries \ {k} :
         Windows!ClassOf(b) = Windows!ClassOf(k) =>
            Windows!Ahead(d.order[Windows!ClassOf(k)], k, b)
  BY <1>7 DEF class
<1>10. /\ d.entries = c.entries \cup {k} /\ d.host \subseteq c.host \cup {k}
       /\ \A a, b : Windows!Ahead(d.hostOrder, a, b) =>
             b # k /\ (a = k \/ (a # k /\ Windows!Ahead(c.hostOrder, a, b)))
  OBVIOUS
<1>11. c.entries \subseteq c.host
  BY <1>1
<1>12. Brought(c, d, k)
  BY <1>8, <1>9, <1>10 DEF Brought
<1> QED
  BY <1>11, <1>12, BroughtForward

LEMMA DeviceHitRecent ==
    ASSUME Sizes, NEW c, Tidy(c), Windows!MostRecent(c), NEW k \in c.entries
    PROVE  Windows!MostRecent(Windows!DeviceHit(c, k))
<1> DEFINE class == Windows!ClassOf(k)
           d == Windows!DeviceHit(c, k)
           s == c.order[class]
           t == Windows!Touch(s, k)
           h == Windows!Touch(c.hostOrder, k)
<1>0. class \in Windows!Class
  BY ClassOfIs
<1>1. /\ c \in CacheRecords /\ Lists(s, OfClass(c.entries, class))
      /\ Lists(c.hostOrder, c.host) /\ c.entries \subseteq c.host
  BY <1>0 DEF Tidy, Rows, HostList
<1>2. k \in OfClass(c.entries, class) /\ k \in c.host
  BY <1>1 DEF OfClass
<1>3. /\ \A a, b : Windows!Ahead(s, a, b) /\ a # k /\ b # k => Windows!Ahead(t, a, b)
      /\ \A b \in OfClass(c.entries, class) \ {k} : Windows!Ahead(t, k, b)
  BY <1>1, <1>2, TouchAhead
<1>4. \A a, b : Windows!Ahead(h, a, b) =>
         b # k /\ (a = k \/ (a # k /\ Windows!Ahead(c.hostOrder, a, b)))
  BY <1>1, <1>2, TouchAhead
<1>5. /\ d.order = [c.order EXCEPT ![class] = t] /\ d.entries = c.entries
      /\ d.host = c.host /\ d.hostOrder = h
  BY <1>1 DEF Windows!DeviceHit, Windows!touch_host, CacheRecords
<1>6. c.order \in [Windows!Class -> Seq(Key)]
  BY <1>1 DEF CacheRecords
<1> HIDE DEF class, d, s, t, h
<1>7. \A x \in Windows!Class : d.order[x] = IF x = class THEN t ELSE c.order[x]
  BY <1>5, <1>6
<1>8. \A b \in d.entries \ {k} :
         Windows!ClassOf(b) = class => Windows!Ahead(d.order[class], k, b)
  BY <1>0, <1>3, <1>5, <1>7 DEF OfClass
<1>9. \A b \in c.entries : \A a : a # k /\ b # k
         /\ Windows!Ahead(c.order[Windows!ClassOf(b)], a, b) =>
            Windows!Ahead(d.order[Windows!ClassOf(b)], a, b)
  BY <1>3, <1>7, ClassOfIs DEF s
<1>10. \A b \in d.entries \ {k} :
         Windows!ClassOf(b) = Windows!ClassOf(k) =>
            Windows!Ahead(d.order[Windows!ClassOf(k)], k, b)
  BY <1>8 DEF class
<1>11. /\ d.entries = c.entries \cup {k} /\ d.host \subseteq c.host \cup {k}
       /\ \A a, b : Windows!Ahead(d.hostOrder, a, b) =>
             b # k /\ (a = k \/ (a # k /\ Windows!Ahead(c.hostOrder, a, b)))
  BY <1>4, <1>5
<1>a. Brought(c, d, k)
  BY <1>9, <1>10, <1>11 DEF Brought
<1>12. Windows!MostRecent(d)
  BY <1>1, <1>a, BroughtForward
<1> QED
  BY <1>12 DEF d

LEMMA HostHitRecent ==
    ASSUME Sizes, NEW c, Tidy(c), Windows!MostRecent(c),
           NEW k \in c.host, k \notin c.entries
    PROVE  Windows!MostRecent(Windows!HostHit(c, k))
<1> DEFINE class == Windows!ClassOf(k)
           r == Windows!DeviceRoom(c, class)
           d == Windows!HostHit(c, k)
           h == Windows!Touch(c.hostOrder, k)
<1>0. class \in Windows!Class
  BY ClassOfIs
<1>1. /\ Tidy(r) /\ Len(r.order[class]) < Windows!Capacity(class)
      /\ r.entries \subseteq c.entries
      /\ r.host = c.host /\ r.hostOrder = c.hostOrder
  BY <1>0, DeviceRoomTidy
<1>2. Windows!MostRecent(r)
  BY <1>0, DeviceRoomRecent
<1> HIDE DEF r
<1>3. r \in CacheRecords /\ Lists(c.hostOrder, c.host) /\ k \in Key
  BY <1>1 DEF Tidy, HostList, CacheRecords
<1>4. \A a, b : Windows!Ahead(h, a, b) =>
         b # k /\ (a = k \/ (a # k /\ Windows!Ahead(c.hostOrder, a, b)))
  BY <1>3, TouchAhead
<1>5. /\ d.order = Windows!OnDevice(r, k).order /\ d.entries = r.entries \cup {k}
      /\ d.host = r.host /\ d.hostOrder = h
  BY <1>1, <1>3 DEF Windows!HostHit, Windows!touch_host, Windows!OnDevice, r, h, CacheRecords
<1> HIDE DEF h, d
<1>6. Windows!MostRecent(d)
  <2>1. /\ k \notin r.entries /\ d.host \subseteq r.host \cup {k}
        /\ \A a, b : Windows!Ahead(d.hostOrder, a, b) =>
              b # k /\ (a = k \/ (a # k /\ Windows!Ahead(r.hostOrder, a, b)))
    BY <1>1, <1>4, <1>5
  <2> QED
    BY <1>1, <1>2, <1>3, <1>5, <2>1, PlacedRecent
<1> QED
  BY <1>6 DEF d

LEMMA MissRecent ==
    ASSUME Sizes, NEW c, Tidy(c), Windows!MostRecent(c),
           NEW k \in Key, k \notin c.host, NEW deferred \in BOOLEAN
    PROVE  Windows!MostRecent(Windows!Miss(c, k, deferred))
<1> DEFINE class == Windows!ClassOf(k)
           b0 == Windows!HostRoom(c)
           r == Windows!DeviceRoom(b0, class)
           d == Windows!Miss(c, k, deferred)
           h == <<k>> \o r.hostOrder
<1>0. class \in Windows!Class
  BY ClassOfIs
<1>1. Tidy(b0) /\ Windows!MostRecent(b0) /\ b0.host \subseteq c.host
  BY HostRoomTidy, HostRoomRecent
<1> HIDE DEF b0
<1>2. /\ Tidy(r) /\ Len(r.order[class]) < Windows!Capacity(class)
      /\ r.host = b0.host /\ r.hostOrder = b0.hostOrder
  BY <1>0, <1>1, DeviceRoomTidy
<1>3. Windows!MostRecent(r)
  BY <1>0, <1>1, DeviceRoomRecent
<1> HIDE DEF r
<1>4. r \in CacheRecords /\ Lists(r.hostOrder, r.host) /\ r.entries \subseteq r.host
  BY <1>2 DEF Tidy, HostList
<1>5. k \notin r.host /\ k \notin r.entries
  BY <1>1, <1>2, <1>4
<1>6. \A a, b : Windows!Ahead(h, a, b) =>
         b # k /\ (a = k \/ (a # k /\ Windows!Ahead(r.hostOrder, a, b)))
  BY <1>4, <1>5, PushAhead
<1>7. /\ d.order = Windows!OnDevice(r, k).order /\ d.entries = r.entries \cup {k}
      /\ d.host = r.host \cup {k} /\ d.hostOrder = h
  BY <1>4 DEF Windows!Miss, Windows!OnDevice, r, b0, CacheRecords
<1> HIDE DEF h, d
<1>8. Windows!MostRecent(d)
  BY <1>2, <1>3, <1>5, <1>6, <1>7, PlacedRecent
<1> QED
  BY <1>8 DEF d

LEMMA GetRecent ==
    ASSUME Sizes, NEW c, Tidy(c), Windows!MostRecent(c), NEW k \in Key,
           NEW deferred \in BOOLEAN
    PROVE  Windows!MostRecent(Windows!get(c, k, deferred))
BY DeviceHitRecent, HostHitRecent, MissRecent DEF Windows!get

LEMMA GetFailsRecent ==
    ASSUME Sizes, NEW c, Tidy(c), Windows!MostRecent(c), NEW k \in Key
    PROVE  Windows!MostRecent(Windows!GetFails(c, k))
BY ClassOfIs, DeviceRoomRecent, HostRoomRecent DEF Windows!GetFails

LEMMA StepRecent ==
    ASSUME Settings, PipeInv, Windows!DeviceIsMostRecent, Windows!Next
    PROVE  Windows!DeviceIsMostRecent'
<1> SUFFICES Windows!MostRecent(cache')
  BY DEF Windows!DeviceIsMostRecent
<1>0. /\ Sizes /\ Tidy(cache) /\ opts.pipelined \in BOOLEAN
      /\ Windows!MostRecent(cache)
  BY OptionsAre DEF Settings, Sizes, PipeInv, Stored, Flowing, Typed,
     Windows!DeviceIsMostRecent
<1>1. ASSUME cache'.hostOrder = cache.hostOrder, cache'.host = cache.host,
             cache'.order = cache.order, cache'.entries = cache.entries
      PROVE  Windows!MostRecent(cache')
  BY <1>0, <1>1 DEF Windows!MostRecent
<1>2. ASSUME cache' = Windows!EmptyCache PROVE Windows!MostRecent(cache')
  <2>1. cache'.host = {}
    BY <1>2 DEF Windows!EmptyCache
  <2> QED
    BY <2>1 DEF Windows!MostRecent
<1>3. ASSUME cache' = cache PROVE Windows!MostRecent(cache')
  BY <1>0, <1>3
<1>4. cache \in CacheRecords
  BY <1>0 DEF Tidy
<1>5. CASE Windows!NextLevel
  BY <1>3, <1>5 DEF Windows!NextLevel
<1>6. CASE Windows!Prefill
  <2>1. CASE Windows!Collect
    <3>1. Head(todo) \in Key
      BY <2>1, SetOfTail DEF Windows!Collect, PipeInv, Flowing, Typed
    <3> QED
      BY <1>0, <2>1, <3>1, GetRecent DEF Windows!Collect
  <2>2. CASE Windows!Push \/ Windows!Collected \/ Windows!RunWindow
    BY <1>3, <2>2 DEF Windows!Push, Windows!Collected, Windows!RunWindow
  <2>3. CASE Windows!Launch
    <3>1. /\ Windows!Handles.hostOrder = cache.hostOrder /\ Windows!Handles.host = cache.host
          /\ Windows!Handles.order = cache.order /\ Windows!Handles.entries = cache.entries
      BY <1>4 DEF Windows!Handles, CacheRecords
    <3> QED
      BY <1>1, <2>3, <3>1 DEF Windows!Launch
  <2>4. CASE Windows!Finish \/ Windows!Rethrow
    <3>1. /\ Windows!Released.hostOrder = cache.hostOrder /\ Windows!Released.host = cache.host
          /\ Windows!Released.order = cache.order /\ Windows!Released.entries = cache.entries
      BY <1>4 DEF Windows!Released, CacheRecords
    <3> QED
      BY <1>1, <2>4, <3>1 DEF Windows!Finish, Windows!Rethrow
  <2> QED
    BY <1>6, <2>1, <2>2, <2>3, <2>4 DEF Windows!Prefill
<1>7. CASE Windows!Frontier
  <2>1. CASE Windows!Select
    <3>1. PICK k \in Key : cache' = Windows!materialize_device(
                                       Windows!get(cache, k, opts.pipelined), k)
      BY <2>1 DEF Windows!Select
    <3> DEFINE d == Windows!get(cache, k, opts.pipelined)
    <3>2. Windows!MostRecent(d) /\ Tidy(d)
      BY <1>0, GetRecent, GetTakes DEF Taken
    <3>3. cache' = Windows!materialize_device(d, k)
      BY <3>1
    <3> HIDE DEF d
    <3>4. d \in CacheRecords
      BY <3>2 DEF Tidy
    <3>5. /\ cache'.hostOrder = d.hostOrder /\ cache'.host = d.host
          /\ cache'.order = d.order /\ cache'.entries = d.entries
      BY <3>3, <3>4 DEF Windows!materialize_device, CacheRecords
    <3> QED
      BY <3>2, <3>5 DEF Windows!MostRecent
  <2>2. CASE Windows!Reject
    BY <1>0, <2>2, GetRecent DEF Windows!Reject
  <2>3. CASE Windows!Begin \/ Windows!Execute \/ Windows!LevelDone
    BY <1>3, <2>3 DEF Windows!Begin, Windows!Execute, Windows!LevelDone
  <2> QED
    BY <1>7, <2>1, <2>2, <2>3 DEF Windows!Frontier
<1>8. CASE Windows!Close \/ Windows!Unwind
  BY <1>0, <1>2, <1>8, ClearEmpties DEF Windows!Close, Windows!Unwind
<1>9. CASE Windows!Fault
  <2>1. CASE Windows!CollectFails
    <3>1. Head(todo) \in Key
      BY <2>1, SetOfTail DEF Windows!CollectFails, PipeInv, Flowing, Typed
    <3> QED
      BY <1>0, <2>1, <3>1, GetFailsRecent DEF Windows!CollectFails
  <2>2. CASE Windows!LaunchFails
    <3>1. PICK f, m : cache' = [cache EXCEPT !.fixed = f, !.multi = m]
      BY <2>2 DEF Windows!LaunchFails
    <3>2. /\ cache'.hostOrder = cache.hostOrder /\ cache'.host = cache.host
          /\ cache'.order = cache.order /\ cache'.entries = cache.entries
      BY <1>4, <3>1 DEF CacheRecords
    <3> QED
      BY <1>1, <3>2
  <2>3. CASE Windows!FinishFails
    <3>1. /\ Windows!Released.hostOrder = cache.hostOrder /\ Windows!Released.host = cache.host
          /\ Windows!Released.order = cache.order /\ Windows!Released.entries = cache.entries
      BY <1>4 DEF Windows!Released, CacheRecords
    <3> QED
      BY <1>1, <2>3, <3>1 DEF Windows!FinishFails
  <2>4. CASE Windows!SelectFails
    <3>1. PICK k \in Key :
             \/ cache' = Windows!GetFails(cache, k)
             \/ cache' = Windows!get(cache, k, opts.pipelined)
      BY <2>4 DEF Windows!SelectFails
    <3> QED
      BY <1>0, <3>1, GetFailsRecent, GetRecent
  <2>5. CASE Windows!ExecuteFails
    BY <1>3, <2>5 DEF Windows!ExecuteFails
  <2> QED
    BY <1>9, <2>1, <2>2, <2>3, <2>4, <2>5 DEF Windows!Fault
<1>10. CASE Windows!Optimize
  BY <1>3, <1>10 DEF Windows!Optimize
<1> QED
  BY <1>5, <1>6, <1>7, <1>8, <1>9, <1>10 DEF Windows!Next, Windows!Main

(* Both tiers evict in one order although their lists are kept by separate *)
(* code: what is on the device is what was used last.                      *)
THEOREM DeviceKeepsRecent ==
    ASSUME Settings
    PROVE  Windows!Spec => []Windows!DeviceIsMostRecent
<1>1. Windows!Init => Windows!DeviceIsMostRecent
  <2> SUFFICES ASSUME Windows!Init PROVE Windows!MostRecent(cache)
    BY DEF Windows!DeviceIsMostRecent
  <2>1. cache.host = {}
    BY DEF Windows!Init, Windows!EmptyCache
  <2> QED
    BY <2>1 DEF Windows!MostRecent
<1>2. PipeInv /\ Windows!DeviceIsMostRecent /\ [Windows!Next]_Windows!vars
         => Windows!DeviceIsMostRecent'
  <2>1. UNCHANGED Windows!vars => cache' = cache
    BY DEF Windows!vars
  <2>2. Windows!DeviceIsMostRecent /\ cache' = cache => Windows!DeviceIsMostRecent'
    BY DEF Windows!DeviceIsMostRecent
  <2> QED
    BY <2>1, <2>2, StepRecent
<1> QED
  BY <1>1, <1>2, PrefillInvariant, PTL DEF Windows!Spec

LEMMA TidyIsConsistent ==
    ASSUME NEW c, Tidy(c)
    PROVE  Windows!Consistent(c)
<1>1. /\ c \in CacheRecords /\ Rows(c.order, c.entries) /\ HostList(c) /\ c.live = c.entries
  BY DEF Tidy
<1>2. ASSUME NEW class \in Windows!Class
      PROVE  /\ Windows!IsInjective(c.order[class])
             /\ Windows!ToSet(c.order[class]) = {k \in c.entries : Windows!ClassOf(k) = class}
             /\ Len(c.order[class]) <= Windows!Capacity(class)
  <2>1. Lists(c.order[class], OfClass(c.entries, class)) /\ c.order[class] \in Seq(Key)
    BY <1>1 DEF Rows, Lists
  <2>2. /\ Windows!IsInjective(c.order[class])
        /\ Windows!ToSet(c.order[class]) = OfClass(c.entries, class)
    BY <2>1, ListsMeans
  <2> QED
    BY <1>1, <2>2 DEF Rows, OfClass
<1>3. Windows!IsInjective(c.hostOrder) /\ Windows!ToSet(c.hostOrder) = c.host
  <2>1. Lists(c.hostOrder, c.host) /\ c.hostOrder \in Seq(Key)
    BY <1>1 DEF HostList, Lists
  <2> QED
    BY <2>1, ListsMeans
<1> QED
  BY <1>1, <1>2, <1>3 DEF Windows!Consistent, HostList

LEMMA NothingRefusedIn ==
    ASSUME Settings, PipeInv
    PROVE  Windows!NoRefusal
<1>1. /\ Sizes /\ Tidy(cache) /\ Rows(cache.order, cache.entries) /\ HostList(cache)
      /\ cache.fixed \cup cache.multi \subseteq cache.entries
  BY DEF Settings, Sizes, PipeInv, Stored, Tidy
<1>2. (cache.host \ cache.entries) \cap (cache.fixed \cup cache.multi) = {}
  BY <1>1
<1>3. Windows!Cardinality(cache.host) >= HostCapacity => cache.host # cache.entries
  BY <1>1, FullHost
<1>4. ASSUME windowPc \in {"run", "materialize"}
      PROVE  (Windows!ToSet(window) \ cache.fixed) \cap cache.multi = {}
  <2>1. cache.multi \subseteq Windows!ToSet(pending)
    BY <1>4 DEF PipeInv, Stored, Opened
  <2>2. Windows!ToSet(window) \cap Windows!ToSet(pending) = {}
    BY DEF PipeInv, Flowing, Parted
  <2> QED
    BY <2>1, <2>2
<1>5. ASSUME windowPc = "finish", async = "done", ~Windows!Slots
      PROVE  IF Windows!Multi THEN Windows!ToSet(pending) \subseteq cache.multi
                              ELSE Windows!ToSet(pending) \cap cache.multi = {}
  BY <1>5 DEF PipeInv, Stored, Opened, Prefilling
<1>6. windowPc = "execute" => Head(wave) \in cache.fixed
  <2> SUFFICES ASSUME windowPc = "execute" PROVE Head(wave) \in cache.fixed
    OBVIOUS
  <2>1. wave # <<>> /\ wave \in Seq(Key)
    BY DEF PipeInv, Flowing, Typed, Placed
  <2>2. Head(wave) \in Windows!ToSet(wave)
    BY <2>1, SetOfTail
  <2> QED
    BY <2>2 DEF PipeInv, Stored, Waved
<1> QED
  BY <1>2, <1>3, <1>4, <1>5, <1>6 DEF Windows!NoRefusal

(* PrefillSound for every call: the containers of NativeSetupCache agree,  *)
(* both tiers evict in one order, a handle belongs to a cached context, a  *)
(* window is new, no guard between the cache and its users fires, nothing  *)
(* is open at the end, and with fresh caches the frontier starts only when *)
(* every group of the level has been optimized.                            *)
THEOREM PrefillIsSound ==
    ASSUME Settings
    PROVE  Windows!Spec => []PrefillSound
<1>1. PipeInv /\ Windows!DeviceIsMostRecent => PrefillSound
  <2> SUFFICES ASSUME PipeInv, Windows!DeviceIsMostRecent PROVE PrefillSound
    OBVIOUS
  <2>1. Windows!CacheConsistent
    BY TidyIsConsistent DEF PipeInv, Stored, Windows!CacheConsistent
  <2>2. Windows!HandlesAreCached
    BY DEF PipeInv, Stored, Tidy, Windows!HandlesAreCached
  <2>3. Windows!WindowIsNew
    <3>1. CASE Prefilling
      BY <3>1 DEF PipeInv, Flowing, Parted, Windows!WindowIsNew
    <3>2. CASE Between
      <4>1. window = <<>> /\ pending = <<>>
        BY <3>2 DEF PipeInv, Flowing, Placed
      <4> QED
        BY <4>1, SetOfEmpty DEF Windows!WindowIsNew
    <3>3. CASE windowPc = "unwind"
      BY <3>3 DEF PipeInv, Flowing, Parted, Windows!WindowIsNew
    <3> QED
      BY <3>1, <3>2, <3>3 DEF PipeInv, Flowing, Typed, Prefilling, Between
  <2>4. Windows!NoRefusal
    BY NothingRefusedIn
  <2>5. Windows!ClosedAtEnd
    BY DEF PipeInv, Stored, Flowing, Placed, Between, Windows!ClosedAtEnd
  <2>6. Windows!LevelPrefilled
    BY DEF PipeInv, Flowing, Placed, Parted, Between, Windows!LevelPrefilled
  <2> QED
    BY <2>1, <2>2, <2>3, <2>4, <2>5, <2>6 DEF PrefillSound
<1> QED
  BY <1>1, PrefillInvariant, DeviceKeepsRecent, PTL

(* Every variable of the prefill keeps its type.                           *)
THEOREM PrefillTypes ==
    ASSUME Settings
    PROVE  Windows!Spec => []Windows!TypeOK
<1>1. PipeInv => Windows!TypeOK
  <2> SUFFICES ASSUME PipeInv PROVE Windows!TypeOK
    OBVIOUS
  <2>1. Typed /\ cache \in CacheRecords
    BY DEF PipeInv, Flowing, Stored, Tidy
  <2>2. Windows!CacheType(cache)
    BY <2>1 DEF Windows!CacheType, CacheRecords
  <2> QED
    BY <2>1, <2>2 DEF Typed, Windows!TypeOK
<1> QED
  BY <1>1, PrefillInvariant, PTL
=============================================================================
