------------------------ MODULE FixedSpRuntimeProofs ------------------------
(* Proofs about FixedSpRuntime, about the batch it solves, FixedSpSolve,   *)
(* about what it allocates, FixedSpResources, about the persistent setups  *)
(* of the optimizer, PreparedGcv, and about the pointers by which R holds  *)
(* device objects, ExternalHandles.                                        *)
EXTENDS MCFixedSp, SequencesExt, SequenceTheorems, FiniteSetTheorems, TLAPS

(* The stream is a queue: solves leave it in the order they were made, so  *)
(* behind a queued solve every later one is queued too.                    *)
StreamInv ==
    /\ \A i \in DOMAIN stream : stream[i].of \in 1..Solved
    /\ \A i, j \in DOMAIN stream :
          i < j /\ stream[i].kind = "solve" /\ stream[j].kind = "solve" =>
              stream[i].of < stream[j].of
    /\ \A i \in DOMAIN stream : \A t \in 1..Solved :
          stream[i].kind = "solve" /\ stream[i].of < t => ~Ready(t)

(* An unreleased token leases its handle's slot.                           *)
LeaseInv ==
    \A t \in 1..Solved :
        /\ token[t].owner = IF token[t].freed THEN 0 ELSE token[t].handle
        /\ token[t].freed => token[t].released
        /\ ~token[t].released =>
              /\ slot[token[t].handle].owner = t
              /\ slot[token[t].handle].generation = token[t].generation

(* The deferred token in flight is the last one made, nobody solves until  *)
(* it is resolved, and once its solve is done the arena is its own.        *)
DeferredInv ==
    /\ \A t \in 1..Solved :
          /\ token[t].owns =>
                /\ token[t].deferred /\ ~token[t].resolved
                /\ ~token[t].released /\ context.deferred /\ t = Solved
                /\ slot[token[t].handle].state = "leased"
                /\ Ready(t) => arena = t
          /\ token[t].deferred /\ ~token[t].resolved /\ ~token[t].released =>
                token[t].owns
          /\ token[t].resolved /\ token[t].deferred =>
                token[t].status = token[t].outcome
    /\ context.deferred => \E t \in 1..Solved : token[t].owns

SlotInv ==
    \A h \in Handles :
        /\ slot[h].state = "free" => slot[h].owner = 0 /\ ~slot[h].registered
        /\ slot[h].state = "leased" =>
              slot[h].owner # 0 /\ ~token[slot[h].owner].released
        /\ slot[h].owner # 0 =>
              /\ slot[h].owner \in 1..Solved
              /\ token[slot[h].owner].handle = h
              /\ \A t \in 1..Solved : token[t].handle = h => t <= slot[h].owner
              /\ Ready(slot[h].owner) => data[h] = slot[h].owner

(* While a consumer reads, the slot is poisoned or its event is queued,    *)
(* and nothing queued writes the slot.                                     *)
ReaderInv ==
    \A t \in 1..Solved : consumer[t] = "running" =>
        LET h == token[t].handle IN
        /\ handle[h].life = "usable" /\ data[h] = t
        /\ \/ slot[h].state = "poisoned"
           \/ /\ slot[h].state = "leased" /\ slot[h].owner = t
              /\ slot[h].registered /\ ~ConsumerReady(t)
        /\ \A i \in DOMAIN stream :
              stream[i].kind = "solve" => token[stream[i].of].handle # h

HandleInv ==
    /\ \A h \in Handles : handle[h].registered <=> handle[h].life = "usable"
    /\ context.active = Cardinality({h \in Handles : handle[h].registered})

IInv ==
    /\ TypeOK /\ StreamInv /\ LeaseInv /\ DeferredInv /\ SlotInv
    /\ ReaderInv /\ HandleInv

-----------------------------------------------------------------------------
(* Sequences with one element replaced.                                    *)
LEMMA Replaced ==
    ASSUME NEW S, NEW s \in Seq(S), NEW i \in 1..Len(s), NEW e \in S,
           NEW r, r = [s EXCEPT ![i] = e]
    PROVE  /\ r \in Seq(S)
           /\ Len(r) = Len(s)
           /\ r[i] = e
           /\ \A j \in 1..Len(s) : j # i => r[j] = s[j]
BY ExceptSeq

LEMMA Appended ==
    ASSUME NEW S, NEW s \in Seq(S), NEW e \in S, NEW r, r = Append(s, e)
    PROVE  /\ r \in Seq(S)
           /\ Len(r) = Len(s) + 1
           /\ r[Len(s) + 1] = e
           /\ \A j \in 1..Len(s) : r[j] = s[j]
OBVIOUS

LEMMA Tailed ==
    ASSUME NEW S, NEW s \in Seq(S), s # <<>>, NEW r, r = Tail(s)
    PROVE  /\ r \in Seq(S)
           /\ Len(r) = Len(s) - 1
           /\ Len(s) \in Nat \ {0}
           /\ Head(s) = s[1] /\ s[1] \in S
           /\ \A j \in 1..Len(r) : r[j] = s[j + 1]
OBVIOUS

(* What TypeOK says of one element.                                        *)
LEMMA Typed ==
    ASSUME TypeOK
    PROVE  /\ Solved \in 0..MaxSolves
           /\ DOMAIN token = 1..Solved /\ DOMAIN consumer = 1..Solved
           /\ \A t \in 1..Solved :
                 /\ token[t] \in TokenRecord
                 /\ consumer[t] \in {"none", "view", "running", "done"}
           /\ Len(stream) \in Nat /\ DOMAIN stream = 1..Len(stream)
           /\ \A i \in 1..Len(stream) : stream[i] \in Operation
<1>1. Len(token) \in Nat /\ Len(token) <= MaxSolves
  BY DEF TypeOK, Solved
<1>2. Len(stream) \in Nat
  BY DEF TypeOK
<1>3. Solved \in 0..MaxSolves
  BY <1>1, RuntimeAssumption DEF Solved
<1>4. /\ DOMAIN token = 1..Solved /\ DOMAIN consumer = 1..Solved
      /\ DOMAIN stream = 1..Len(stream)
  BY DEF TypeOK, Solved
<1>5. \A t \in 1..Solved : token[t] \in TokenRecord
  BY <1>4 DEF TypeOK, Solved
<1>6. \A t \in 1..Solved : consumer[t] \in {"none", "view", "running", "done"}
  BY <1>4 DEF TypeOK
<1>7. \A i \in 1..Len(stream) : stream[i] \in Operation
  BY <1>4 DEF TypeOK
<1> QED  BY <1>2, <1>3, <1>4, <1>5, <1>6, <1>7

LEMMA RecordFields ==
    ASSUME NEW r \in TokenRecord
    PROVE  /\ r.handle \in Handles /\ r.owner \in Handles \cup {0}
           /\ r.generation \in Nat /\ r.deferred \in BOOLEAN
           /\ r.outcome \in Results /\ r.owns \in BOOLEAN
           /\ r.resolved \in BOOLEAN /\ r.released \in BOOLEAN
           /\ r.freed \in BOOLEAN /\ r.status \in Results
BY DEF TokenRecord

(* Resolving a live token gives a token of the type, and what it reports.  *)
LEMMA Diagnosis ==
    ASSUME IInv, NEW t \in 1..Solved, Ready(t), ~token[t].released
    PROVE  /\ Resolved(t) \in TokenRecord
           /\ Resolved(t).deferred => Resolved(t).status = Resolved(t).outcome
<1> USE RuntimeAssumption
<1>1. token[t] \in TokenRecord
  BY Typed DEF IInv
<1>2. CASE token[t].resolved
  BY <1>1, <1>2, RecordFields DEF Resolved, IInv, DeferredInv
<1>3. CASE ~token[t].resolved
  <2>1. Diagnosed(t) \in Results
    <3>1. CASE token[t].deferred
      <4>1. token[t].owns /\ arena = t
        BY <1>3, <3>1 DEF IInv, DeferredInv
      <4> QED  BY <3>1, <4>1, <1>1, RecordFields DEF Diagnosed
    <3>2. CASE ~token[t].deferred
      BY <3>2, <1>1, RecordFields DEF Diagnosed, Results
    <3> QED  BY <3>1, <3>2
  <2>2. token[t].deferred => Diagnosed(t) = token[t].outcome
    BY <1>3 DEF Diagnosed, IInv, DeferredInv
  <2> QED  BY <1>1, <1>3, <2>1, <2>2 DEF Resolved, TokenRecord
<1> QED  BY <1>2, <1>3, <1>1, RecordFields

-----------------------------------------------------------------------------
(* Steps that touch neither a token nor a slot.                            *)
LEMMA Quiet ==
    ASSUME IInv, TypeOK', HandleInv',
           UNCHANGED <<slot, data, token, stream, arena>>,
           context'.deferred = context.deferred,
           \A t \in 1..Solved : consumer'[t] = "running" =>
              consumer[t] = "running" /\ handle'[token[t].handle].life = "usable"
    PROVE  IInv'
<1>1. StreamInv' /\ LeaseInv' /\ DeferredInv' /\ SlotInv'
  BY DEF IInv, StreamInv, LeaseInv, DeferredInv, SlotInv, Ready, Solved
<1>2. ReaderInv'
  BY DEF IInv, ReaderInv, ConsumerReady, Solved
<1> QED  BY <1>1, <1>2 DEF IInv

LEMMA HandlesCounted ==
    ASSUME IInv, NEW h \in Handles, handle' \in [Handles -> HandleRecord],
           \A k \in Handles : k # h => handle'[k] = handle[k],
           NEW count, count = Cardinality({k \in Handles : handle'[k].registered})
    PROVE  /\ count \in Nat
           /\ handle'[h].registered = handle[h].registered =>
                 count = context.active
           /\ handle'[h].registered /\ ~handle[h].registered =>
                 count = context.active + 1
           /\ ~handle'[h].registered /\ handle[h].registered =>
                 count = context.active - 1
<1> DEFINE old == {k \in Handles : handle[k].registered}
           new == {k \in Handles : handle'[k].registered}
<1>1. IsFiniteSet(old) /\ IsFiniteSet(new)
  BY RuntimeAssumption, FS_Subset
<1>2. \A k \in Handles : handle[k].registered \in BOOLEAN
                          /\ handle'[k].registered \in BOOLEAN
  BY DEF IInv, TypeOK, HandleRecord
<1>3. context.active = Cardinality(old) /\ Cardinality(old) \in Nat
  BY <1>1, FS_CardinalityType DEF IInv, HandleInv
<1>4. Cardinality(new) \in Nat
  BY <1>1, FS_CardinalityType
<1>5. CASE handle'[h].registered = handle[h].registered
  <2>1. new = old
    BY <1>2, <1>5
  <2> QED  BY <2>1, <1>3, <1>5
<1>6. CASE handle'[h].registered /\ ~handle[h].registered
  <2>1. new = old \cup {h} /\ h \notin old
    BY <1>2, <1>6
  <2>2. Cardinality(new) = Cardinality(old) + 1
    BY <2>1, <1>1, FS_AddElement
  <2> QED  BY <2>2, <1>3, <1>4, <1>6
<1>7. CASE ~handle'[h].registered /\ handle[h].registered
  <2>1. new = old \ {h} /\ h \in old
    BY <1>2, <1>7
  <2>2. Cardinality(new) = Cardinality(old) - 1
    BY <2>1, <1>1, FS_RemoveElement
  <2> QED  BY <2>2, <1>3, <1>4, <1>7
<1> QED  BY <1>2, <1>5, <1>6, <1>7

-----------------------------------------------------------------------------
LEMMA ReserveKeeps == ASSUME IInv, NEW capacity \in Capacities, reserve(capacity)
                      PROVE  IInv'
<1>1. context \in ContextRecord /\ faults \in Nat /\ capacity \in Nat
  BY RuntimeAssumption DEF IInv, TypeOK
<1>2. /\ context' \in ContextRecord /\ context'.active = context.active
      /\ context'.deferred = context.deferred
  BY <1>1 DEF reserve, ContextRecord
<1>3. faults' \in Nat
  BY <1>1 DEF reserve, Fault, NoFault
<1>4. TypeOK' /\ HandleInv'
  BY <1>2, <1>3 DEF IInv, TypeOK, HandleInv, reserve, Solved
<1> QED
  BY <1>2, <1>4, Quiet DEF reserve, IInv, ReaderInv

LEMMA FreeRuntimeKeeps == ASSUME IInv, free_fixed_sp_runtime PROVE IInv'
<1>1. context \in ContextRecord
  BY DEF IInv, TypeOK
<1>2. /\ context' \in ContextRecord /\ context'.active = context.active
      /\ context'.deferred = context.deferred
  BY <1>1 DEF free_fixed_sp_runtime, ContextRecord
<1>3. TypeOK' /\ HandleInv'
  BY <1>2 DEF IInv, TypeOK, HandleInv, free_fixed_sp_runtime, Solved
<1> QED
  BY <1>2, <1>3, Quiet DEF free_fixed_sp_runtime, IInv, ReaderInv

LEMMA CreateKeeps ==
    ASSUME IInv, NEW h \in Handles, create_prepared_s_gpu(h) PROVE IInv'
<1> DEFINE made == [life |-> "usable", registered |-> TRUE, held |-> TRUE]
<1>1. CASE UNCHANGED <<context, handle>> /\ Fault
  <2>1. TypeOK' /\ HandleInv'
    BY <1>1 DEF IInv, TypeOK, HandleInv, create_prepared_s_gpu, Solved, Fault
  <2> QED
    BY <1>1, <2>1, Quiet DEF create_prepared_s_gpu, IInv, ReaderInv
<1>2. CASE /\ NoFault
           /\ handle' = [handle EXCEPT ![h] = made]
           /\ context' = [context EXCEPT !.active = @ + 1]
  <2>0. context \in ContextRecord
    BY DEF IInv, TypeOK
  <2>1. ~handle[h].registered
    BY DEF IInv, HandleInv, create_prepared_s_gpu
  <2>2. /\ handle' \in [Handles -> HandleRecord]
        /\ handle'[h] = made
        /\ \A k \in Handles : k # h => handle'[k] = handle[k]
    BY <1>2 DEF IInv, TypeOK, HandleRecord
  <2>3. /\ context'.active = context.active + 1
        /\ context'.deferred = context.deferred
        /\ context' \in ContextRecord
    BY <1>2, <2>0 DEF ContextRecord
  <2>4. TypeOK'
    BY <1>2, <2>2, <2>3 DEF IInv, TypeOK, create_prepared_s_gpu, Solved, NoFault
  <2>5. Cardinality({k \in Handles : handle'[k].registered}) = context.active + 1
    BY <2>1, <2>2, HandlesCounted
  <2>6. HandleInv'
    BY <2>2, <2>3, <2>5 DEF IInv, HandleInv
  <2>7. \A t \in 1..Solved : consumer[t] = "running" =>
           handle'[token[t].handle].life = "usable"
    BY <2>2, Typed, RecordFields
       DEF IInv, ReaderInv, create_prepared_s_gpu
  <2> QED
    BY <2>3, <2>4, <2>6, <2>7, Quiet DEF create_prepared_s_gpu
<1> QED  BY <1>1, <1>2 DEF create_prepared_s_gpu

LEMMA ClosedKeeps ==
    ASSUME IInv, NEW h \in Handles, NEW done \in BOOLEAN, Closed(h, done),
           UNCHANGED <<slot, data, token, consumer, stream, arena>>,
           faults' \in Nat
    PROVE  IInv'
<1> DEFINE closed == [handle[h] EXCEPT !.life = IF done THEN "freed" ELSE "teardown",
                                       !.registered = FALSE]
<1>1. /\ handle[h] \in HandleRecord
      /\ closed \in HandleRecord
      /\ closed.registered = FALSE /\ closed.life # "usable"
  BY DEF IInv, TypeOK, HandleRecord
<1> HIDE DEF closed
<1>2. handle' = [handle EXCEPT ![h] = closed]
  BY DEF Closed, closed, IInv, TypeOK, HandleRecord
<1>3. /\ handle' \in [Handles -> HandleRecord]
      /\ handle'[h] = closed
      /\ \A k \in Handles : k # h => handle'[k] = handle[k]
  BY <1>1, <1>2 DEF IInv, TypeOK
<1>20. handle[h].registered \in BOOLEAN
  BY <1>1 DEF HandleRecord
<1>4. LET count == Cardinality({k \in Handles : handle'[k].registered}) IN
      count \in Nat /\ count = IF handle[h].registered THEN context.active - 1
                               ELSE context.active
  BY <1>1, <1>3, HandlesCounted, <1>20
<1>5. /\ context'.active = IF handle[h].registered THEN context.active - 1
                           ELSE context.active
      /\ context'.deferred = context.deferred
      /\ context' = [context EXCEPT !.active = context'.active]
  BY DEF Closed, IInv, TypeOK, ContextRecord
<1>6. HandleInv'
  BY <1>1, <1>3, <1>4, <1>5 DEF IInv, HandleInv
<1>7. context' \in ContextRecord
  <2>1. context \in ContextRecord /\ context'.active \in Nat
    BY <1>4, <1>5, <1>20 DEF IInv, TypeOK
  <2> QED  BY <1>5, <2>1 DEF ContextRecord
<1>8. TypeOK'
  BY <1>3, <1>7 DEF IInv, TypeOK, Solved
<1>9. \A t \in 1..Solved : consumer[t] = "running" =>
         handle'[token[t].handle].life = "usable"
  BY <1>3, Typed, RecordFields DEF IInv, ReaderInv, Closed, Reads
<1> QED
  BY <1>5, <1>6, <1>8, <1>9, Quiet

(* The caller's reference alone.                                           *)
LEMMA ReferenceKeeps ==
    ASSUME IInv, NEW h \in Handles,
           handle' = [handle EXCEPT ![h].held = FALSE],
           UNCHANGED <<context, slot, data, token, consumer, stream, arena, faults>>
    PROVE  IInv'
<1>1. /\ handle' \in [Handles -> HandleRecord]
      /\ \A k \in Handles : /\ handle'[k].life = handle[k].life
                            /\ handle'[k].registered = handle[k].registered
  BY DEF IInv, TypeOK, HandleRecord
<1>2. TypeOK'
  BY <1>1 DEF IInv, TypeOK, Solved
<1>3. {k \in Handles : handle'[k].registered} = {k \in Handles : handle[k].registered}
  BY <1>1
<1>4. HandleInv'
  BY <1>1, <1>3 DEF IInv, HandleInv
<1>5. \A t \in 1..Solved : consumer[t] = "running" =>
         handle'[token[t].handle].life = "usable"
  BY <1>1, Typed, RecordFields DEF IInv, ReaderInv
<1> QED
  BY <1>2, <1>4, <1>5, Quiet

LEMMA HandleStepKeeps ==
    ASSUME IInv, NEW h \in Handles,
           free_prepared_s_gpu(h) \/ DropHandle(h) \/ DestroyHandle(h)
    PROVE  IInv'
<1>1. faults \in Nat
  BY DEF IInv, TypeOK
<1>2. CASE free_prepared_s_gpu(h)
  <2>1. CASE Referenced(h)
    BY <1>2, <2>1, ReferenceKeeps DEF free_prepared_s_gpu, NoFault
  <2>2. CASE ~Referenced(h)
    <3>0. NoFault \/ Fault
      BY <1>2, <2>2 DEF free_prepared_s_gpu
    <3>1. faults' \in Nat
      BY <1>1, <3>0 DEF NoFault, Fault
    <3>2. Closed(h, TRUE) \/ Closed(h, FALSE)
      BY <1>2, <2>2 DEF free_prepared_s_gpu
    <3>3. UNCHANGED <<slot, data, token, consumer, stream, arena>>
      BY <1>2 DEF free_prepared_s_gpu
    <3> QED  BY <3>1, <3>2, <3>3, ClosedKeeps
  <2> QED  BY <2>1, <2>2
<1>3. CASE DropHandle(h)
  BY <1>3, ReferenceKeeps DEF DropHandle
<1>4. CASE DestroyHandle(h)
  BY <1>1, <1>4, ClosedKeeps DEF DestroyHandle, NoFault
<1> QED  BY <1>2, <1>3, <1>4

LEMMA ConsumerEndsKeeps ==
    ASSUME IInv, NEW t \in 1..Solved, ConsumerEnds(t) PROVE IInv'
<1>1. /\ consumer' \in Seq({"none", "view", "running", "done"})
      /\ Len(consumer') = Solved
      /\ \A k \in 1..Solved : consumer'[k] = "running" => consumer[k] = "running"
  BY Replaced DEF IInv, TypeOK, ConsumerEnds
<1>2. TypeOK' /\ HandleInv'
  BY <1>1 DEF IInv, TypeOK, HandleInv, ConsumerEnds, Solved
<1> QED
  BY <1>1, <1>2, Quiet DEF ConsumerEnds, IInv, ReaderInv

LEMMA SubmissionViewKeeps ==
    ASSUME IInv, NEW t \in 1..Solved, acquire_device_residual_submission_view(t)
    PROVE  IInv'
<1>1. /\ consumer' \in Seq({"none", "view", "running", "done"})
      /\ Len(consumer') = Solved
      /\ \A k \in 1..Solved : consumer'[k] = "running" => consumer[k] = "running"
  BY Replaced DEF IInv, TypeOK, acquire_device_residual_submission_view
<1>2. TypeOK' /\ HandleInv'
  BY <1>1 DEF IInv, TypeOK, HandleInv, acquire_device_residual_submission_view, Solved
<1> QED
  BY <1>1, <1>2, Quiet
     DEF acquire_device_residual_submission_view, IInv, ReaderInv

-----------------------------------------------------------------------------
(* The shape of every step that a token's user takes: one token changes,   *)
(* with the slot it leases and the use its consumer makes of it.           *)
SlotFollows(t) ==
    LET h == token[t].handle IN
    /\ slot' \in [Handles -> SlotRecord]
    /\ \A k \in Handles : k # h => slot'[k] = slot[k]
    /\ slot'[h] = slot[h] \/ slot[h].owner = t
    /\ slot'[h].generation = slot[h].generation
    /\ slot'[h].owner \in {0, slot[h].owner}
    /\ slot'[h].state = "free" => slot'[h].owner = 0 /\ ~slot'[h].registered
    /\ slot'[h].state = "leased" =>
          /\ slot[h].state = "leased" /\ slot'[h].owner # 0
          /\ slot[h].owner = t => ~token'[t].released
    /\ slot[h].state = "poisoned" => slot'[h].state = "poisoned"
    /\ ~token'[t].released => slot'[h].owner = slot[h].owner

TokenFollows(t) ==
    LET r == token'[t] IN
    /\ token' \in Seq(TokenRecord) /\ Len(token') = Solved
    /\ \A k \in 1..Solved : k # t => token'[k] = token[k]
    /\ r.handle = token[t].handle /\ r.generation = token[t].generation
    /\ r.owner = IF r.freed THEN 0 ELSE r.handle
    /\ r.freed => r.released
    /\ token[t].released => r.released
    /\ ~r.owns /\ (r.resolved \/ r.released)
    /\ r.resolved /\ r.deferred => r.status = r.outcome
    /\ context' = Undeferred(t)

StreamFollows ==
    /\ stream' \in Seq(Operation)
    /\ StreamInv'
    /\ \A k \in 1..Solved : /\ Ready(k)' <=> Ready(k)
                            /\ ConsumerReady(k)' => ConsumerReady(k)
    /\ \A i \in DOMAIN stream' : stream'[i].kind = "solve" =>
          \E j \in DOMAIN stream : stream'[i] = stream[j]

Reading(t) ==
    LET h == token[t].handle IN
    /\ handle[h].life = "usable" /\ data[h] = t
    /\ \/ slot'[h].state = "poisoned"
       \/ /\ slot'[h].state = "leased" /\ slot'[h].owner = t
          /\ slot'[h].registered /\ ~ConsumerReady(t)'
    /\ \A i \in DOMAIN stream :
          stream[i].kind = "solve" => token[stream[i].of].handle # h

ConsumerFollows(t) ==
    /\ consumer' \in Seq({"none", "view", "running", "done"})
    /\ Len(consumer') = Solved
    /\ \A k \in 1..Solved : k # t => consumer'[k] = consumer[k]
    /\ consumer'[t] = "running" => Reading(t)

UserStep(t) ==
    /\ TokenFollows(t) /\ SlotFollows(t) /\ StreamFollows /\ ConsumerFollows(t)
    /\ UNCHANGED <<handle, data, arena>> /\ faults' \in Nat

LEMMA UserStepKeeps ==
    ASSUME IInv, NEW t \in 1..Solved, UserStep(t)
    PROVE  IInv'
<1> DEFINE h == token[t].handle
<1>1. /\ Solved' = Solved
      /\ \A k \in 1..Solved : token'[k].handle = token[k].handle
  BY DEF UserStep, TokenFollows, Solved
<1>2. /\ \A k \in 1..Solved : token[k] \in TokenRecord /\ token[k].handle \in Handles
      /\ h \in Handles
  BY Typed, RecordFields DEF IInv
<1>3. /\ context' \in ContextRecord /\ context'.active = context.active
      /\ context'.deferred = IF token[t].owns THEN FALSE ELSE context.deferred
  <2>1. context \in ContextRecord
    BY DEF IInv, TypeOK
  <2>2. token[t].owns \in BOOLEAN
    BY <1>2, RecordFields
  <2> QED  BY <2>1, <2>2 DEF UserStep, TokenFollows, Undeferred, ContextRecord
<1>4. TypeOK'
  BY <1>1, <1>3 DEF IInv, TypeOK, UserStep, TokenFollows, SlotFollows,
     StreamFollows, ConsumerFollows, Solved
<1>5. StreamInv'
  BY DEF UserStep, StreamFollows
<1>6. \A k \in 1..Solved : k # t /\ ~token[k].released =>
         slot'[token[k].handle] = slot[token[k].handle]
  BY <1>2 DEF IInv, LeaseInv, UserStep, SlotFollows
<1>7. LeaseInv'
  <2> SUFFICES ASSUME NEW k \in 1..Solved
               PROVE  /\ token'[k].owner = IF token'[k].freed THEN 0 ELSE token'[k].handle
                      /\ token'[k].freed => token'[k].released
                      /\ ~token'[k].released =>
                            /\ slot'[token'[k].handle].owner = k
                            /\ slot'[token'[k].handle].generation = token'[k].generation
    BY <1>1 DEF LeaseInv
  <2>1. CASE k = t
    BY <1>1, <1>2, <2>1 DEF IInv, LeaseInv, UserStep, TokenFollows, SlotFollows
  <2>2. CASE k # t
    BY <1>6, <2>2 DEF IInv, LeaseInv, UserStep, TokenFollows
  <2> QED  BY <2>1, <2>2
<1>8. DeferredInv'
  <2>1. ASSUME NEW k \in 1..Solved
        PROVE  /\ token'[k].owns =>
                      /\ token'[k].deferred /\ ~token'[k].resolved
                      /\ ~token'[k].released /\ context'.deferred /\ k = Solved
                      /\ slot'[token'[k].handle].state = "leased"
                      /\ Ready(k)' => arena' = k
               /\ token'[k].deferred /\ ~token'[k].resolved /\ ~token'[k].released =>
                      token'[k].owns
               /\ token'[k].resolved /\ token'[k].deferred =>
                      token'[k].status = token'[k].outcome
    <3>1. CASE k = t
      BY <3>1 DEF UserStep, TokenFollows
    <3>2. CASE k # t
      BY <1>3, <1>6, <3>2
         DEF IInv, DeferredInv, UserStep, TokenFollows, StreamFollows
    <3> QED  BY <3>1, <3>2
  <2>2. context'.deferred => \E k \in 1..Solved : token'[k].owns
    BY <1>3 DEF IInv, DeferredInv, UserStep, TokenFollows
  <2> QED  BY <1>1, <2>1, <2>2 DEF DeferredInv
<1>9. SlotInv'
  <2> SUFFICES ASSUME NEW g \in Handles
               PROVE  /\ slot'[g].state = "free" => slot'[g].owner = 0 /\ ~slot'[g].registered
                      /\ slot'[g].state = "leased" =>
                            slot'[g].owner # 0 /\ ~token'[slot'[g].owner].released
                      /\ slot'[g].owner # 0 =>
                            /\ slot'[g].owner \in 1..Solved
                            /\ token'[slot'[g].owner].handle = g
                            /\ \A k \in 1..Solved :
                                  token'[k].handle = g => k <= slot'[g].owner
                            /\ Ready(slot[g].owner)' => data'[g] = slot'[g].owner
    BY <1>1 DEF SlotInv
  <2>1. slot'[g].owner # 0 => slot'[g].owner = slot[g].owner
    BY DEF UserStep, SlotFollows
  <2>2. slot'[g].owner # 0 =>
            /\ slot'[g].owner \in 1..Solved
            /\ token'[slot'[g].owner].handle = g
            /\ \A k \in 1..Solved :
                  token'[k].handle = g => k <= slot'[g].owner
    BY <1>1, <2>1 DEF IInv, SlotInv
  <2>3. slot'[g].owner # 0 =>
           (Ready(slot[g].owner)' => data'[g] = slot'[g].owner)
    <3> SUFFICES ASSUME slot'[g].owner # 0, Ready(slot[g].owner)'
                 PROVE  data'[g] = slot'[g].owner
      OBVIOUS
    <3>1. PICK k \in 1..Solved : k = slot'[g].owner
      BY <2>2
    <3>2. Ready(k)'
      BY <3>1 DEF Ready
    <3>3. Ready(k)
      BY <3>2 DEF UserStep, StreamFollows
    <3> QED  BY <2>1, <3>1, <3>3 DEF IInv, SlotInv, UserStep
  <2>4. slot'[g].state = "free" => slot'[g].owner = 0 /\ ~slot'[g].registered
    BY DEF UserStep, SlotFollows, IInv, SlotInv
  <2>5. slot'[g].state = "leased" =>
            slot'[g].owner # 0 /\ ~token'[slot'[g].owner].released
    <3>1. CASE g = h
      BY <2>1, <2>2, <3>1 DEF UserStep, SlotFollows, TokenFollows, IInv, SlotInv
    <3>2. CASE g # h
      BY <2>1, <2>2, <3>2 DEF UserStep, SlotFollows, TokenFollows, IInv, SlotInv
    <3> QED  BY <3>1, <3>2
  <2> QED  BY <2>2, <2>3, <2>4, <2>5
<1>10. ReaderInv'
  <2>1. \A i \in DOMAIN stream' : stream'[i].kind = "solve" =>
           \E j \in DOMAIN stream :
              /\ stream[j].kind = "solve" /\ stream[j].of \in 1..Solved
              /\ token'[stream'[i].of].handle = token[stream[j].of].handle
    BY <1>1 DEF UserStep, StreamFollows, IInv, StreamInv
  <2> SUFFICES ASSUME NEW k \in 1..Solved, consumer'[k] = "running"
               PROVE  LET g == token[k].handle IN
                      /\ handle'[g].life = "usable" /\ data'[g] = k
                      /\ \/ slot'[g].state = "poisoned"
                         \/ /\ slot'[g].state = "leased" /\ slot'[g].owner = k
                            /\ slot'[g].registered /\ ~ConsumerReady(k)'
                      /\ \A i \in DOMAIN stream' :
                            stream'[i].kind = "solve" => token'[stream'[i].of].handle # g
    BY <1>1 DEF ReaderInv
  <2>2. CASE k = t
    BY <2>1, <2>2 DEF UserStep, ConsumerFollows, Reading
  <2>3. CASE k # t
    <3> DEFINE g == token[k].handle
    <3>1. consumer[k] = "running"
      BY <2>3 DEF UserStep, ConsumerFollows
    <3>2. handle'[g].life = "usable" /\ data'[g] = k
      BY <3>1 DEF IInv, ReaderInv, UserStep
    <3>3. \A i \in DOMAIN stream' :
             stream'[i].kind = "solve" => token'[stream'[i].of].handle # g
      BY <2>1, <3>1 DEF IInv, ReaderInv
    <3>4. \/ slot[g].state = "poisoned"
          \/ /\ slot[g].state = "leased" /\ slot[g].owner = k
             /\ slot[g].registered /\ ~ConsumerReady(k)'
      BY <3>1 DEF IInv, ReaderInv, UserStep, StreamFollows
    <3>5. \/ slot'[g].state = "poisoned"
          \/ /\ slot'[g].state = "leased" /\ slot'[g].owner = k
             /\ slot'[g].registered /\ ~ConsumerReady(k)'
      BY <1>2, <2>3, <3>4 DEF UserStep, SlotFollows
    <3> QED  BY <3>2, <3>3, <3>5
  <2> QED  BY <2>2, <2>3
<1>11. HandleInv'
  BY <1>3 DEF IInv, HandleInv, UserStep
<1> QED
  BY <1>4, <1>5, <1>7, <1>8, <1>9, <1>10, <1>11 DEF IInv

-----------------------------------------------------------------------------
(* Nothing queued for a token's handle but what the token itself queued.   *)
LEMMA NothingQueued ==
    ASSUME IInv, NEW t \in 1..Solved, Ready(t),
           slot[token[t].handle].owner = t
    PROVE  /\ data[token[t].handle] = t
           /\ \A i \in DOMAIN stream : stream[i].kind = "solve" =>
                 token[stream[i].of].handle # token[t].handle
<1>1. t # 0 /\ t \in Nat /\ token[t].handle \in Handles
  BY Typed, RecordFields DEF IInv
<1>2. data[token[t].handle] = t
  BY <1>1 DEF IInv, SlotInv
<1>3. ASSUME NEW i \in DOMAIN stream, stream[i].kind = "solve",
             token[stream[i].of].handle = token[t].handle
      PROVE  FALSE
  <2>1. stream[i].of \in 1..Solved /\ stream[i].of <= t
    BY <1>1, <1>3 DEF IInv, StreamInv, SlotInv
  <2>2. stream[i] = [kind |-> "solve", of |-> stream[i].of]
    BY <1>3, Typed DEF IInv, Operation
  <2>3. stream[i].of # t
    BY <2>2 DEF Ready
  <2>4. ~Ready(t)
    BY <1>3, <2>1, <2>3, Typed DEF IInv, StreamInv
  <2> QED  BY <2>4
<1> QED  BY <1>2, <1>3

(* What Active and Resolved give.                                          *)
LEMMA Live ==
    ASSUME IInv, NEW t \in 1..Solved, Active(t)
    PROVE  /\ token[t] \in TokenRecord /\ token[t].handle \in Handles
           /\ ~token[t].released /\ ~token[t].freed
           /\ slot[token[t].handle] \in SlotRecord
           /\ slot[token[t].handle].state = "leased"
           /\ slot[token[t].handle].owner = t
           /\ handle[token[t].handle].life = "usable"
           /\ t # 0
  BY Typed, RecordFields
     DEF IInv, TypeOK, Active, require_residual_host_identity

LEMMA ResolvedFields ==
    ASSUME IInv, NEW t \in 1..Solved, Ready(t), ~token[t].released
    PROVE  /\ Resolved(t) \in TokenRecord
           /\ Resolved(t).handle = token[t].handle
           /\ Resolved(t).generation = token[t].generation
           /\ Resolved(t).owner = token[t].owner
           /\ Resolved(t).freed = token[t].freed
           /\ ~Resolved(t).released /\ ~Resolved(t).owns /\ Resolved(t).resolved
           /\ Resolved(t).deferred => Resolved(t).status = Resolved(t).outcome
<1>1. token[t] \in TokenRecord /\ Resolved(t) \in TokenRecord
  BY Typed, Diagnosis DEF IInv
<1>2. token[t].resolved => ~token[t].owns
  BY DEF IInv, DeferredInv
<1>3. /\ Resolved(t).handle = token[t].handle
      /\ Resolved(t).generation = token[t].generation
      /\ Resolved(t).owner = token[t].owner
      /\ Resolved(t).freed = token[t].freed
      /\ ~Resolved(t).released /\ ~Resolved(t).owns /\ Resolved(t).resolved
  BY <1>1, <1>2 DEF Resolved, TokenRecord
<1>4. Resolved(t).deferred => Resolved(t).status = Resolved(t).outcome
  BY Diagnosis
<1> QED  BY <1>1, <1>3, <1>4

(* The token after a step that resolved it and did nothing else to it.     *)
LEMMA ResolvedFollows ==
    ASSUME IInv, NEW t \in 1..Solved, Ready(t), Active(t),
           token' = [token EXCEPT ![t] = Resolved(t)], context' = Undeferred(t)
    PROVE  TokenFollows(t) /\ ~token'[t].released /\ Len(token') = Solved
<1>1. token[t] \in TokenRecord /\ ~token[t].released /\ ~token[t].freed
  BY Live
<1>2. /\ token \in Seq(TokenRecord) /\ Len(token) = Solved
      /\ Resolved(t) \in TokenRecord
  BY <1>1, ResolvedFields DEF IInv, TypeOK, Solved
<1>3. /\ token' \in Seq(TokenRecord) /\ Len(token') = Solved
      /\ token'[t] = Resolved(t)
      /\ \A k \in 1..Solved : k # t => token'[k] = token[k]
  <2> HIDE DEF Resolved
  <2> QED  BY <1>2, Replaced
<1>4. /\ Resolved(t).handle = token[t].handle
      /\ Resolved(t).generation = token[t].generation
      /\ Resolved(t).owner = token[t].owner /\ Resolved(t).freed = token[t].freed
      /\ ~Resolved(t).released /\ ~Resolved(t).owns /\ Resolved(t).resolved
      /\ Resolved(t).deferred => Resolved(t).status = Resolved(t).outcome
  BY <1>1, ResolvedFields
<1>5. token[t].owner = token[t].handle
  BY <1>1 DEF IInv, LeaseInv
<1> QED  BY <1>1, <1>3, <1>4, <1>5 DEF TokenFollows

LEMMA StreamStays ==
    ASSUME IInv, UNCHANGED stream, Len(token') = Solved
    PROVE  StreamFollows
<1>1. Solved' = Solved
  BY DEF Solved
<1>2. StreamInv'
  BY <1>1 DEF IInv, StreamInv, Ready
<1> QED
  BY <1>2 DEF StreamFollows, IInv, TypeOK, Ready, ConsumerReady

LEMMA SlotStays ==
    ASSUME IInv, NEW t \in 1..Solved, UNCHANGED slot,
           slot[token[t].handle].owner = t /\ token'[t].released =>
              slot[token[t].handle].state # "leased"
    PROVE  SlotFollows(t)
<1>1. token[t].handle \in Handles
  BY Typed, RecordFields DEF IInv
<1> QED  BY <1>1 DEF SlotFollows, IInv, TypeOK, SlotInv

LEMMA ConsumerStays ==
    ASSUME IInv, NEW t \in 1..Solved, Ready(t), Active(t),
           UNCHANGED <<slot, stream>>,
           consumer' = consumer \/ consumer' = [consumer EXCEPT ![t] = "view"]
    PROVE  ConsumerFollows(t)
<1>1. /\ consumer' \in Seq({"none", "view", "running", "done"})
      /\ Len(consumer') = Solved
      /\ \A k \in 1..Solved : k # t => consumer'[k] = consumer[k]
      /\ consumer'[t] = "running" => consumer[t] = "running"
  <2>1. /\ consumer \in Seq({"none", "view", "running", "done"})
        /\ Len(consumer) = Solved
    BY DEF IInv, TypeOK
  <2>2. CASE consumer' = consumer
    BY <2>1, <2>2
  <2>3. CASE consumer' = [consumer EXCEPT ![t] = "view"]
    BY <2>1, <2>3, Replaced
  <2> QED  BY <2>2, <2>3
<1>2. consumer[t] = "running" => Reading(t)
  BY DEF IInv, ReaderInv, Reading, ConsumerReady
<1> QED  BY <1>1, <1>2 DEF ConsumerFollows

LEMMA ResolveKeeps ==
    ASSUME IInv, NEW t \in 1..Solved,
           Resolve(t) \/ acquire_device_residual_consumer_view(t)
    PROVE  IInv'
<1>1. /\ Active(t) /\ Ready(t)
      /\ token' = [token EXCEPT ![t] = Resolved(t)] /\ context' = Undeferred(t)
      /\ UNCHANGED <<handle, slot, data, stream, arena, faults>>
      /\ consumer' = consumer \/ consumer' = [consumer EXCEPT ![t] = "view"]
  BY DEF Resolve, acquire_device_residual_consumer_view
<1>3. TokenFollows(t) /\ ~token'[t].released /\ Len(token') = Solved
  BY <1>1, ResolvedFollows
<1>5. SlotFollows(t)
  BY <1>1, <1>3, SlotStays
<1>6. StreamFollows /\ ConsumerFollows(t)
  BY <1>1, <1>3, StreamStays, ConsumerStays
<1> QED
  BY <1>1, <1>3, <1>5, <1>6, UserStepKeeps DEF UserStep, IInv, TypeOK

LEMMA RegisterKeeps ==
    ASSUME IInv, NEW t \in 1..Solved, register_device_residual_consumer_event(t)
    PROVE  IInv'
<1> DEFINE h == token[t].handle
           event == [kind |-> "consumer", of |-> t]
<1>1. /\ Active(t) /\ Ready(t) /\ ~slot[h].registered
      /\ token' = [token EXCEPT ![t] = Resolved(t)] /\ context' = Undeferred(t)
      /\ consumer' = [consumer EXCEPT ![t] = "running"]
      /\ UNCHANGED <<handle, data, arena>>
      /\ \/ /\ Fault /\ UNCHANGED stream
            /\ slot' = [slot EXCEPT ![h].state = "poisoned"]
         \/ /\ NoFault /\ stream' = Append(stream, event)
            /\ slot' = [slot EXCEPT ![h].registered = TRUE]
  BY DEF register_device_residual_consumer_event, RegistrationFails
<1>2. /\ token[t] \in TokenRecord /\ ~token[t].released /\ ~token[t].freed
      /\ h \in Handles /\ slot[h] \in SlotRecord
      /\ slot[h].owner = t /\ slot[h].state = "leased" /\ t # 0
      /\ handle[h].life = "usable"
  BY <1>1, Live
<1>3. TokenFollows(t) /\ ~token'[t].released /\ Len(token') = Solved
  BY <1>1, ResolvedFollows
<1>5. /\ slot' \in [Handles -> SlotRecord]
      /\ \A k \in Handles : k # h => slot'[k] = slot[k]
      /\ slot'[h].owner = t /\ slot'[h].generation = slot[h].generation
      /\ \/ slot'[h].state = "poisoned" /\ UNCHANGED stream /\ Fault
         \/ /\ slot'[h].state = "leased" /\ slot'[h].registered
            /\ stream' = Append(stream, event) /\ NoFault
  <2>1. slot \in [Handles -> SlotRecord]
    BY DEF IInv, TypeOK
  <2>2. \/ /\ Fault /\ UNCHANGED stream
           /\ slot' = [slot EXCEPT ![h].state = "poisoned"]
        \/ /\ NoFault /\ stream' = Append(stream, event)
           /\ slot' = [slot EXCEPT ![h].registered = TRUE]
    BY <1>1
  <2> HIDE DEF h, event
  <2>3. CASE slot' = [slot EXCEPT ![h].state = "poisoned"] /\ Fault /\ UNCHANGED stream
    BY <1>2, <2>1, <2>3 DEF SlotRecord
  <2>4. CASE /\ slot' = [slot EXCEPT ![h].registered = TRUE]
             /\ NoFault /\ stream' = Append(stream, event)
    BY <1>2, <2>1, <2>4 DEF SlotRecord
  <2> QED  BY <2>2, <2>3, <2>4
<1>6. SlotFollows(t)
  BY <1>2, <1>3, <1>5 DEF SlotFollows
<1>7. StreamFollows /\ (slot'[h].state = "leased" => ~ConsumerReady(t)')
  <2>1. CASE UNCHANGED stream /\ slot'[h].state = "poisoned"
    BY <1>3, <2>1, StreamStays
  <2>2. CASE stream' = Append(stream, event)
    <3>1. /\ stream \in Seq(Operation) /\ event \in Operation
          /\ Solved' = Solved /\ event.kind = "consumer" /\ event.of = t
      <4>1. stream \in Seq(Operation) /\ Solved' = Solved
        BY <1>3 DEF IInv, TypeOK, Solved
      <4>2. t \in 1..MaxSolves
        BY Typed, RuntimeAssumption DEF IInv
      <4> QED  BY <4>1, <4>2 DEF Operation
    <3> HIDE DEF event
    <3>2. /\ stream' \in Seq(Operation)
          /\ Len(stream') = Len(stream) + 1 /\ Len(stream) \in Nat
          /\ stream'[Len(stream) + 1] = event
          /\ \A i \in 1..Len(stream) : stream'[i] = stream[i]
      BY <2>2, <3>1
    <3>3. /\ DOMAIN stream = 1..Len(stream)
          /\ DOMAIN stream' = 1..(Len(stream) + 1)
      BY <3>1, <3>2
    <3>4. \A i \in DOMAIN stream' :
             \/ i \in DOMAIN stream /\ stream'[i] = stream[i]
             \/ i = Len(stream) + 1 /\ stream'[i] = event
      BY <3>2, <3>3
    <3>5. \A k \in 1..Solved : Ready(k)' <=> Ready(k)
      BY <3>1, <3>2, <3>3, <3>4 DEF Ready
    <3>6. \A k \in 1..Solved : ConsumerReady(k)' => ConsumerReady(k)
      BY <3>2, <3>3 DEF ConsumerReady
    <3>7. ~ConsumerReady(t)'
      BY <3>1, <3>2, <3>3 DEF ConsumerReady, event
    <3>8. StreamInv'
      <4>1. \A i \in DOMAIN stream' : stream'[i].of \in 1..Solved
        BY <3>1, <3>4 DEF IInv, StreamInv
      <4>2. \A i, j \in DOMAIN stream' :
               i < j /\ stream'[i].kind = "solve" /\ stream'[j].kind = "solve" =>
                   stream'[i].of < stream'[j].of
        BY <3>1, <3>4 DEF IInv, StreamInv
      <4>3. \A i \in DOMAIN stream' : \A k \in 1..Solved :
               stream'[i].kind = "solve" /\ stream'[i].of < k => ~Ready(k)'
        BY <3>1, <3>4, <3>5 DEF IInv, StreamInv
      <4> QED  BY <3>1, <4>1, <4>2, <4>3 DEF StreamInv
    <3>9. \A i \in DOMAIN stream' : stream'[i].kind = "solve" =>
             \E j \in DOMAIN stream : stream'[i] = stream[j]
      BY <3>1, <3>4
    <3> QED  BY <3>2, <3>5, <3>6, <3>7, <3>8, <3>9 DEF StreamFollows
  <2> QED  BY <1>5, <2>1, <2>2
<1>8. ConsumerFollows(t)
  <2>1. /\ consumer' \in Seq({"none", "view", "running", "done"})
        /\ Len(consumer') = Solved
        /\ \A k \in 1..Solved : k # t => consumer'[k] = consumer[k]
    BY <1>1, Replaced DEF IInv, TypeOK
  <2>2. Reading(t)
    BY <1>1, <1>2, <1>5, <1>7, NothingQueued DEF Reading
  <2> QED  BY <2>1, <2>2 DEF ConsumerFollows
<1>9. faults' \in Nat
  BY <1>5 DEF IInv, TypeOK, Fault, NoFault
<1> QED
  BY <1>1, <1>3, <1>6, <1>7, <1>8, <1>9, UserStepKeeps DEF UserStep

(* Giving a slot back: nobody reads it any more.                           *)
LEMMA FreedFollows ==
    ASSUME IInv, NEW t \in 1..Solved, slot[token[t].handle].owner = t,
           slot[token[t].handle].state # "poisoned",
           token'[t].released, slot' = Freed(token[t].handle)
    PROVE  SlotFollows(t)
<1> DEFINE h == token[t].handle
<1>1. h \in Handles /\ slot \in [Handles -> SlotRecord] /\ slot[h] \in SlotRecord
  BY Typed, RecordFields DEF IInv, TypeOK
<1>2. 0 \in 0..MaxSolves
  BY RuntimeAssumption
<1>3. /\ slot' \in [Handles -> SlotRecord]
      /\ \A k \in Handles : k # h => slot'[k] = slot[k]
      /\ slot'[h].generation = slot[h].generation /\ slot'[h].owner = 0
      /\ slot'[h].state = "free" /\ ~slot'[h].registered
  <2> HIDE DEF h
  <2> QED  BY <1>1, <1>2 DEF Freed, h, SlotRecord
<1> QED  BY <1>3 DEF SlotFollows

LEMMA UnreadFollows ==
    ASSUME IInv, NEW t \in 1..Solved, consumer' = Unread(t),
           UNCHANGED stream,
           consumer[t] = "running" =>
              \/ slot'[token[t].handle] = slot[token[t].handle]
              \/ slot'[token[t].handle].state = "poisoned"
    PROVE  ConsumerFollows(t)
<1>1. /\ consumer \in Seq({"none", "view", "running", "done"})
      /\ Len(consumer) = Solved
      /\ consumer[t] \in {"none", "view", "running", "done"}
  BY Typed DEF IInv, TypeOK
<1>2. PICK e \in {"none", "view", "running", "done"} :
         /\ consumer' = [consumer EXCEPT ![t] = e]
         /\ e = "running" => consumer[t] = "running"
  BY <1>1 DEF Unread
<1>3. /\ consumer' \in Seq({"none", "view", "running", "done"})
      /\ Len(consumer') = Solved
      /\ \A k \in 1..Solved : k # t => consumer'[k] = consumer[k]
      /\ consumer'[t] = "running" => consumer[t] = "running"
  BY <1>1, <1>2, Replaced
<1>4. consumer[t] = "running" => Reading(t)
  BY DEF IInv, ReaderInv, Reading, ConsumerReady
<1> QED  BY <1>3, <1>4 DEF ConsumerFollows

LEMMA ReleaseKeeps ==
    ASSUME IInv, NEW t \in 1..Solved, release_device_residual(t)
    PROVE  IInv'
<1> DEFINE h == token[t].handle
           r == Resolved(t)
           s == [r EXCEPT !.released = TRUE]
<1>1. /\ Active(t) /\ Ready(t) /\ (slot[h].registered => ConsumerReady(t))
      /\ slot' = Freed(h) /\ context' = Undeferred(t) /\ consumer' = Unread(t)
      /\ token' = [token EXCEPT ![t] = s]
      /\ UNCHANGED <<handle, data, stream, arena, faults>>
  BY DEF release_device_residual
<1>2. /\ ~token[t].released /\ ~token[t].freed /\ token[t].owner = h
      /\ slot[h].owner = t /\ slot[h].state = "leased"
  BY <1>1, Live DEF IInv, LeaseInv
<1>3. /\ r \in TokenRecord /\ r.handle = h
      /\ r.generation = token[t].generation
      /\ r.owner = token[t].owner /\ r.freed = token[t].freed
      /\ ~r.released /\ ~r.owns /\ r.resolved
      /\ r.deferred => r.status = r.outcome
  BY <1>1, <1>2, ResolvedFields
<1>4. token \in Seq(TokenRecord) /\ Len(token) = Solved
  BY DEF IInv, TypeOK, Solved
<1> HIDE DEF r
<1>5. /\ s \in TokenRecord /\ s.handle = h
      /\ s.generation = token[t].generation
      /\ s.owner = h /\ s.freed = FALSE
      /\ s.released /\ ~s.owns /\ s.resolved
      /\ s.deferred => s.status = s.outcome
  <2>1. token[t].freed \in BOOLEAN
    BY Typed, RecordFields DEF IInv
  <2>2. /\ s \in TokenRecord
        /\ s.handle = r.handle /\ s.generation = r.generation
        /\ s.owner = r.owner /\ s.freed = r.freed
        /\ s.released = TRUE /\ s.owns = r.owns
        /\ s.resolved = r.resolved /\ s.deferred = r.deferred
        /\ s.status = r.status /\ s.outcome = r.outcome
    <3>1. r \in TokenRecord
      BY <1>3
    <3> QED  BY <3>1 DEF TokenRecord
  <2> QED  BY <1>2, <1>3, <2>1, <2>2
<1> HIDE DEF s
<1>6. /\ token' \in Seq(TokenRecord) /\ Len(token') = Solved
      /\ token'[t] = s
      /\ \A k \in 1..Solved : k # t => token'[k] = token[k]
  BY <1>1, <1>4, <1>5, Replaced
<1>7. TokenFollows(t)
  BY <1>1, <1>5, <1>6 DEF TokenFollows
<1>8. SlotFollows(t)
  BY <1>1, <1>2, <1>5, <1>6, FreedFollows
<1>9. consumer[t] # "running"
  BY <1>1, <1>2 DEF IInv, ReaderInv
<1>10. StreamFollows /\ ConsumerFollows(t)
  BY <1>1, <1>6, <1>9, StreamStays, UnreadFollows
<1> QED
  BY <1>1, <1>7, <1>8, <1>10, UserStepKeeps DEF UserStep, IInv, TypeOK

(* The end of a token: released, freed, no owner left.                     *)
LEMMA EndedFollows ==
    ASSUME IInv, NEW t \in 1..Solved, context' = Undeferred(t),
           token' = [token EXCEPT ![t] =
                        [token[t] EXCEPT !.released = TRUE, !.freed = TRUE,
                                         !.owns = FALSE, !.owner = 0]]
    PROVE  TokenFollows(t) /\ token'[t].released /\ Len(token') = Solved
<1> DEFINE s == [token[t] EXCEPT !.released = TRUE, !.freed = TRUE,
                                 !.owns = FALSE, !.owner = 0]
<1>1. /\ token \in Seq(TokenRecord) /\ Len(token) = Solved
      /\ token[t] \in TokenRecord
  BY Typed DEF IInv, TypeOK, Solved
<1>2. /\ s \in TokenRecord
      /\ s.handle = token[t].handle /\ s.generation = token[t].generation
      /\ s.owner = 0 /\ s.freed = TRUE /\ s.released = TRUE /\ s.owns = FALSE
      /\ s.resolved = token[t].resolved /\ s.deferred = token[t].deferred
      /\ s.status = token[t].status /\ s.outcome = token[t].outcome
  <2> DEFINE r == token[t]
  <2>1. r \in TokenRecord
    BY <1>1
  <2> HIDE DEF r
  <2>2. s = [r EXCEPT !.released = TRUE, !.freed = TRUE, !.owns = FALSE,
                      !.owner = 0]
    BY DEF r
  <2>3. /\ s \in TokenRecord
        /\ s.handle = r.handle /\ s.generation = r.generation
        /\ s.owner = 0 /\ s.freed = TRUE /\ s.released = TRUE /\ s.owns = FALSE
        /\ s.resolved = r.resolved /\ s.deferred = r.deferred
        /\ s.status = r.status /\ s.outcome = r.outcome
    BY <2>1, <2>2 DEF TokenRecord
  <2> QED  BY <2>3 DEF r
<1> HIDE DEF s
<1>3. /\ token' \in Seq(TokenRecord) /\ Len(token') = Solved
      /\ token'[t] = s
      /\ \A k \in 1..Solved : k # t => token'[k] = token[k]
  BY <1>1, <1>2, Replaced DEF s
<1>4. token[t].resolved /\ token[t].deferred => token[t].status = token[t].outcome
  BY DEF IInv, DeferredInv
<1> QED  BY <1>2, <1>3, <1>4 DEF TokenFollows

LEMMA FreeResidualKeeps ==
    ASSUME IInv, NEW t \in 1..Solved, free_device_residual(t)
    PROVE  IInv'
<1> DEFINE h == token[t].handle
<1>1. token[t] \in TokenRecord /\ h \in Handles
  BY Typed, RecordFields DEF IInv
<1>2. /\ slot[h].state = "poisoned" \/ token[t].released
      /\ token' = [token EXCEPT ![t].released = TRUE, ![t].freed = TRUE,
                                ![t].owner = 0]
      /\ UNCHANGED <<context, handle, slot, data, consumer, stream, arena, faults>>
  BY DEF free_device_residual
<1>3. ~token[t].owns
  BY <1>2 DEF IInv, DeferredInv
<1>4. [token[t] EXCEPT !.released = TRUE, !.freed = TRUE, !.owner = 0]
         = [token[t] EXCEPT !.released = TRUE, !.freed = TRUE,
                            !.owns = FALSE, !.owner = 0]
  <2>1. token[t].owns = FALSE
    BY <1>1, <1>3, RecordFields
  <2> QED  BY <1>1, <2>1 DEF TokenRecord
<1>5. token' = [token EXCEPT ![t] =
                   [token[t] EXCEPT !.released = TRUE, !.freed = TRUE,
                                    !.owner = 0]]
  <2>1. token \in Seq(TokenRecord)
    BY DEF IInv, TypeOK
  <2> QED  BY <1>2, <2>1
<1>6. context' = Undeferred(t)
  <2>1. context \in ContextRecord
    BY DEF IInv, TypeOK
  <2> QED  BY <1>2, <1>3, <2>1 DEF Undeferred, ContextRecord
<1>7. TokenFollows(t) /\ Len(token') = Solved
  BY <1>4, <1>5, <1>6, EndedFollows
<1>8. slot[h].owner = t => slot[h].state # "leased"
  BY <1>1, <1>2 DEF IInv, SlotInv
<1>9. SlotFollows(t) /\ StreamFollows
  BY <1>2, <1>7, <1>8, SlotStays, StreamStays
<1>10. ConsumerFollows(t)
  <2>1. consumer[t] = "running" => Reading(t)
    BY <1>2 DEF IInv, ReaderInv, Reading, ConsumerReady
  <2> QED  BY <1>2, <2>1 DEF ConsumerFollows, IInv, TypeOK
<1> QED
  BY <1>2, <1>7, <1>9, <1>10, UserStepKeeps DEF UserStep, IInv, TypeOK

LEMMA DropTokenKeeps ==
    ASSUME IInv, NEW t \in 1..Solved, DropToken(t)
    PROVE  IInv'
<1> DEFINE h == token[t].handle
           gone == token[t].released \/ slot[h].generation # token[t].generation
<1>1. /\ token[t] \in TokenRecord /\ h \in Handles
      /\ slot \in [Handles -> SlotRecord] /\ slot[h] \in SlotRecord
      /\ 0 \in 0..MaxSolves /\ t # 0 /\ faults \in Nat
  BY Typed, RecordFields, RuntimeAssumption DEF IInv, TypeOK
<1>2. /\ token' = [token EXCEPT ![t].released = TRUE, ![t].freed = TRUE,
                                ![t].owns = FALSE, ![t].owner = 0]
      /\ consumer' = Unread(t)
      /\ UNCHANGED <<handle, data, stream, arena>>
  BY DEF DropToken
<1>3. \/ gone /\ NoFault /\ UNCHANGED <<slot, context>>
      \/ /\ ~gone /\ slot[h].state = "poisoned" /\ NoFault
         /\ slot' = [slot EXCEPT ![h].owner = 0] /\ context' = Undeferred(t)
      \/ /\ ~gone /\ slot[h].state # "poisoned"
         /\ Cleanup(t) \/ CleanupFails(t)
  BY DEF DropToken
<1>4. ~token[t].released => ~gone /\ slot[h].owner = t
  BY DEF IInv, LeaseInv
<1>5. token[t].released => ~token[t].owns
  BY DEF IInv, DeferredInv
<1>6. context' = Undeferred(t)
  <2>1. CASE gone /\ UNCHANGED <<slot, context>>
    <3>1. ~token[t].owns
      BY <1>4, <1>5, <2>1
    <3>2. context \in ContextRecord
      BY DEF IInv, TypeOK
    <3> QED  BY <2>1, <3>1, <3>2 DEF Undeferred, ContextRecord
  <2> QED  BY <1>3, <2>1 DEF Cleanup, CleanupFails
<1>7. token' = [token EXCEPT ![t] =
                   [token[t] EXCEPT !.released = TRUE, !.freed = TRUE,
                                    !.owns = FALSE, !.owner = 0]]
  <2>1. token \in Seq(TokenRecord)
    BY DEF IInv, TypeOK
  <2> QED  BY <1>2, <2>1
<1>8. TokenFollows(t) /\ token'[t].released /\ Len(token') = Solved
  BY <1>6, <1>7, EndedFollows
<1>9. /\ SlotFollows(t) /\ faults' \in Nat
      /\ consumer[t] = "running" =>
            slot'[h] = slot[h] \/ slot'[h].state = "poisoned"
  <2>1. CASE gone /\ NoFault /\ UNCHANGED <<slot, context>>
    <3>1. slot[h].owner = t => slot[h].state # "leased"
      BY <1>1, <1>4, <2>1 DEF IInv, SlotInv
    <3> QED  BY <1>1, <2>1, <3>1, SlotStays DEF NoFault
  <2>2. CASE /\ ~gone /\ slot[h].state = "poisoned" /\ NoFault
             /\ slot' = [slot EXCEPT ![h].owner = 0]
    <3>1. /\ slot' \in [Handles -> SlotRecord]
          /\ \A k \in Handles : k # h => slot'[k] = slot[k]
          /\ slot'[h].generation = slot[h].generation /\ slot'[h].owner = 0
          /\ slot'[h].state = "poisoned"
      <4> HIDE DEF h
      <4> QED  BY <1>1, <2>2 DEF SlotRecord
    <3> QED  BY <1>1, <1>4, <1>8, <2>2, <3>1 DEF SlotFollows, NoFault
  <2>3. CASE ~gone /\ slot[h].state # "poisoned" /\ Cleanup(t)
    <3>1. slot[h].owner = t /\ slot' = Freed(h) /\ NoFault
      BY <1>4, <2>3 DEF Cleanup
    <3>2. consumer[t] # "running"
      BY <2>3 DEF Cleanup, IInv, ReaderInv
    <3> QED  BY <1>1, <1>8, <2>3, <3>1, <3>2, FreedFollows DEF NoFault
  <2>4. CASE ~gone /\ slot[h].state # "poisoned" /\ CleanupFails(t)
    <3>1. /\ slot' = [slot EXCEPT ![h].state = "poisoned", ![h].owner = 0]
          /\ Fault /\ slot[h].owner = t
      BY <1>4, <2>4 DEF CleanupFails
    <3>2. /\ slot' \in [Handles -> SlotRecord]
          /\ \A k \in Handles : k # h => slot'[k] = slot[k]
          /\ slot'[h].generation = slot[h].generation /\ slot'[h].owner = 0
          /\ slot'[h].state = "poisoned"
      <4> HIDE DEF h
      <4> QED  BY <1>1, <3>1 DEF SlotRecord
    <3> QED  BY <1>1, <1>8, <3>1, <3>2 DEF SlotFollows, Fault
  <2> QED  BY <1>3, <2>1, <2>2, <2>3, <2>4
<1>10. StreamFollows /\ ConsumerFollows(t)
  BY <1>2, <1>8, <1>9, StreamStays, UnreadFollows
<1> QED
  BY <1>2, <1>8, <1>9, <1>10, UserStepKeeps DEF UserStep

-----------------------------------------------------------------------------
(* A new solve takes a slot nobody leases and goes to the end of the       *)
(* stream.                                                                 *)
LEMMA SolveKeeps ==
    ASSUME IInv, NEW h \in Handles, NEW late \in BOOLEAN,
           solve_fixed_sp_batch(h, late)
    PROVE  IInv'
<1> USE RuntimeAssumption
<1>0. Solved \in Nat
  BY Typed DEF IInv
<1> PICK n \in Nat : n = Solved + 1
  BY <1>0
<1> DEFINE op == [kind |-> "solve", of |-> n]
<1>1. /\ Solved < MaxSolves /\ ~context.deferred
      /\ slot[h].state = "free" /\ ~slot[h].registered
      /\ slot' = [slot EXCEPT ![h].generation = @ + 1, ![h].state = "leased",
                              ![h].owner = n]
      /\ context' = [context EXCEPT !.deferred = late]
      /\ stream' = Append(stream, op)
      /\ consumer' = Append(consumer, "none")
      /\ UNCHANGED <<handle, data, faults>>
  BY DEF solve_fixed_sp_batch, Admits, NoFault
<1>2. PICK diagnosis \in Results :
         /\ token' = Append(token, NewToken(h, late, diagnosis))
         /\ arena' = IF ~late /\ diagnosis = "svd_failed" THEN n ELSE arena
  BY DEF solve_fixed_sp_batch, Outcomes, Results
<1> DEFINE new == NewToken(h, late, diagnosis)
<1>3. /\ Solved \in Nat /\ n \in 1..MaxSolves /\ n # 0
      /\ token \in Seq(TokenRecord) /\ Len(token) = Solved
      /\ consumer \in Seq({"none", "view", "running", "done"})
      /\ Len(consumer) = Solved
      /\ stream \in Seq(Operation) /\ op \in Operation
      /\ slot \in [Handles -> SlotRecord] /\ slot[h] \in SlotRecord
      /\ context \in ContextRecord /\ arena \in 0..MaxSolves
  BY <1>1, Typed DEF IInv, TypeOK, Solved, Operation
<1>4. /\ new \in TokenRecord /\ new.handle = h /\ new.owner = h
      /\ new.generation = slot[h].generation + 1
      /\ new.deferred = late /\ new.owns = late
      /\ new.resolved = FALSE /\ new.released = FALSE /\ new.freed = FALSE
  BY <1>3 DEF NewToken, TokenRecord, SlotRecord, Results
<1>5. /\ token' \in Seq(TokenRecord) /\ Len(token') = n /\ token'[n] = new
      /\ \A k \in 1..Solved : token'[k] = token[k]
      /\ n = Solved + 1
  <2>1. token' = Append(token, new)
    BY <1>2
  <2> HIDE DEF new
  <2> QED  BY <1>3, <1>4, <2>1
<1> HIDE DEF new, op
<1>6. /\ consumer' \in Seq({"none", "view", "running", "done"})
      /\ Len(consumer') = n /\ consumer'[n] = "none"
      /\ \A k \in 1..Solved : consumer'[k] = consumer[k]
  BY <1>1, <1>3
<1>7. /\ slot' \in [Handles -> SlotRecord]
      /\ \A k \in Handles : k # h => slot'[k] = slot[k]
      /\ slot'[h].owner = n /\ slot'[h].state = "leased"
      /\ slot'[h].generation = slot[h].generation + 1
      /\ ~slot'[h].registered
  BY <1>1, <1>3 DEF SlotRecord
<1>8. /\ context' \in ContextRecord /\ context'.active = context.active
      /\ context'.deferred = late
  BY <1>1, <1>3 DEF ContextRecord
<1>9. /\ stream' \in Seq(Operation)
      /\ Len(stream) \in Nat /\ DOMAIN stream = 1..Len(stream)
      /\ DOMAIN stream' = 1..(Len(stream) + 1)
      /\ stream'[Len(stream) + 1] = op
      /\ \A i \in 1..Len(stream) : stream'[i] = stream[i]
  BY <1>1, <1>3
<1>10. \A i \in DOMAIN stream' :
          \/ i \in DOMAIN stream /\ stream'[i] = stream[i]
          \/ i = Len(stream) + 1 /\ stream'[i] = op
  BY <1>9
<1>11. Solved' = n /\ n \in 1..n /\ op.kind = "solve" /\ op.of = n
  BY <1>3, <1>5 DEF Solved, op
<1>12. TypeOK'
  BY <1>1, <1>2, <1>3, <1>5, <1>6, <1>7, <1>8, <1>9, <1>11 DEF IInv, TypeOK
<1>13. /\ \A k \in 1..Solved : Ready(k)' <=> Ready(k)
       /\ ~Ready(n)'
  <2>1. \A k \in 1..Solved : op # [kind |-> "solve", of |-> k]
    BY <1>3, <1>5, <1>11
  <2>2. \A k \in 1..Solved : Ready(k)' <=> Ready(k)
    BY <1>9, <1>10, <2>1 DEF Ready
  <2>3. ~Ready(n)'
    BY <1>3, <1>5, <1>9, <1>11 DEF Ready, op
  <2> QED  BY <2>2, <2>3
<1>14. \A k \in 1..Solved : ConsumerReady(k)' => ConsumerReady(k)
  BY <1>9 DEF ConsumerReady
<1>15. StreamInv'
  <2>1. \A i \in DOMAIN stream' : stream'[i].of \in 1..n
    BY <1>3, <1>5, <1>10, <1>11 DEF IInv, StreamInv
  <2>2. \A i, j \in DOMAIN stream' :
           i < j /\ stream'[i].kind = "solve" /\ stream'[j].kind = "solve" =>
               stream'[i].of < stream'[j].of
    <3> SUFFICES ASSUME NEW i \in DOMAIN stream', NEW j \in DOMAIN stream', i < j,
                        stream'[i].kind = "solve", stream'[j].kind = "solve"
                 PROVE  stream'[i].of < stream'[j].of
      OBVIOUS
    <3>1. i \in DOMAIN stream /\ stream'[i] = stream[i] /\ stream[i].of \in 1..Solved
      BY <1>9, <1>10 DEF IInv, StreamInv
    <3>2. CASE j \in DOMAIN stream /\ stream'[j] = stream[j]
      BY <3>1, <3>2 DEF IInv, StreamInv
    <3>3. CASE stream'[j] = op
      BY <1>3, <1>5, <1>11, <3>1, <3>3
    <3> QED  BY <1>10, <3>2, <3>3
  <2>3. \A i \in DOMAIN stream' : \A k \in 1..n :
           stream'[i].kind = "solve" /\ stream'[i].of < k => ~Ready(k)'
    <3> SUFFICES ASSUME NEW i \in DOMAIN stream', NEW k \in 1..n,
                        stream'[i].kind = "solve", stream'[i].of < k
                 PROVE  ~Ready(k)'
      OBVIOUS
    <3>1. CASE k = n
      BY <1>13, <3>1 DEF Ready
    <3>2. CASE k # n
      <4>1. k \in 1..Solved
        BY <1>3, <1>5, <3>2
      <4>2. i \in DOMAIN stream /\ stream'[i] = stream[i]
        BY <1>3, <1>5, <1>10, <1>11, <4>1
      <4> QED  BY <1>13, <4>1, <4>2 DEF IInv, StreamInv
    <3> QED  BY <3>1, <3>2
  <2> QED  BY <1>11, <2>1, <2>2, <2>3 DEF StreamInv
<1>16. \A k \in 1..n : k \in 1..Solved \/ k = n
  BY <1>3, <1>5
<1>17. \A k \in 1..Solved : ~token[k].released => token[k].handle # h
  BY <1>1 DEF IInv, LeaseInv, SlotInv
<1>18. \A k \in 1..Solved : token[k].handle \in Handles
  BY Typed, RecordFields DEF IInv
<1>19. LeaseInv'
  <2> SUFFICES ASSUME NEW k \in 1..n
               PROVE  /\ token'[k].owner = IF token'[k].freed THEN 0 ELSE token'[k].handle
                      /\ token'[k].freed => token'[k].released
                      /\ ~token'[k].released =>
                            /\ slot'[token'[k].handle].owner = k
                            /\ slot'[token'[k].handle].generation = token'[k].generation
    BY <1>11 DEF LeaseInv
  <2>1. CASE k = n
    BY <1>4, <1>5, <1>7, <2>1
  <2>2. CASE k \in 1..Solved
    BY <1>5, <1>7, <1>17, <1>18, <2>2 DEF IInv, LeaseInv
  <2> QED  BY <1>16, <2>1, <2>2
<1>20. \A k \in 1..Solved : ~token[k].owns
  BY <1>1 DEF IInv, DeferredInv
<1>21. DeferredInv'
  <2>1. ASSUME NEW k \in 1..n
        PROVE  /\ token'[k].owns =>
                      /\ token'[k].deferred /\ ~token'[k].resolved
                      /\ ~token'[k].released /\ context'.deferred /\ k = n
                      /\ slot'[token'[k].handle].state = "leased"
                      /\ Ready(k)' => arena' = k
               /\ token'[k].deferred /\ ~token'[k].resolved /\ ~token'[k].released =>
                      token'[k].owns
               /\ token'[k].resolved /\ token'[k].deferred =>
                      token'[k].status = token'[k].outcome
    <3>1. CASE k = n
      <4>1. ~Ready(k)'
        BY <1>13, <3>1 DEF Ready
      <4> QED  BY <1>4, <1>5, <1>7, <1>8, <3>1, <4>1
    <3>2. CASE k \in 1..Solved
      BY <1>5, <1>20, <3>2 DEF IInv, DeferredInv
    <3> QED  BY <1>16, <3>1, <3>2
  <2>2. context'.deferred => \E k \in 1..n : token'[k].owns
    BY <1>4, <1>5, <1>8, <1>11
  <2> QED  BY <1>11, <2>1, <2>2 DEF DeferredInv
<1>22. SlotInv'
  <2> SUFFICES ASSUME NEW g \in Handles
               PROVE  /\ slot'[g].state = "free" => slot'[g].owner = 0 /\ ~slot'[g].registered
                      /\ slot'[g].state = "leased" =>
                            slot'[g].owner # 0 /\ ~token'[slot'[g].owner].released
                      /\ slot'[g].owner # 0 =>
                            /\ slot'[g].owner \in 1..n
                            /\ token'[slot'[g].owner].handle = g
                            /\ \A k \in 1..n :
                                  token'[k].handle = g => k <= slot'[g].owner
                            /\ Ready(slot[g].owner)' => data'[g] = slot'[g].owner
    BY <1>11 DEF SlotInv
  <2>1. CASE g = h
    <3>1. ~Ready(slot[g].owner)'
      BY <1>7, <1>13, <2>1 DEF Ready
    <3> QED  BY <1>3, <1>4, <1>5, <1>7, <1>11, <2>1, <3>1
  <2>2. CASE g # h
    <3>1. slot'[g] = slot[g] /\ data'[g] = data[g]
      BY <1>1, <1>7, <2>2
    <3>2. CASE slot[g].owner = 0
      BY <3>1, <3>2 DEF IInv, SlotInv
    <3>3. CASE slot[g].owner # 0
      <4>1. PICK o \in 1..Solved : o = slot[g].owner
        BY <3>3 DEF IInv, SlotInv
      <4>2. Ready(slot[g].owner)' => Ready(o)
        <5>1. Ready(slot[g].owner)' => Ready(o)'
          BY <3>1, <4>1 DEF Ready
        <5> QED  BY <1>13, <5>1
      <4>3. \A k \in 1..n : token'[k].handle = g => k <= o
        BY <1>4, <1>5, <1>16, <2>2, <3>3, <4>1 DEF IInv, SlotInv
      <4>4. o \in 1..n /\ token'[o] = token[o]
        BY <1>3, <1>5
      <4> QED  BY <3>1, <3>3, <4>1, <4>2, <4>3, <4>4 DEF IInv, SlotInv
    <3> QED  BY <3>2, <3>3
  <2> QED  BY <2>1, <2>2
<1>23. ReaderInv'
  <2> SUFFICES ASSUME NEW k \in 1..n, consumer'[k] = "running"
               PROVE  LET g == token'[k].handle IN
                      /\ handle'[g].life = "usable" /\ data'[g] = k
                      /\ \/ slot'[g].state = "poisoned"
                         \/ /\ slot'[g].state = "leased" /\ slot'[g].owner = k
                            /\ slot'[g].registered /\ ~ConsumerReady(k)'
                      /\ \A i \in DOMAIN stream' :
                            stream'[i].kind = "solve" => token'[stream'[i].of].handle # g
    BY <1>11 DEF ReaderInv
  <2>1. k \in 1..Solved /\ consumer[k] = "running" /\ token'[k] = token[k]
    BY <1>5, <1>6, <1>16
  <2> DEFINE g == token[k].handle
  <2>2. g # h /\ slot'[g] = slot[g]
    BY <1>1, <1>7, <1>18, <2>1 DEF IInv, ReaderInv
  <2>3. \A i \in DOMAIN stream' :
           stream'[i].kind = "solve" => token'[stream'[i].of].handle # g
    <3> SUFFICES ASSUME NEW i \in DOMAIN stream', stream'[i].kind = "solve"
                 PROVE  token'[stream'[i].of].handle # g
      OBVIOUS
    <3>1. CASE i \in DOMAIN stream /\ stream'[i] = stream[i]
      BY <1>5, <2>1, <3>1 DEF IInv, ReaderInv, StreamInv
    <3>2. CASE stream'[i] = op
      BY <1>4, <1>5, <1>11, <2>2, <3>2
    <3> QED  BY <1>10, <3>1, <3>2
  <2> QED  BY <1>1, <1>14, <2>1, <2>2, <2>3 DEF IInv, ReaderInv
<1>24. HandleInv'
  BY <1>1, <1>8 DEF IInv, HandleInv
<1> QED
  BY <1>12, <1>15, <1>19, <1>21, <1>22, <1>23, <1>24 DEF IInv

LEMMA SolveThrowsKeeps ==
    ASSUME IInv, NEW h \in Handles, SolveThrows(h)
    PROVE  IInv'
<1>1. /\ slot[h].state = "free"
      /\ slot' = [slot EXCEPT ![h].generation = @ + 1]
      /\ data' = [data EXCEPT ![h] = 0]
      /\ UNCHANGED <<context, handle, token, consumer, stream, arena>>
      /\ faults' = faults + 1
  BY DEF SolveThrows, Admits, Fault
<1>2. /\ slot \in [Handles -> SlotRecord] /\ data \in [Handles -> 0..MaxSolves]
      /\ faults \in Nat /\ 0 \in 0..MaxSolves
      /\ slot[h].owner = 0
      /\ \A k \in 1..Solved : token[k].handle \in Handles
  BY <1>1, RuntimeAssumption, Typed, RecordFields DEF IInv, TypeOK, SlotInv
<1>3. /\ slot' \in [Handles -> SlotRecord]
      /\ \A k \in Handles : k # h => slot'[k] = slot[k]
      /\ slot'[h].state = "free" /\ slot'[h].owner = 0
      /\ slot'[h].registered = slot[h].registered
  BY <1>1, <1>2 DEF SlotRecord
<1>4. /\ data' \in [Handles -> 0..MaxSolves]
      /\ \A k \in Handles : k # h => data'[k] = data[k]
  BY <1>1, <1>2
<1>5. Solved' = Solved
  BY <1>1 DEF Solved
<1>6. TypeOK'
  BY <1>1, <1>2, <1>3, <1>4, <1>5 DEF IInv, TypeOK
<1>7. StreamInv'
  BY <1>1, <1>5 DEF IInv, StreamInv, Ready
<1>8. \A k \in 1..Solved : ~token[k].released => token[k].handle # h
  <2>1. \A k \in 1..Solved : k # 0
    BY Typed DEF IInv
  <2> QED  BY <1>2, <2>1 DEF IInv, LeaseInv
<1>9. LeaseInv'
  BY <1>1, <1>2, <1>3, <1>5, <1>8 DEF IInv, LeaseInv
<1>10. DeferredInv'
  BY <1>1, <1>2, <1>3, <1>5, <1>8 DEF IInv, DeferredInv, Ready
<1>11. SlotInv'
  <2> SUFFICES ASSUME NEW g \in Handles
               PROVE  /\ slot'[g].state = "free" => slot'[g].owner = 0 /\ ~slot'[g].registered
                      /\ slot'[g].state = "leased" =>
                            slot'[g].owner # 0 /\ ~token'[slot'[g].owner].released
                      /\ slot'[g].owner # 0 =>
                            /\ slot'[g].owner \in 1..Solved
                            /\ token'[slot'[g].owner].handle = g
                            /\ \A k \in 1..Solved :
                                  token'[k].handle = g => k <= slot'[g].owner
                            /\ Ready(slot[g].owner)' => data'[g] = slot'[g].owner
    BY <1>5 DEF SlotInv
  <2>1. CASE g = h
    BY <1>1, <1>3, <2>1 DEF IInv, SlotInv
  <2>2. CASE g # h
    BY <1>1, <1>3, <1>4, <2>2 DEF IInv, SlotInv, Ready
  <2> QED  BY <2>1, <2>2
<1>12. ReaderInv'
  <2>1. \A k \in 1..Solved : consumer[k] = "running" => token[k].handle # h
    BY <1>1 DEF IInv, ReaderInv
  <2> QED
    BY <1>1, <1>2, <1>3, <1>4, <1>5, <2>1 DEF IInv, ReaderInv, ConsumerReady
<1>13. HandleInv'
  BY <1>1 DEF IInv, HandleInv
<1> QED
  BY <1>6, <1>7, <1>9, <1>10, <1>11, <1>12, <1>13 DEF IInv

-----------------------------------------------------------------------------
(* The device takes the first piece of work from the stream.               *)
LEMMA DeviceKeeps == ASSUME IInv, Device PROVE IInv'
<1> USE RuntimeAssumption
<1>1. PICK op \in Operation : op = stream[1] /\ op = Head(stream) /\ stream # <<>>
  BY DEF Device, IInv, TypeOK
<1>2. PICK n \in 1..Solved : n = op.of
  BY <1>1, Typed DEF Device, IInv, TypeOK, StreamInv
<1> DEFINE h == token[n].handle
<1>3. /\ op.kind = "consumer" => consumer[n] = "done"
      /\ data' = IF op.kind = "solve" THEN [data EXCEPT ![h] = n] ELSE data
      /\ arena' = IF op.kind = "solve" /\ (token[n].deferred \/ Certified)
                  THEN n ELSE arena
      /\ stream' = Tail(stream)
      /\ UNCHANGED <<context, handle, slot, token, consumer, faults>>
  BY <1>1, <1>2 DEF Device
<1>4. /\ stream' \in Seq(Operation)
      /\ Len(stream) \in Nat \ {0} /\ Len(stream') = Len(stream) - 1
      /\ DOMAIN stream = 1..Len(stream) /\ DOMAIN stream' = 1..(Len(stream) - 1)
      /\ \A i \in DOMAIN stream' : i + 1 \in DOMAIN stream /\ stream'[i] = stream[i + 1]
  BY <1>1, <1>3 DEF IInv, TypeOK
<1>5. Solved' = Solved
  BY <1>3 DEF Solved
<1>6. /\ \A k \in 1..Solved : token[k].handle \in Handles
      /\ n \in 1..MaxSolves
      /\ data \in [Handles -> 0..MaxSolves] /\ arena \in 0..MaxSolves
  BY Typed, RecordFields DEF IInv, TypeOK
<1>7. TypeOK'
  BY <1>3, <1>4, <1>5, <1>6 DEF IInv, TypeOK
<1>8. \A i \in DOMAIN stream : i = 1 \/ (i - 1 \in DOMAIN stream' /\ stream'[i - 1] = stream[i])
  BY <1>4
<1>9. \A k \in 1..Solved : /\ Ready(k) => Ready(k)'
                           /\ ~Ready(k) => ~Ready(k)' \/ (op.kind = "solve" /\ k = n)
  <2> SUFFICES ASSUME NEW k \in 1..Solved
               PROVE  /\ Ready(k) => Ready(k)'
                      /\ ~Ready(k) => ~Ready(k)' \/ (op.kind = "solve" /\ k = n)
    OBVIOUS
  <2>1. Ready(k) => Ready(k)'
    BY <1>4 DEF Ready
  <2>2. ASSUME ~Ready(k), ~(op.kind = "solve" /\ k = n) PROVE ~Ready(k)'
    <3>1. PICK i \in DOMAIN stream : stream[i] = [kind |-> "solve", of |-> k]
      BY <2>2 DEF Ready
    <3>2. i # 1
      BY <1>1, <1>2, <2>2, <3>1
    <3> QED  BY <1>8, <3>1, <3>2 DEF Ready
  <2> QED  BY <2>1, <2>2
<1>10. \A k \in 1..Solved : ~ConsumerReady(k) =>
          ~ConsumerReady(k)' \/ (op.kind = "consumer" /\ k = n)
  <2> SUFFICES ASSUME NEW k \in 1..Solved, ~ConsumerReady(k),
                      ~(op.kind = "consumer" /\ k = n)
               PROVE  ~ConsumerReady(k)'
    OBVIOUS
  <2>1. PICK i \in DOMAIN stream : stream[i] = [kind |-> "consumer", of |-> k]
    BY DEF ConsumerReady
  <2>2. i # 1
    BY <1>1, <1>2, <2>1
  <2> QED  BY <1>8, <2>1, <2>2 DEF ConsumerReady
(* The first solve is the oldest: it is not queued again, and every solve  *)
(* behind it is younger.                                                   *)
<1>11. op.kind = "solve" =>
          /\ \A i \in DOMAIN stream' : stream'[i].kind = "solve" => n < stream'[i].of
          /\ Ready(n)'
  <2> SUFFICES ASSUME op.kind = "solve"
               PROVE  /\ \A i \in DOMAIN stream' :
                            stream'[i].kind = "solve" => n < stream'[i].of
                      /\ Ready(n)'
    OBVIOUS
  <2>1. ASSUME NEW i \in DOMAIN stream', stream'[i].kind = "solve"
        PROVE  n < stream'[i].of
    <3>1. 1 \in DOMAIN stream /\ i + 1 \in DOMAIN stream /\ 1 < i + 1
      BY <1>4, <2>1
    <3>2. stream[i + 1].kind = "solve" /\ stream'[i] = stream[i + 1]
      BY <1>4, <2>1
    <3> QED  BY <1>1, <1>2, <3>1, <3>2 DEF IInv, StreamInv
  <2>2. \A i \in DOMAIN stream' : stream'[i] # [kind |-> "solve", of |-> n]
    BY <1>6, <2>1
  <2> QED  BY <2>1, <2>2 DEF Ready
<1>12. StreamInv'
  <2>1. \A i \in DOMAIN stream' : stream'[i].of \in 1..Solved
    BY <1>4 DEF IInv, StreamInv
  <2>2. \A i, j \in DOMAIN stream' :
           i < j /\ stream'[i].kind = "solve" /\ stream'[j].kind = "solve" =>
               stream'[i].of < stream'[j].of
    <3> SUFFICES ASSUME NEW i \in DOMAIN stream', NEW j \in DOMAIN stream', i < j,
                        stream'[i].kind = "solve", stream'[j].kind = "solve"
                 PROVE  stream'[i].of < stream'[j].of
      OBVIOUS
    <3>1. i + 1 \in DOMAIN stream /\ j + 1 \in DOMAIN stream /\ i + 1 < j + 1
      BY <1>4
    <3> QED  BY <1>4, <3>1 DEF IInv, StreamInv
  <2>3. \A i \in DOMAIN stream' : \A k \in 1..Solved :
           stream'[i].kind = "solve" /\ stream'[i].of < k => ~Ready(k)'
    <3> SUFFICES ASSUME NEW i \in DOMAIN stream', NEW k \in 1..Solved,
                        stream'[i].kind = "solve", stream'[i].of < k
                 PROVE  ~Ready(k)'
      OBVIOUS
    <3>1. ~Ready(k)
      BY <1>4 DEF IInv, StreamInv
    <3>2. op.kind = "solve" => k # n
      BY <1>6, <1>11, <2>1
    <3> QED  BY <1>9, <3>1, <3>2
  <2> QED  BY <1>5, <2>1, <2>2, <2>3 DEF StreamInv
<1>13. LeaseInv'
  BY <1>3, <1>5 DEF IInv, LeaseInv
(* Who leases the slot that is written is the one whose solve this is.     *)
<1>14. ASSUME op.kind = "solve", NEW k \in 1..Solved, Ready(k)',
              \A j \in 1..Solved : token[j].handle = h => j <= k
       PROVE  k = n
  <2>1. n <= k
    BY <1>14
  <2>2. CASE n < k
    <3>1. ~Ready(k)
      <4>1. 1 \in DOMAIN stream /\ stream[1].kind = "solve" /\ stream[1].of < k
        BY <1>1, <1>2, <1>4, <1>14, <2>2
      <4> QED
        BY <4>1 DEF IInv, StreamInv
    <3> QED  BY <1>9, <1>14, <2>2, <3>1
  <2> QED  BY <1>6, <2>1, <2>2
<1>15. SlotInv'
  <2> SUFFICES ASSUME NEW g \in Handles
               PROVE  /\ slot'[g].state = "free" => slot'[g].owner = 0 /\ ~slot'[g].registered
                      /\ slot'[g].state = "leased" =>
                            slot'[g].owner # 0 /\ ~token'[slot'[g].owner].released
                      /\ slot'[g].owner # 0 =>
                            /\ slot'[g].owner \in 1..Solved
                            /\ token'[slot'[g].owner].handle = g
                            /\ \A k \in 1..Solved :
                                  token'[k].handle = g => k <= slot'[g].owner
                            /\ Ready(slot[g].owner)' => data'[g] = slot'[g].owner
    BY <1>5 DEF SlotInv
  <2>1. ASSUME slot[g].owner # 0, Ready(slot[g].owner)'
        PROVE  data'[g] = slot[g].owner
    <3>1. PICK k \in 1..Solved : k = slot[g].owner
      BY <2>1 DEF IInv, SlotInv
    <3>2. Ready(k)' /\ token[k].handle = g
          /\ \A j \in 1..Solved : token[j].handle = g => j <= k
      BY <1>3, <2>1, <3>1 DEF Ready, IInv, SlotInv
    <3>3. CASE op.kind = "solve" /\ g = h
      <4>1. k = n
        BY <1>14, <3>2, <3>3
      <4> QED  BY <1>3, <1>6, <3>1, <3>3, <4>1
    <3>4. CASE ~(op.kind = "solve" /\ g = h)
      <4>1. ~(op.kind = "solve" /\ k = n)
        BY <3>2, <3>4
      <4>2. Ready(k)
        BY <1>9, <3>2, <4>1
      <4>3. data[g] = k
        BY <2>1, <3>1, <4>2 DEF IInv, SlotInv
      <4> QED  BY <1>3, <1>6, <3>1, <3>4, <4>3
    <3> QED  BY <3>3, <3>4
  <2> QED  BY <1>3, <2>1 DEF IInv, SlotInv
<1>16. DeferredInv'
  <2>1. ASSUME NEW k \in 1..Solved, token[k].owns, Ready(k)' PROVE arena' = k
    <3>1. k = Solved /\ token[k].deferred
      BY <2>1 DEF IInv, DeferredInv
    <3>2. CASE op.kind = "solve"
      <4>1. n = k
        <5>1. CASE n < k
          <6>1. ~Ready(k)
            BY <1>1, <1>2, <1>4, <3>2, <5>1 DEF IInv, StreamInv
          <6> QED  BY <1>9, <2>1, <5>1, <6>1
        <5> QED  BY <3>1, <5>1, <1>6
      <4> QED  BY <1>3, <3>1, <3>2, <4>1
    <3>3. CASE op.kind # "solve"
      BY <1>3, <1>9, <2>1, <3>3 DEF IInv, DeferredInv
    <3> QED  BY <3>2, <3>3
  <2> QED  BY <1>3, <1>5, <2>1 DEF IInv, DeferredInv
<1>17. ReaderInv'
  <2> SUFFICES ASSUME NEW k \in 1..Solved, consumer[k] = "running"
               PROVE  LET g == token[k].handle IN
                      /\ handle'[g].life = "usable" /\ data'[g] = k
                      /\ \/ slot'[g].state = "poisoned"
                         \/ /\ slot'[g].state = "leased" /\ slot'[g].owner = k
                            /\ slot'[g].registered /\ ~ConsumerReady(k)'
                      /\ \A i \in DOMAIN stream' :
                            stream'[i].kind = "solve" => token'[stream'[i].of].handle # g
    BY <1>3, <1>5 DEF ReaderInv
  <2> DEFINE g == token[k].handle
  <2>1. 1 \in DOMAIN stream
    BY <1>4
  <2>2. op.kind = "solve" => h # g
    BY <1>1, <1>2, <2>1 DEF IInv, ReaderInv
  <2>3. data'[g] = k
    BY <1>3, <1>6, <2>2 DEF IInv, ReaderInv
  <2>4. op.kind = "consumer" => k # n
    BY <1>3
  <2>5. \/ slot'[g].state = "poisoned"
        \/ /\ slot'[g].state = "leased" /\ slot'[g].owner = k
           /\ slot'[g].registered /\ ~ConsumerReady(k)'
    BY <1>3, <1>10, <2>4 DEF IInv, ReaderInv
  <2>6. \A i \in DOMAIN stream' :
           stream'[i].kind = "solve" => token'[stream'[i].of].handle # g
    BY <1>3, <1>4 DEF IInv, ReaderInv
  <2> QED  BY <1>3, <2>3, <2>5, <2>6 DEF IInv, ReaderInv
<1>18. HandleInv'
  BY <1>3 DEF IInv, HandleInv
<1> QED
  BY <1>7, <1>12, <1>13, <1>15, <1>16, <1>17, <1>18 DEF IInv

-----------------------------------------------------------------------------
LEMMA InitInv == Init => IInv
<1> SUFFICES ASSUME Init PROVE IInv
  OBVIOUS
<1> USE RuntimeAssumption
<1>1. Solved = 0 /\ 0 \in Nat /\ 0 \in 0..MaxSolves
  BY DEF Init, Solved
<1>2. TypeOK
  BY <1>1 DEF Init, TypeOK, ContextRecord, HandleRecord, SlotRecord
<1>3. StreamInv /\ LeaseInv /\ DeferredInv /\ SlotInv /\ ReaderInv
  BY <1>1 DEF Init, StreamInv, LeaseInv, DeferredInv, SlotInv, ReaderInv
<1>4. HandleInv
  <2>1. {h \in Handles : handle[h].registered} = {}
    BY DEF Init
  <2>2. Cardinality({h \in Handles : handle[h].registered}) = 0
    BY <2>1, FS_EmptySet
  <2> QED  BY <2>2 DEF Init, HandleInv
<1> QED  BY <1>2, <1>3, <1>4 DEF IInv

LEMMA NextInv == IInv /\ [Next]_vars => IInv'
<1> SUFFICES ASSUME IInv, [Next]_vars PROVE IInv'
  OBVIOUS
<1>1. ASSUME NEW capacity \in Capacities, reserve(capacity) PROVE IInv'
  BY <1>1, ReserveKeeps
<1>2. CASE free_fixed_sp_runtime
  BY <1>2, FreeRuntimeKeeps
<1>3. ASSUME NEW h \in Handles, create_prepared_s_gpu(h) PROVE IInv'
  BY <1>3, CreateKeeps
<1>4. ASSUME NEW h \in Handles,
             free_prepared_s_gpu(h) \/ DropHandle(h) \/ DestroyHandle(h)
      PROVE  IInv'
  BY <1>4, HandleStepKeeps
<1>5. ASSUME NEW h \in Handles, NEW late \in BOOLEAN,
             solve_fixed_sp_batch(h, late)
      PROVE  IInv'
  BY <1>5, SolveKeeps
<1>6. ASSUME NEW h \in Handles, SolveThrows(h) PROVE IInv'
  BY <1>6, SolveThrowsKeeps
<1>7. CASE Device
  BY <1>7, DeviceKeeps
<1>8. ASSUME NEW t \in 1..Solved, ConsumerEnds(t) PROVE IInv'
  BY <1>8, ConsumerEndsKeeps
<1>9. ASSUME NEW t \in 1..Solved,
             Resolve(t) \/ acquire_device_residual_consumer_view(t)
      PROVE  IInv'
  BY <1>9, ResolveKeeps
<1>10. ASSUME NEW t \in 1..Solved, acquire_device_residual_submission_view(t)
       PROVE  IInv'
  BY <1>10, SubmissionViewKeeps
<1>11. ASSUME NEW t \in 1..Solved, register_device_residual_consumer_event(t)
       PROVE  IInv'
  BY <1>11, RegisterKeeps
<1>12. ASSUME NEW t \in 1..Solved, release_device_residual(t) PROVE IInv'
  BY <1>12, ReleaseKeeps
<1>13. ASSUME NEW t \in 1..Solved, free_device_residual(t) PROVE IInv'
  BY <1>13, FreeResidualKeeps
<1>14. ASSUME NEW t \in 1..Solved, DropToken(t) PROVE IInv'
  BY <1>14, DropTokenKeeps
<1>15. CASE UNCHANGED vars
  <2>1. TypeOK' /\ HandleInv'
    BY <1>15 DEF vars, IInv, TypeOK, HandleInv, Solved
  <2> QED  BY <1>15, <2>1, Quiet DEF vars, IInv, ReaderInv
<1> QED
  BY <1>1, <1>2, <1>3, <1>4, <1>5, <1>6, <1>7, <1>8, <1>9, <1>10, <1>11,
     <1>12, <1>13, <1>14, <1>15 DEF Next

(* The inductive invariant: the stream is first in, first out, an          *)
(* unreleased token leases its slot, one deferred solve is in flight, and  *)
(* a reader's slot is locked.                                              *)
THEOREM Invariance == Spec => []IInv
BY InitInv, NextInv, PTL DEF Spec

(* Every variable keeps its type: reserve, the batches and the tokens'     *)
(* entry points never leave a handle or a slot in an undefined state.      *)
THEOREM TypeCorrect == Spec => []TypeOK
<1>1. IInv => TypeOK
  BY DEF IInv
<1> QED  BY Invariance, <1>1, PTL

(* A consumer on another stream reads the batch it was given until it is   *)
(* done, a deferred token reports its own solve although it is read late   *)
(* from a shared arena, and no slot, context flag or handle count stays    *)
(* locked: for any number of handles, solves and failing CUDA calls.       *)
THEOREM RuntimeSound == Spec => []BatchesSound
<1>1. IInv => BatchesSound
  <2> SUFFICES ASSUME IInv PROVE BatchesSound
    OBVIOUS
  <2>1. ConsumerUndisturbed
    BY DEF IInv, ReaderInv, ConsumerUndisturbed
  <2>2. StatusIsOwn
    BY DEF IInv, DeferredInv, StatusIsOwn
  <2>3. NothingWedged
    <3>1. ASSUME NEW h \in Handles, slot[h].state = "leased"
          PROVE  \E t \in 1..Solved : slot[h].owner = t /\ token[t].owner = h
      <4>1. /\ slot[h].owner \in 1..Solved /\ token[slot[h].owner].handle = h
            /\ ~token[slot[h].owner].released
        BY <3>1 DEF IInv, SlotInv
      <4> QED  BY <4>1 DEF IInv, LeaseInv
    <3>2. context.deferred => \E t \in 1..Solved : token[t].owns /\ ~token[t].freed
      BY DEF IInv, DeferredInv, LeaseInv
    <3> QED  BY <3>1, <3>2 DEF IInv, HandleInv, NothingWedged
  <2> QED  BY <2>1, <2>2, <2>3 DEF BatchesSound
<1> QED  BY Invariance, <1>1, PTL

-----------------------------------------------------------------------------
(* What one batch of the runtime computes for its targets (FixedSpSolve),  *)
(* for every finite set of targets.                                        *)
Statuses ==
    {Solve!ErrStablePathNotImplemented, "OK_CHOLESKY_BATCHED", "OK_CHOLESKY_SINGLE",
     "OK_QR", "OK_SVD", "ERR_QR_FAILED", "ERR_SVD_FAILED",
     "ERR_CERTIFICATE_FAILED", "ERR_NONFINITE_OUTPUT"}

SolveTypeOK ==
    /\ certified \in BOOLEAN /\ failClosed \in BOOLEAN
    /\ plan \in [Targets -> Solve!Routes] /\ deferred \in BOOLEAN
    /\ reason \in [Targets -> {"none", "PIVOT", "RANK_GUARD"}]
    /\ executed \in [Targets -> Solve!Routes \cup {"UNSET"}]
    /\ status \in [Targets -> Statuses]
    /\ output \in [Targets -> [route : Solve!Routes \cup {"none"}, finite : BOOLEAN]]
    /\ theta \in [Targets -> BOOLEAN] /\ info \in [Targets -> BOOLEAN]
    /\ stable \in [Targets -> {-1, 0, 1}] /\ finite \in [Targets -> {0, 1}]
    /\ svdInfo \in [Targets -> BOOLEAN] /\ certificate \in [Targets -> BOOLEAN]
    /\ svdPending \in Nat
    /\ pc \in {"factor", "solve", "qr", "svd", "checkpoint", "status", "leased",
               "resolved", "thrown"}

(* No route has taken the target on yet.                                   *)
Waiting(t) ==
    /\ executed[t] = "UNSET" /\ status[t] = Solve!ErrStablePathNotImplemented
    /\ stable[t] = -1

(* A Cholesky target is rerouted exactly when it has no factor.            *)
Factored(t) ==
    plan[t] = "CHOLESKY"
    /\ pc \in {"solve", "qr", "svd", "checkpoint", "status", "leased", "resolved"} =>
        reason[t] = IF info[t] THEN "none" ELSE "PIVOT"

(* What the solve wrote: a certificate may have scratched theta where it is *)
(* exposed, and only there.                                                *)
CholeskyWritten(t) ==
    /\ output[t].route = "CHOLESKY" /\ stable[t] = -1
    /\ ~Solve!Exposed(t) => theta[t] = output[t].finite

StableWritten(t, r) ==
    output[t].route = r /\ stable[t] = (IF output[t].finite THEN 0 ELSE 1)

(* A QR target is done unless the rank guard has handed it to the SVD.     *)
QrDone(t) ==
    /\ reason[t] \in {"none", "RANK_GUARD"}
    /\ reason[t] # "RANK_GUARD" =>
          /\ executed[t] = "QR" /\ status[t] \in {"OK_QR", "ERR_QR_FAILED"}
          /\ StableWritten(t, "QR")

SvdSettled(t) ==
    /\ executed[t] = "SVD"
    /\ status[t] = IF svdInfo[t] THEN "OK_SVD" ELSE "ERR_SVD_FAILED"

CholeskyStatus(t) ==
    executed[t] = "CHOLESKY" /\ status[t] \in {"OK_CHOLESKY_BATCHED", "OK_CHOLESKY_SINGLE"}

(* What each phase has left of a target, by its planned route.             *)
TargetInv(t) ==
    /\ Factored(t) /\ (info[t] => plan[t] = "CHOLESKY")
    /\ pc \in {"factor", "solve", "qr"} => Waiting(t)
    /\ pc \in {"factor", "solve", "qr", "svd"} /\ plan[t] # "QR" => Waiting(t)
    /\ pc = "factor" => reason[t] = "none"
    /\ pc \in {"factor", "solve", "qr"} /\ plan[t] # "CHOLESKY" => reason[t] = "none"
    /\ plan[t] = "SVD" => reason[t] = "none"
    /\ pc \in {"qr", "svd", "checkpoint", "status", "leased"}
       /\ plan[t] = "CHOLESKY" /\ info[t] => CholeskyWritten(t)
    /\ pc \in {"svd", "checkpoint", "status", "leased"} /\ plan[t] = "QR" => QrDone(t)
    /\ pc \in {"checkpoint", "status", "leased"} /\ Solve!target_uses_svd(t) =>
          StableWritten(t, "SVD")
    /\ pc \in {"status", "leased"} /\ Solve!target_uses_svd(t) /\ svdPending = 0 => SvdSettled(t)
    /\ pc = "leased" /\ plan[t] = "CHOLESKY" /\ info[t] => CholeskyStatus(t)
    /\ pc = "leased" => finite[t] = Solve!Merged(t)

(* A certificate scratches at most the exposed theta, so the failure of    *)
(* every other target is its own.                                          *)
SolveInv ==
    /\ SolveTypeOK
    /\ \A t \in Targets : TargetInv(t)
    /\ Solve!SuccessIsReal
    /\ Solve!FailureIsOwn

(* Cardinality, as the instance sees it.                                   *)
LEMMA SolveCardinality ==
    ASSUME NEW S PROVE Solve!Cardinality(S) = Cardinality(S)
BY Zenon DEF Solve!Cardinality, Cardinality

(* A verdict is one for every target.                                      *)
LEMMA VerdictsType ==
    ASSUME SolveTypeOK, NEW S, NEW c \in Solve!Verdicts(S)
    PROVE  c \in [Targets -> BOOLEAN]
BY DEF Solve!Verdicts, SolveTypeOK

(* The certificates of the targets of S scratch no compact solution but    *)
(* the exposed one.                                                        *)
LEMMA ScratchedFacts ==
    ASSUME SolveTypeOK, NEW S \in SUBSET Targets, NEW nan, NEW th \in Solve!Scratched(S, nan),
           \A u \in S : ~info[u]
    PROVE  /\ th \in [Targets -> BOOLEAN]
           /\ \A t \in Targets : ~Solve!Exposed(t) => th[t] = theta[t]
<1> DEFINE last == {t \in S : \A u \in S : u <= t}
<1>1. CASE ~certified \/ S = {}
  BY <1>1 DEF Solve!Scratched, SolveTypeOK
<1>2. CASE certified /\ S # {}
  <2>1. PICK clean \in {TRUE} \cup {t \notin nan : t \in last} :
            th = [t \in Targets |-> IF t \in Solve!FirstSafe THEN clean ELSE theta[t]]
    BY <1>2, Zenon DEF Solve!Scratched
  <2>2. clean \in BOOLEAN
    BY <2>1
  <2>3. th \in [Targets -> BOOLEAN]
    BY <2>1, <2>2 DEF SolveTypeOK
  <2>4. ASSUME NEW t \in Targets, ~Solve!Exposed(t) PROVE th[t] = theta[t]
    <3>1. t \notin Solve!FirstSafe
      BY <1>2, <2>4 DEF Solve!Exposed
    <3> QED
      BY <2>1, <3>1
  <2> QED
    BY <2>3, <2>4
<1> QED
  BY <1>1, <1>2

(* Every batch starts with no route taken.                                 *)
LEMMA SolveInit == Solve!Init => SolveInv
<1> SUFFICES ASSUME Solve!Init PROVE SolveInv
  OBVIOUS
<1>1. SolveTypeOK
  BY DEF Solve!Init, SolveTypeOK, Statuses, Solve!ErrStablePathNotImplemented, Solve!Routes
<1>2. \A t \in Targets : TargetInv(t)
  BY DEF Solve!Init, TargetInv, Factored, Waiting
<1>3. Solve!SuccessIsReal /\ Solve!FailureIsOwn
  BY DEF Solve!Init, Solve!SuccessIsReal, Solve!FailureIsOwn
<1> QED
  BY <1>1, <1>2, <1>3 DEF SolveInv

(* Who is exposed is known as soon as the factors are.                     *)
LEMMA ExposedKept ==
    ASSUME UNCHANGED <<certified, plan, info>>, NEW t \in Targets
    PROVE  Solve!Exposed(t)' = Solve!Exposed(t)
BY DEF Solve!Exposed, Solve!FirstSafe, Solve!Safe

LEMMA FactorKeeps == SolveInv /\ Solve!Factor => SolveInv'
<1> SUFFICES ASSUME SolveInv, Solve!Factor PROVE SolveInv'
  OBVIOUS
<1> USE DEF Solve!Factor
<1>1. PICK good \in SUBSET Solve!Safe :
          /\ info' = [t \in Targets |-> t \in good]
          /\ reason' = [t \in Targets |->
                           IF t \in Solve!Safe \ good THEN "PIVOT" ELSE reason[t]]
  OBVIOUS
<1>2. SolveTypeOK'
  BY <1>1 DEF SolveInv, SolveTypeOK
<1>3. ASSUME NEW t \in Targets PROVE TargetInv(t)'
  BY <1>1, <1>3 DEF SolveInv, SolveTypeOK, TargetInv, Factored, Waiting, Solve!Safe,
     Solve!Routes
<1>4. (Solve!SuccessIsReal /\ Solve!FailureIsOwn)'
  BY DEF Solve!SuccessIsReal, Solve!FailureIsOwn
<1> QED
  BY <1>2, <1>3, <1>4 DEF SolveInv

LEMMA CholeskySolveKeeps == SolveInv /\ Solve!CholeskySolve => SolveInv'
<1> SUFFICES ASSUME SolveInv, Solve!CholeskySolve PROVE SolveInv'
  OBVIOUS
<1> USE DEF Solve!CholeskySolve
<1>1. PICK nan \in SUBSET {t \in Solve!Safe : info[t]} :
          /\ theta' = [t \in Targets |-> t \notin nan]
          /\ output' = [t \in Targets |->
                IF info[t] THEN [route |-> "CHOLESKY", finite |-> t \notin nan]
                ELSE output[t]]
  OBVIOUS
<1>2. SolveTypeOK'
  <2>1. output' \in [Targets -> [route : Solve!Routes \cup {"none"}, finite : BOOLEAN]]
    BY <1>1 DEF SolveInv, SolveTypeOK, Solve!Routes
  <2>2. certificate' \in [Targets -> BOOLEAN]
    BY VerdictsType DEF SolveInv
  <2> QED
    BY <1>1, <2>1, <2>2 DEF SolveInv, SolveTypeOK, Solve!routes
<1>3. ASSUME NEW t \in Targets PROVE TargetInv(t)'
  BY <1>1, <1>3 DEF SolveInv, SolveTypeOK, TargetInv, Factored, Waiting, Solve!Safe,
     Solve!Routes, Solve!routes, CholeskyWritten
<1>4. (Solve!SuccessIsReal /\ Solve!FailureIsOwn)'
  BY DEF Solve!SuccessIsReal, Solve!FailureIsOwn
<1> QED
  BY <1>2, <1>3, <1>4 DEF SolveInv

LEMMA QrLoopKeeps == SolveInv /\ Solve!QrLoop => SolveInv'
<1> SUFFICES ASSUME SolveInv, Solve!QrLoop PROVE SolveInv'
  OBVIOUS
<1> USE DEF Solve!QrLoop
<1>1. PICK failed, rejected, nan \in SUBSET Solve!QrTargets :
          /\ status' = [t \in Targets |->
                IF t \in Solve!QrTargets THEN Solve!QrStatus(t, failed, rejected) ELSE status[t]]
          /\ executed' = [t \in Targets |->
                IF t \notin Solve!QrTargets THEN executed[t]
                ELSE IF t \in rejected \ failed THEN "SVD" ELSE "QR"]
          /\ reason' = [t \in Targets |->
                IF t \in Solve!QrTargets THEN Solve!QrReason(t, failed, rejected) ELSE reason[t]]
          /\ output' = [t \in Targets |->
                IF t \in Solve!QrTargets THEN [route |-> "QR", finite |-> t \notin nan]
                ELSE output[t]]
          /\ stable' = [t \in Targets |->
                IF t \in Solve!QrTargets THEN IF t \in nan THEN 1 ELSE 0 ELSE stable[t]]
          /\ theta' \in Solve!Scratched(Solve!QrTargets, nan)
  OBVIOUS
<1>s. /\ theta' \in [Targets -> BOOLEAN]
      /\ \A t \in Targets : ~Solve!Exposed(t) => theta'[t] = theta[t]
  <2>1. Solve!QrTargets \in SUBSET Targets /\ \A u \in Solve!QrTargets : ~info[u]
    BY DEF Solve!QrTargets, SolveInv, TargetInv
  <2> QED
    BY <1>1, <2>1, ScratchedFacts DEF SolveInv
<1>2. SolveTypeOK'
  <2>1. output' \in [Targets -> [route : Solve!Routes \cup {"none"}, finite : BOOLEAN]]
    BY <1>1 DEF SolveInv, SolveTypeOK, Solve!Routes
  <2>2. theta' \in [Targets -> BOOLEAN] /\ certificate' \in [Targets -> BOOLEAN]
    BY <1>s, VerdictsType DEF SolveInv
  <2>3. status' \in [Targets -> Statuses] /\ reason' \in [Targets -> {"none", "PIVOT", "RANK_GUARD"}]
    BY <1>1 DEF SolveInv, SolveTypeOK, Statuses, Solve!QrStatus, Solve!QrReason
  <2>4. executed' \in [Targets -> Solve!Routes \cup {"UNSET"}] /\ stable' \in [Targets -> {-1, 0, 1}]
    BY <1>1 DEF SolveInv, SolveTypeOK, Solve!Routes
  <2> QED
    BY <1>1, <2>1, <2>2, <2>3, <2>4 DEF SolveInv, SolveTypeOK
<1>3. ASSUME NEW t \in Targets PROVE TargetInv(t)'
  <2>1. CASE plan[t] = "QR"
    BY <1>1, <1>3, <2>1 DEF SolveInv, SolveTypeOK, TargetInv, Factored, Waiting, Solve!QrTargets,
       Solve!QrStatus, Solve!QrReason, QrDone, StableWritten
  <2>2. CASE plan[t] # "QR"
    BY <1>1, <1>s, <1>3, <2>2, ExposedKept DEF SolveInv, SolveTypeOK, TargetInv, Factored, Waiting,
       Solve!QrTargets, CholeskyWritten
  <2> QED
    BY <2>1, <2>2
<1>4. (Solve!SuccessIsReal /\ Solve!FailureIsOwn)'
  BY DEF Solve!SuccessIsReal, Solve!FailureIsOwn
<1> QED
  BY <1>2, <1>3, <1>4 DEF SolveInv

LEMMA SvdLoopKeeps ==
    ASSUME IsFiniteSet(Targets)
    PROVE  SolveInv /\ Solve!SvdLoop => SolveInv'
<1> SUFFICES ASSUME SolveInv, Solve!SvdLoop PROVE SolveInv'
  OBVIOUS
<1> USE DEF Solve!SvdLoop
<1>1. PICK failed, nan \in SUBSET Solve!SvdTargets :
          /\ svdInfo' = [t \in Targets |-> t \notin failed]
          /\ output' = [t \in Targets |->
                IF t \in Solve!SvdTargets THEN [route |-> "SVD", finite |-> t \notin nan]
                ELSE output[t]]
          /\ stable' = [t \in Targets |->
                IF t \in Solve!SvdTargets THEN IF t \in nan THEN 1 ELSE 0 ELSE stable[t]]
          /\ theta' \in Solve!Scratched(Solve!SvdTargets, nan)
  OBVIOUS
<1>s. /\ theta' \in [Targets -> BOOLEAN]
      /\ \A t \in Targets : ~Solve!Exposed(t) => theta'[t] = theta[t]
  <2>1. Solve!SvdTargets \in SUBSET Targets
    BY DEF Solve!SvdTargets
  <2>2. ASSUME NEW u \in Solve!SvdTargets PROVE ~info[u]
    BY <2>1 DEF Solve!SvdTargets, Solve!target_uses_svd, SolveInv, TargetInv, Factored
  <2> QED
    BY <1>1, <2>1, <2>2, ScratchedFacts DEF SolveInv
<1>c. svdPending' \in Nat /\ (Solve!SvdTargets # {} => svdPending' # 0)
  <2>1. IsFiniteSet(Solve!SvdTargets)
    BY FS_Subset DEF Solve!SvdTargets
  <2>2. svdPending' = Cardinality(Solve!SvdTargets)
    BY SolveCardinality
  <2> QED
    BY <2>1, <2>2, FS_CardinalityType, FS_EmptySet
<1>2. SolveTypeOK'
  <2>1. output' \in [Targets -> [route : Solve!Routes \cup {"none"}, finite : BOOLEAN]]
    BY <1>1 DEF SolveInv, SolveTypeOK, Solve!Routes
  <2>2. theta' \in [Targets -> BOOLEAN] /\ svdInfo' \in [Targets -> BOOLEAN]
    BY <1>1, <1>s
  <2>3. certificate' \in [Targets -> BOOLEAN]
    BY VerdictsType DEF SolveInv
  <2>4. stable' \in [Targets -> {-1, 0, 1}]
    BY <1>1 DEF SolveInv, SolveTypeOK
  <2> QED
    BY <1>1, <1>c, <2>1, <2>2, <2>3, <2>4 DEF SolveInv, SolveTypeOK, Solve!routes
<1>3. ASSUME NEW t \in Targets PROVE TargetInv(t)'
  <2>1. CASE t \in Solve!SvdTargets
    BY <1>1, <1>3, <1>c, <2>1 DEF SolveInv, SolveTypeOK, TargetInv, Factored, Waiting,
       Solve!SvdTargets, Solve!target_uses_svd, StableWritten, QrDone, Solve!routes
  <2>2. CASE t \notin Solve!SvdTargets
    BY <1>1, <1>s, <1>3, <2>2, ExposedKept DEF SolveInv, SolveTypeOK, TargetInv, Factored, Waiting,
       Solve!SvdTargets, Solve!target_uses_svd, StableWritten, QrDone, Solve!routes,
       CholeskyWritten
  <2> QED
    BY <2>1, <2>2
<1>4. (Solve!SuccessIsReal /\ Solve!FailureIsOwn)'
  BY DEF Solve!SuccessIsReal, Solve!FailureIsOwn
<1> QED
  BY <1>2, <1>3, <1>4 DEF SolveInv

LEMMA CheckpointKeeps == SolveInv /\ Solve!Checkpoint => SolveInv'
<1> SUFFICES ASSUME SolveInv, Solve!Checkpoint PROVE SolveInv'
  OBVIOUS
<1> USE DEF Solve!Checkpoint, Solve!SvdStatuses, Solve!SvdExecuted, Solve!device
<1>2. SolveTypeOK'
  <2>1. status' \in [Targets -> Statuses]
    BY DEF SolveInv, SolveTypeOK, Statuses
  <2>2. executed' \in [Targets -> Solve!Routes \cup {"UNSET"}]
    BY DEF SolveInv, SolveTypeOK, Solve!Routes
  <2> QED
    BY <2>1, <2>2 DEF SolveInv, SolveTypeOK
<1>3. ASSUME NEW t \in Targets PROVE TargetInv(t)'
  BY <1>3, ExposedKept DEF SolveInv, SolveTypeOK, TargetInv, Factored, Waiting,
     Solve!SvdTargets, Solve!target_uses_svd, StableWritten, QrDone,
     CholeskyWritten, SvdSettled
<1>4. (Solve!SuccessIsReal /\ Solve!FailureIsOwn)'
  BY DEF Solve!SuccessIsReal, Solve!FailureIsOwn
<1> QED
  BY <1>2, <1>3, <1>4 DEF SolveInv

LEMMA FinishBatchKeeps == SolveInv /\ Solve!FinishBatch => SolveInv'
<1> SUFFICES ASSUME SolveInv, Solve!FinishBatch PROVE SolveInv'
  OBVIOUS
<1> USE DEF Solve!FinishBatch
<1>1. /\ status' \in [Targets -> Statuses]
      /\ \A t \in Targets :
            IF t \in Solve!Safe /\ info[t]
            THEN status'[t] \in {"OK_CHOLESKY_BATCHED", "OK_CHOLESKY_SINGLE"}
            ELSE status'[t] = status[t]
  BY DEF SolveInv, SolveTypeOK, Statuses
<1>2. SolveTypeOK'
  <2>1. executed' \in [Targets -> Solve!Routes \cup {"UNSET"}]
    BY DEF SolveInv, SolveTypeOK, Solve!Routes
  <2>2. finite' \in [Targets -> {0, 1}]
    BY DEF SolveInv, SolveTypeOK, Solve!Merged
  <2> QED
    BY <1>1, <2>1, <2>2 DEF SolveInv, SolveTypeOK
<1>3. ASSUME NEW t \in Targets PROVE TargetInv(t)'
  BY <1>1, <1>3, ExposedKept DEF SolveInv, SolveTypeOK, TargetInv, Factored, Waiting,
     Solve!Safe, Solve!target_uses_svd, StableWritten, QrDone,
     CholeskyWritten, SvdSettled, CholeskyStatus, Solve!Merged
<1>4. (Solve!SuccessIsReal /\ Solve!FailureIsOwn)'
  BY DEF Solve!SuccessIsReal, Solve!FailureIsOwn
<1> QED
  BY <1>2, <1>3, <1>4 DEF SolveInv

(* What the batch knows of a target when its token resolves: the status s  *)
(* and the route e are those of the route that wrote the slot.             *)
CholeskyTarget(t, s, e) ==
    /\ s \in {"OK_CHOLESKY_BATCHED", "OK_CHOLESKY_SINGLE"} /\ e = "CHOLESKY"
    /\ output[t].route = "CHOLESKY"
    /\ finite[t] = 0 => output[t].finite
    /\ ~Solve!Exposed(t) /\ output[t].finite => finite[t] = 0

QrTarget(t, s, e) ==
    /\ s \in {"OK_QR", "ERR_QR_FAILED"} /\ e = "QR"
    /\ output[t].route = "QR"
    /\ finite[t] = 0 <=> output[t].finite

SvdTarget(t, s, e) ==
    /\ s = (IF svdInfo[t] THEN "OK_SVD" ELSE "ERR_SVD_FAILED") /\ e = "SVD"
    /\ output[t].route = "SVD"
    /\ finite[t] = 0 <=> output[t].finite

Settled(t, s, e) == CholeskyTarget(t, s, e) \/ QrTarget(t, s, e) \/ SvdTarget(t, s, e)

Now(t) == IF svdPending > 0 THEN Solve!SvdStatuses[t] ELSE status[t]
NowExecuted(t) == IF svdPending > 0 THEN Solve!SvdExecuted[t] ELSE executed[t]

(* In a leased slot every target has been settled by exactly the route     *)
(* that wrote it last.                                                     *)
LEMMA LeasedIsSettled ==
    ASSUME SolveInv, pc = "leased", NEW t \in Targets
    PROVE  Settled(t, Now(t), NowExecuted(t))
<1> DEFINE s == Now(t)
           e == NowExecuted(t)
<1>1. /\ TargetInv(t) /\ svdPending \in Nat
      /\ plan[t] \in Solve!Routes
      /\ finite[t] = Solve!Merged(t)
  BY DEF SolveInv, SolveTypeOK, TargetInv
<1>2. CASE Solve!target_uses_svd(t)
  <2>1. StableWritten(t, "SVD")
    BY <1>1, <1>2 DEF TargetInv
  <2>2. finite[t] = 0 <=> output[t].finite
    BY <1>1, <2>1 DEF StableWritten, Solve!Merged
  <2>3. s = (IF svdInfo[t] THEN "OK_SVD" ELSE "ERR_SVD_FAILED") /\ e = "SVD"
    BY <1>1, <1>2 DEF TargetInv, SvdSettled, Now, NowExecuted, Solve!SvdStatuses,
       Solve!SvdExecuted, Solve!SvdTargets
  <2> QED
    BY <2>1, <2>2, <2>3 DEF Settled, SvdTarget, StableWritten
<1>3. CASE ~Solve!target_uses_svd(t)
  <2>1. s = status[t] /\ e = executed[t]
    BY <1>3 DEF Now, NowExecuted, Solve!SvdStatuses, Solve!SvdExecuted, Solve!SvdTargets
  <2>2. CASE plan[t] = "CHOLESKY"
    <3>1. info[t]
      BY <1>1, <1>3, <2>2 DEF TargetInv, Factored, Solve!target_uses_svd
    <3>2. CholeskyWritten(t) /\ CholeskyStatus(t)
      BY <1>1, <2>2, <3>1 DEF TargetInv
    <3>3. finite[t] = IF theta[t] /\ output[t].finite THEN 0 ELSE 1
      BY <1>1, <2>2, <3>2 DEF CholeskyWritten, Solve!Merged, Solve!Safe
    <3> QED
      BY <2>1, <3>2, <3>3 DEF CholeskyWritten, CholeskyStatus, Settled, CholeskyTarget
  <2>3. CASE plan[t] = "QR"
    <3>1. /\ executed[t] = "QR" /\ status[t] \in {"OK_QR", "ERR_QR_FAILED"}
          /\ StableWritten(t, "QR")
      BY <1>1, <1>3, <2>3 DEF TargetInv, QrDone, Solve!target_uses_svd
    <3> QED
      BY <1>1, <2>1, <3>1 DEF StableWritten, Solve!Merged, Settled, QrTarget
  <2> QED
    BY <1>1, <1>3, <2>2, <2>3 DEF Solve!target_uses_svd, Solve!Routes
<1> QED
  BY <1>2, <1>3

LEMMA SolveResolveKeeps == SolveInv /\ Solve!resolve_fixed_sp_output_status => SolveInv'
<1> SUFFICES ASSUME SolveInv, Solve!resolve_fixed_sp_output_status PROVE SolveInv'
  OBVIOUS
<1>1. /\ pc = "leased" /\ pc' = "resolved" /\ svdPending' = 0
      /\ UNCHANGED <<certified, failClosed, plan, deferred, reason, output, theta, info, stable,
                     finite, svdInfo, certificate>>
  BY DEF Solve!resolve_fixed_sp_output_status, Solve!device
<1>2. /\ status' = [t \in Targets |-> Solve!FiniteStatus(t, Solve!Certify(t, Now(t)))]
      /\ executed' = [t \in Targets |-> NowExecuted(t)]
  BY DEF Solve!resolve_fixed_sp_output_status, Now, NowExecuted, SolveInv, SolveTypeOK,
     Solve!SvdExecuted
<1>3. ASSUME NEW t \in Targets
      PROVE  /\ status'[t] \in Statuses /\ executed'[t] \in Solve!Routes
             /\ Solve!Successful(status'[t]) =>
                   /\ output[t] = [route |-> executed'[t], finite |-> TRUE]
                   /\ Solve!Kind(status'[t]) = executed'[t]
                   /\ failClosed => certificate[t]
             /\ \/ Solve!Exposed(t)
                \/ Solve!Successful(status'[t])
                \/ ~output[t].finite
                \/ executed'[t] = "SVD" /\ ~svdInfo[t]
                \/ executed'[t] = "QR" /\ status'[t] = "ERR_QR_FAILED"
                \/ failClosed /\ ~certificate[t]
  <2> DEFINE s == Now(t)
             e == NowExecuted(t)
  <2>1. status'[t] = Solve!FiniteStatus(t, Solve!Certify(t, s)) /\ executed'[t] = e
    BY <1>2, <1>3
  <2>2. Settled(t, s, e)
    BY <1>1, <1>3, LeasedIsSettled
  <2>3. output[t] \in [route : Solve!Routes \cup {"none"}, finite : BOOLEAN]
    BY <1>3 DEF SolveInv, SolveTypeOK
  <2>4. output[t] = [route |-> output[t].route, finite |-> output[t].finite]
        /\ output[t].finite \in BOOLEAN
    BY <2>3
  <2> HIDE DEF s, e
  <2>5. CASE CholeskyTarget(t, s, e)
    BY <2>1, <2>4, <2>5 DEF CholeskyTarget, Solve!FiniteStatus, Solve!Certify,
       Solve!Successful, Solve!Kind, Statuses, Solve!Routes
  <2>6. CASE QrTarget(t, s, e)
    BY <2>1, <2>4, <2>6 DEF QrTarget, Solve!FiniteStatus, Solve!Certify,
       Solve!Successful, Solve!Kind, Statuses, Solve!Routes
  <2>7. CASE SvdTarget(t, s, e)
    BY <2>1, <2>4, <2>7 DEF SvdTarget, Solve!FiniteStatus, Solve!Certify,
       Solve!Successful, Solve!Kind, Statuses, Solve!Routes
  <2> QED
    BY <2>2, <2>5, <2>6, <2>7 DEF Settled
<1>4. SolveTypeOK'
  BY <1>1, <1>2, <1>3 DEF SolveInv, SolveTypeOK
<1>5. ASSUME NEW t \in Targets PROVE TargetInv(t)'
  BY <1>1, <1>5 DEF SolveInv, TargetInv, Factored
<1>6. Solve!SuccessIsReal' /\ Solve!FailureIsOwn'
  BY <1>1, <1>3, ExposedKept DEF Solve!SuccessIsReal, Solve!FailureIsOwn, Solve!FailsAlone
<1> QED
  BY <1>1, <1>4, <1>5, <1>6 DEF SolveInv

LEMMA ThrownKeeps == SolveInv /\ Solve!Fails => SolveInv'
<1> SUFFICES ASSUME SolveInv, Solve!Fails PROVE SolveInv'
  OBVIOUS
<1>1. pc' = "thrown"
      /\ UNCHANGED <<certified, failClosed, plan, deferred, reason, executed, status, output, theta,
                     info, stable, finite, svdInfo, certificate, svdPending>>
  BY DEF Solve!Fails, Solve!Throw, Solve!routes, Solve!device
<1>2. SolveTypeOK'
  BY <1>1 DEF SolveInv, SolveTypeOK
<1>3. ASSUME NEW t \in Targets PROVE TargetInv(t)'
  BY <1>1, <1>3 DEF SolveInv, TargetInv, Factored
<1>4. (Solve!SuccessIsReal /\ Solve!FailureIsOwn)'
  BY <1>1 DEF Solve!SuccessIsReal, Solve!FailureIsOwn
<1> QED
  BY <1>2, <1>3, <1>4 DEF SolveInv

LEMMA SolveStutters == SolveInv /\ UNCHANGED Solve!vars => SolveInv'
<1> SUFFICES ASSUME SolveInv, UNCHANGED Solve!vars PROVE SolveInv'
  OBVIOUS
<1>1. UNCHANGED <<certified, failClosed, plan, deferred, reason, executed, status, output, theta,
                  info, stable, finite, svdInfo, certificate, svdPending, pc>>
  BY DEF Solve!vars, Solve!routes, Solve!device
<1>2. SolveTypeOK'
  BY <1>1 DEF SolveInv, SolveTypeOK
<1>3. ASSUME NEW t \in Targets PROVE TargetInv(t)'
  BY <1>1, <1>3, ExposedKept DEF SolveInv, TargetInv, Factored, Waiting, CholeskyWritten, QrDone,
     StableWritten, SvdSettled, CholeskyStatus, Solve!Merged, Solve!target_uses_svd, Solve!Safe
<1>4. Solve!SuccessIsReal'
  BY <1>1 DEF SolveInv, Solve!SuccessIsReal
<1>5. Solve!FailureIsOwn'
  BY <1>1, ExposedKept DEF SolveInv, Solve!FailureIsOwn, Solve!FailsAlone
<1> QED
  BY <1>1, <1>2, <1>3, <1>4, <1>5 DEF SolveInv

(* The invariant holds of every batch, whatever the device finds.          *)
THEOREM SolveInvariant ==
    ASSUME IsFiniteSet(Targets)
    PROVE  Solve!Spec => []SolveInv
<1>1. SolveInv /\ [Solve!Next]_Solve!vars => SolveInv'
  BY FactorKeeps, CholeskySolveKeeps, QrLoopKeeps, SvdLoopKeeps, CheckpointKeeps,
     FinishBatchKeeps, SolveResolveKeeps, ThrownKeeps, SolveStutters
     DEF Solve!Next, Solve!Done
<1> QED
  BY <1>1, SolveInit, PTL DEF Solve!Spec

(* What a resolved batch reports as a success really is one: finite        *)
(* numbers written by the route the target is said to have executed, and   *)
(* certified ones when the batch fails closed, whatever was rerouted and   *)
(* whichever way the batch was resolved.                                   *)
THEOREM SolveSuccessIsReal ==
    ASSUME IsFiniteSet(Targets)
    PROVE  Solve!Spec => []SuccessIsReal
<1>1. SolveInv => SuccessIsReal
  BY DEF SolveInv, SuccessIsReal
<1> QED
  BY <1>1, SolveInvariant, PTL

(* However many targets the batch has, a failure stays with its target:    *)
(* only the first Cholesky target of a certified batch with a stable route *)
(* can be failed by another.                                               *)
THEOREM SolveFailureIsOwn ==
    ASSUME IsFiniteSet(Targets)
    PROVE  Solve!Spec => []FailureIsOwn
<1>1. SolveInv => FailureIsOwn
  BY DEF SolveInv, FailureIsOwn
<1> QED
  BY <1>1, SolveInvariant, PTL

-----------------------------------------------------------------------------
(* What the runtime allocates (FixedSpResources), for any number of calls  *)
(* and failures and any capacity of the root cache.                        *)

(* A pointer is known by its owner, its place there and what it leads to.  *)
Ptr(owner, x, id) == <<owner, x, id>>
Ptrs(owner, f) == {Ptr(owner, x, f[x]) : x \in {y \in DOMAIN f : f[y] # 0}}
IdOf(t) == t[3]
Ids(S) == {IdOf(t) : t \in S}
AllNull(f) == \A x \in DOMAIN f : f[x] = 0

LiveIn(h) == h.alive \ h.unknown
Heaps == [next : Nat, alive : SUBSET Nat, unknown : SUBSET Nat, active : Int,
          indeterminate : Int]

(* The pointers in O lead to the live resources of h, one to each.         *)
Sound(O, h) ==
    /\ h \in Heaps /\ h.next # 0
    /\ \A x \in h.alive \cup h.unknown : x # 0 /\ x < h.next
    /\ \A o, p \in O : IdOf(o) = IdOf(p) => o = p
    /\ Ids(O) = LiveIn(h)
    /\ IsFiniteSet(h.alive)
    /\ h.active = Cardinality(LiveIn(h))

LEMMA ResCardinality ==
    ASSUME NEW S PROVE Resources!Cardinality(S) = Cardinality(S)
BY Zenon DEF Resources!Cardinality, Cardinality

(* What the tracked calls change of the ledger.                            *)
LEMMA HeapCalls ==
    ASSUME NEW h \in Heaps, NEW n \in Nat, NEW a \in SUBSET Nat, NEW u \in SUBSET Nat,
           NEW c \in Int, NEW i \in Int
    PROVE  /\ [h EXCEPT !.next = n, !.alive = a, !.active = c] \in Heaps
           /\ [h EXCEPT !.alive = a, !.active = c] \in Heaps
           /\ [h EXCEPT !.unknown = u, !.active = c, !.indeterminate = i] \in Heaps
BY DEF Heaps

(* A new resource and the pointer to it.                                   *)
LEMMA SoundAlloc ==
    ASSUME NEW O, NEW h, Sound(O, h), NEW o, IdOf(o) = h.next
    PROVE  Sound(O \cup {o}, Resources!tracked_cuda_malloc(h))
<1> DEFINE g == Resources!tracked_cuda_malloc(h)
<1>1. /\ h \in Heaps /\ h.next \in Nat \ {0} /\ h.active \in Int /\ h.indeterminate \in Int
      /\ h.alive \subseteq Nat /\ h.unknown \subseteq Nat
  BY DEF Sound, Heaps
<1>2. /\ g.next = h.next + 1 /\ g.alive = h.alive \cup {h.next}
      /\ g.unknown = h.unknown /\ g.active = h.active + 1
      /\ g.indeterminate = h.indeterminate
  BY <1>1 DEF Resources!tracked_cuda_malloc, Heaps
<1>3. g \in Heaps /\ g.next # 0
  <2>1. /\ h.next + 1 \in Nat \ {0} /\ h.alive \cup {h.next} \in SUBSET Nat
        /\ h.active + 1 \in Int
    BY <1>1
  <2> QED
    BY <1>1, <1>2, <2>1, HeapCalls DEF Resources!tracked_cuda_malloc
<1> HIDE DEF g
<1>4. h.next \notin h.alive /\ h.next \notin h.unknown
  BY <1>1 DEF Sound
<1>5. LiveIn(g) = LiveIn(h) \cup {h.next} /\ h.next \notin LiveIn(h)
  BY <1>2, <1>4 DEF LiveIn
<1>6. \A x \in g.alive \cup g.unknown : x # 0 /\ x < g.next
  BY <1>1, <1>2 DEF Sound
<1>7. \A p \in O : IdOf(p) # IdOf(o)
  BY <1>5 DEF Sound, Ids
<1>8. \A p, q \in O \cup {o} : IdOf(p) = IdOf(q) => p = q
  BY <1>7 DEF Sound
<1>9. Ids(O \cup {o}) = LiveIn(g)
  BY <1>5 DEF Sound, Ids
<1>10. IsFiniteSet(g.alive) /\ IsFiniteSet(LiveIn(h))
  BY <1>2, FS_AddElement, FS_Subset DEF Sound, LiveIn
<1>11. g.active = Cardinality(LiveIn(g))
  BY <1>2, <1>5, <1>10, FS_AddElement DEF Sound
<1> QED
  BY <1>3, <1>6, <1>8, <1>9, <1>10, <1>11 DEF Sound, g

(* Resources are freed and their pointers dropped.                         *)
LEMMA SoundFree ==
    ASSUME NEW O, NEW h, Sound(O, h), NEW X, X \subseteq O, NEW ids, ids \ {0} = Ids(X)
    PROVE  Sound(O \ X, Resources!CalledSuccess(h, ids))
<1> DEFINE g == Resources!CalledSuccess(h, ids)
           n == Cardinality(ids \ {0})
<1>1. /\ h \in Heaps /\ h.next \in Nat \ {0} /\ h.active \in Int /\ h.indeterminate \in Int
      /\ h.alive \subseteq Nat /\ h.unknown \subseteq Nat
  BY DEF Sound, Heaps
<1>2. /\ g.next = h.next /\ g.alive = h.alive \ ids
      /\ g.unknown = h.unknown /\ g.active = h.active - n
      /\ g.indeterminate = h.indeterminate
  BY <1>1, ResCardinality DEF Resources!CalledSuccess, Heaps
<1>3. IsFiniteSet(LiveIn(h)) /\ Ids(X) \subseteq LiveIn(h) /\ 0 \notin LiveIn(h)
  BY FS_Subset DEF Sound, LiveIn, Ids
<1>4. LiveIn(g) = LiveIn(h) \ Ids(X)
  BY <1>2, <1>3 DEF LiveIn
<1>5. IsFiniteSet(Ids(X)) /\ LiveIn(h) \cap Ids(X) = Ids(X)
  BY <1>3, FS_Subset
<1>6. n \in Nat /\ Cardinality(LiveIn(h)) \in Nat
      /\ Cardinality(LiveIn(g)) = Cardinality(LiveIn(h)) - n
  <2>1. n \in Nat /\ Cardinality(LiveIn(h)) \in Nat
    BY <1>3, <1>5, FS_CardinalityType
  <2>2. Cardinality(LiveIn(h) \ Ids(X)) = Cardinality(LiveIn(h)) - Cardinality(LiveIn(h) \cap Ids(X))
    BY <1>3, FS_Difference
  <2> QED
    BY <1>4, <1>5, <2>1, <2>2
<1>7. g \in Heaps /\ g.next # 0
  <2>1. h.alive \ ids \in SUBSET Nat /\ h.active - n \in Int
    BY <1>1, <1>6
  <2>2. g = [h EXCEPT !.alive = h.alive \ ids, !.active = h.active - n]
    BY <1>1, ResCardinality DEF Resources!CalledSuccess
  <2> HIDE DEF g, n
  <2>3. [h EXCEPT !.alive = h.alive \ ids, !.active = h.active - n] \in Heaps
    BY <1>1, <2>1, HeapCalls
  <2> QED
    BY <1>1, <1>2, <2>2, <2>3
<1> HIDE DEF g, n
<1>8. \A x \in g.alive \cup g.unknown : x # 0 /\ x < g.next
  BY <1>2 DEF Sound
<1>9. \A p, q \in O \ X : IdOf(p) = IdOf(q) => p = q
  BY DEF Sound
<1>10. Ids(O \ X) = LiveIn(g)
  <2>1. \A t \in O \ X : IdOf(t) \in LiveIn(h) /\ IdOf(t) \notin Ids(X)
    BY DEF Sound, Ids
  <2>2. \A v \in LiveIn(h) \ Ids(X) : \E t \in O \ X : v = IdOf(t)
    BY DEF Sound, Ids
  <2> QED
    BY <1>4, <2>1, <2>2 DEF Ids
<1>11. IsFiniteSet(g.alive)
  BY <1>2, FS_Subset DEF Sound
<1> QED
  BY <1>2, <1>6, <1>7, <1>8, <1>9, <1>10, <1>11 DEF Sound, g

(* A resource whose teardown failed: its pointer is dropped, and nobody    *)
(* knows whether it is gone.                                               *)
LEMMA SoundLose ==
    ASSUME NEW O, NEW h, Sound(O, h), NEW o \in O
    PROVE  Sound(O \ {o}, Resources!CalledOwnershipIndeterminate(h, IdOf(o)))
<1> DEFINE v == IdOf(o)
           g == Resources!CalledOwnershipIndeterminate(h, v)
<1>1. /\ h \in Heaps /\ h.next \in Nat \ {0} /\ h.active \in Int /\ h.indeterminate \in Int
      /\ h.alive \subseteq Nat /\ h.unknown \subseteq Nat
  BY DEF Sound, Heaps
<1>2. v \in LiveIn(h) /\ v \in Nat
  BY <1>1 DEF Sound, Ids, LiveIn
<1>3. /\ g.next = h.next /\ g.alive = h.alive
      /\ g.unknown = h.unknown \cup {v} /\ g.active = h.active - 1
      /\ g.indeterminate = h.indeterminate + 1
  BY <1>1 DEF Resources!CalledOwnershipIndeterminate, Heaps
<1>4. IsFiniteSet(LiveIn(h))
  BY FS_Subset DEF Sound, LiveIn
<1>5. LiveIn(g) = LiveIn(h) \ {v}
  BY <1>3 DEF LiveIn
<1>6. Cardinality(LiveIn(g)) = Cardinality(LiveIn(h)) - 1
  BY <1>2, <1>4, <1>5, FS_RemoveElement
<1>7. Ids(O \ {o}) = LiveIn(h) \ {v}
  <2>1. \A t \in O \ {o} : IdOf(t) \in LiveIn(h) /\ IdOf(t) # v
    BY DEF Sound, Ids
  <2>2. \A w \in LiveIn(h) \ {v} : \E t \in O \ {o} : w = IdOf(t)
    BY DEF Sound, Ids
  <2> QED
    BY <2>1, <2>2 DEF Ids
<1>8. g \in Heaps /\ g.next # 0
  <2>1. h.unknown \cup {v} \in SUBSET Nat /\ h.active - 1 \in Int /\ h.indeterminate + 1 \in Int
    BY <1>1, <1>2
  <2>2. g = [h EXCEPT !.unknown = h.unknown \cup {v}, !.active = h.active - 1,
                      !.indeterminate = h.indeterminate + 1]
    BY <1>1 DEF Resources!CalledOwnershipIndeterminate
  <2> HIDE DEF g, v
  <2>3. [h EXCEPT !.unknown = h.unknown \cup {v}, !.active = h.active - 1,
                  !.indeterminate = h.indeterminate + 1] \in Heaps
    BY <1>1, <2>1, HeapCalls
  <2> QED
    BY <1>1, <1>3, <2>2, <2>3
<1> HIDE DEF g, v
<1>9. \A x \in g.alive \cup g.unknown : x # 0 /\ x < g.next
  BY <1>2, <1>3 DEF Sound, LiveIn
<1>10. \A p, q \in O \ {o} : IdOf(p) = IdOf(q) => p = q
  BY DEF Sound
<1> QED
  BY <1>3, <1>5, <1>6, <1>7, <1>8, <1>9, <1>10 DEF Sound, g, v

(* Resources change hands: what N led to, M leads to.                      *)
LEMMA SoundMove ==
    ASSUME NEW B, NEW N, NEW M, NEW h, Sound(B \cup N, h), B \cap N = {},
           Ids(M) = Ids(N), \A p, q \in M : IdOf(p) = IdOf(q) => p = q
    PROVE  Sound(B \cup M, h)
<1>1. Ids(B \cup M) = Ids(B \cup N)
  BY DEF Ids
<1>2. \A b \in B : IdOf(b) \notin Ids(M)
  BY DEF Sound, Ids
<1>3. \A p, q \in B \cup M : IdOf(p) = IdOf(q) => p = q
  BY <1>2 DEF Sound, Ids
<1> QED
  BY <1>1, <1>3 DEF Sound

-----------------------------------------------------------------------------
(* The pointers of the runtime.                                            *)

EntryIds(f) == [x \in DOMAIN f |-> f[x].id]

OwnedBy(a, s, p, c, q) ==
    Ptrs("arena", a) \cup Ptrs("staged", s) \cup Ptrs("part", p)
    \cup Ptrs("cache", EntryIds(c)) \cup Ptrs("pending", EntryIds(q))

Owned == OwnedBy(resourcesArena, staged, part, cache, pending)

LEMMA PtrIs ==
    ASSUME NEW o, NEW x, NEW v, NEW q, NEW y, NEW w
    PROVE  /\ IdOf(Ptr(o, x, v)) = v
           /\ Ptr(o, x, v) = Ptr(q, y, w) => o = q /\ x = y /\ v = w
BY DEF Ptr, IdOf

LEMMA PtrsApart ==
    ASSUME NEW o, NEW f, NEW q, NEW g, o # q
    PROVE  Ptrs(o, f) \cap Ptrs(q, g) = {}
BY PtrIs DEF Ptrs

LEMMA PtrsNone ==
    ASSUME NEW o, NEW f, AllNull(f)
    PROVE  Ptrs(o, f) = {}
BY DEF Ptrs, AllNull

LEMMA PtrsIds ==
    ASSUME NEW o, NEW f
    PROVE  Ids(Ptrs(o, f)) = {f[x] : x \in DOMAIN f} \ {0}
<1>1. \A t \in Ptrs(o, f) : IdOf(t) \in {f[x] : x \in DOMAIN f} \ {0}
  BY PtrIs DEF Ptrs
<1>2. ASSUME NEW x \in DOMAIN f, f[x] # 0 PROVE f[x] \in Ids(Ptrs(o, f))
  <2>1. Ptr(o, x, f[x]) \in Ptrs(o, f) /\ IdOf(Ptr(o, x, f[x])) = f[x]
    BY <1>2, PtrIs DEF Ptrs
  <2> QED
    BY <2>1 DEF Ids
<1> QED
  BY <1>1, <1>2 DEF Ids

LEMMA PtrsIdsOfTwo ==
    ASSUME NEW S, NEW T
    PROVE  Ids(S \cup T) = Ids(S) \cup Ids(T)
BY DEF Ids

(* The functions differ in one pointer, which is null in f.                *)
Added(f, g, x) ==
    /\ x \in DOMAIN f /\ DOMAIN g = DOMAIN f
    /\ f[x] = 0 /\ g[x] # 0
    /\ \A y \in DOMAIN f : y # x => g[y] = f[y]

LEMMA PtrsAdded ==
    ASSUME NEW o, NEW f, NEW g, NEW x, Added(f, g, x)
    PROVE  /\ Ptrs(o, g) = Ptrs(o, f) \cup {Ptr(o, x, g[x])}
           /\ Ptr(o, x, g[x]) \notin Ptrs(o, f)
<1> DEFINE D == DOMAIN f
           v == g[x]
<1>1. x \in D /\ DOMAIN g = D /\ f[x] = 0 /\ v # 0 /\ \A y \in D : y # x => g[y] = f[y]
  BY DEF Added
<1>2. \A t : t \in Ptrs(o, g) <=> \E y \in D : g[y] # 0 /\ t = Ptr(o, y, g[y])
  BY <1>1 DEF Ptrs
<1>3. \A t : t \in Ptrs(o, f) <=> \E y \in D : f[y] # 0 /\ t = Ptr(o, y, f[y])
  BY DEF Ptrs
<1>4. Ptr(o, x, v) \notin Ptrs(o, f)
  BY <1>1, <1>3, PtrIs
<1>5. Ptrs(o, g) = Ptrs(o, f) \cup {Ptr(o, x, v)}
  <2>1. ASSUME NEW t \in Ptrs(o, g) PROVE t \in Ptrs(o, f) \cup {Ptr(o, x, v)}
    BY <1>1, <1>2, <1>3, <2>1
  <2>2. ASSUME NEW t \in Ptrs(o, f) PROVE t \in Ptrs(o, g)
    BY <1>1, <1>2, <1>3, <2>2
  <2>3. Ptr(o, x, v) \in Ptrs(o, g)
    BY <1>1, <1>2
  <2> QED
    BY <2>1, <2>2, <2>3
<1> QED
  BY <1>4, <1>5

(* One pointer is kept where the others are dropped.                       *)
LEMMA PtrsKept ==
    ASSUME NEW o, NEW D, NEW f \in [D -> Nat], NEW x \in D, f[x] # 0
    PROVE  /\ Ptrs(o, [y \in D |-> IF y = x THEN f[y] ELSE 0]) = {Ptr(o, x, f[x])}
           /\ Ptr(o, x, f[x]) \in Ptrs(o, f)
BY DEF Ptrs

(* What a clean-up drops.                                                  *)
LEMMA CleanedIsSound ==
    ASSUME Sound(Owned, heap), NEW X, X \subseteq Owned, NEW ids, ids \ {0} = Ids(X),
           Resources!Cleaned(heap, ids)
    PROVE  Sound(Owned \ X, heap')
<1>1. CASE heap' = Resources!CalledSuccess(heap, ids)
  BY <1>1, SoundFree
<1>2. ASSUME NEW v \in ids \ {0},
             heap' = Resources!CalledOwnershipIndeterminate(Resources!CalledSuccess(heap, ids \ {v}), v)
      PROVE  Sound(Owned \ X, heap')
  <2>1. PICK o \in X : IdOf(o) = v
    BY <1>2 DEF Ids
  <2>2. (ids \ {v}) \ {0} = Ids(X \ {o})
    <3>1. \A p \in X : IdOf(p) = v => p = o
      BY <2>1 DEF Sound
    <3> QED
      BY <2>1, <3>1 DEF Ids
  <2> DEFINE g == Resources!CalledSuccess(heap, ids \ {v})
  <2>3. Sound(Owned \ (X \ {o}), g)
    BY <2>2, SoundFree
  <2> HIDE DEF g
  <2>4. o \in Owned \ (X \ {o})
    BY <2>1
  <2>5. Sound((Owned \ (X \ {o})) \ {o}, Resources!CalledOwnershipIndeterminate(g, v))
    BY <2>1, <2>3, <2>4, SoundLose
  <2>6. (Owned \ (X \ {o})) \ {o} = Owned \ X
    BY <2>1
  <2> QED
    BY <1>2, <2>5, <2>6 DEF g
<1> QED
  BY <1>1, <1>2 DEF Resources!Cleaned

-----------------------------------------------------------------------------

ArenaNames == {"double", "int", "host_status", "pointer"}
PartNames == {"design", "slot", "event"}
Entries == [id : Nat \ {0}, key : Keys, good : BOOLEAN]
Building == resourcesPc \in {"parts", "roots", "emplace"}

ResTypeOK ==
    /\ resourcesPc \in {"idle", "allocate", "replace", "parts", "roots", "emplace"}
    /\ resourcesArena \in [ArenaNames -> Nat] /\ staged \in [ArenaNames -> Nat]
    /\ part \in [PartNames -> Nat]
    /\ cache \in [DOMAIN cache -> Entries] /\ pending \in Seq(Entries)
    /\ setup \in Seq(Keys) /\ roots \in Seq([key : Keys, good : BOOLEAN])
    /\ size \in Nat

(* Where pointers may be: staged arenas during a reserve only, parts and   *)
(* pending roots of a handle that is being built.                          *)
PhaseInv ==
    /\ resourcesPc \in {"allocate", "replace"} \/ AllNull(staged)
    /\ Building => resourcesHandle = "building"
    /\ ~Building =>
          /\ pending = <<>>
          /\ resourcesHandle \in {"usable", "teardown"} \/ AllNull(part)
    /\ resourcesPc \in {"allocate", "replace"} => life = "usable" /\ resourcesHandle # "usable"
    /\ resourcesPc = "replace" => \A a \in ArenaNames : resourcesArena[a] # 0 \/ staged[a] # 0
    /\ size > 0 /\ life = "usable" => \A a \in ArenaNames : resourcesArena[a] # 0

(* A root kept for the cache is as good as the handle's own.               *)
RootInv ==
    /\ Building \/ resourcesHandle = "usable" =>
          /\ Len(roots) <= Len(setup)
          /\ \A i \in DOMAIN roots : roots[i].key = setup[i]
    /\ resourcesPc = "emplace" \/ resourcesHandle = "usable" =>
          Len(roots) = Len(setup) /\ \A i \in DOMAIN roots : roots[i].good
    /\ \A i \in DOMAIN pending : \E j \in DOMAIN roots :
          roots[j].key = pending[i].key /\ (roots[j].good => pending[i].good)
    /\ \A k \in DOMAIN cache : cache[k].key = k /\ cache[k].good

ResInv == ResTypeOK /\ PhaseInv /\ RootInv /\ Sound(Owned, heap)

LEMMA ResInit == Resources!Init => ResInv
<1> SUFFICES ASSUME Resources!Init PROVE ResInv
  OBVIOUS
<1> USE DEF Resources!Init
<1>1. /\ resourcesArena = [a \in ArenaNames |-> 0] /\ staged = [a \in ArenaNames |-> 0]
      /\ part = [p \in PartNames |-> 0]
  BY DEF Resources!Null, Resources!ToSet, Resources!Arenas, Resources!Parts, ArenaNames, PartNames
<1>2. AllNull(resourcesArena) /\ AllNull(staged) /\ AllNull(part)
      /\ AllNull(EntryIds(cache)) /\ AllNull(EntryIds(pending))
  BY <1>1 DEF AllNull, EntryIds
<1>3. Owned = {}
  BY <1>2, PtrsNone DEF Owned, OwnedBy
<1>4. Sound({}, heap)
  <2>1. LiveIn(heap) = {} /\ heap.alive = {} /\ heap.unknown = {} /\ heap.active = 0
        /\ heap.next = 1
    BY DEF LiveIn
  <2>2. heap \in Heaps
    BY DEF Heaps
  <2>3. Ids({}) = {}
    BY DEF Ids
  <2>4. IsFiniteSet({}) /\ Cardinality({}) = 0
    BY FS_EmptySet
  <2>5. \A x \in heap.alive \cup heap.unknown : x # 0 /\ x < heap.next
    BY <2>1
  <2> QED
    <3> HIDE DEF Resources!Init
    <3>1. IsFiniteSet(heap.alive) /\ heap.active = Cardinality(LiveIn(heap)) /\ heap.next # 0
          /\ Ids({}) = LiveIn(heap)
      BY <2>1, <2>3, <2>4
    <3>2. \A o, p \in {} : IdOf(o) = IdOf(p) => o = p
      OBVIOUS
    <3> QED
      BY <2>2, <2>5, <3>1, <3>2 DEF Sound
<1>5. ResTypeOK
  BY <1>1 DEF ResTypeOK
<1>6. PhaseInv /\ RootInv
  BY <1>2 DEF PhaseInv, RootInv, Building
<1> QED
  BY <1>3, <1>4, <1>5, <1>6 DEF ResInv

-----------------------------------------------------------------------------
(* The first arena, or part, that a loop has to deal with.                 *)

(* The first of a sequence's indices that pass a test, or 0.               *)
LEMMA FirstIndex ==
    ASSUME NEW n \in 1..4, NEW I \in SUBSET (1..n)
    PROVE  /\ I # {} => Resources!Min(I) \in I /\ \A i \in I : Resources!Min(I) <= i
<1>1. ASSUME I # {} PROVE \E x \in I : \A y \in I : x <= y
  <2>1. I \subseteq {1, 2, 3, 4}
    OBVIOUS
  <2>2. CASE 1 \in I
    BY <2>1, <2>2
  <2>3. CASE 1 \notin I /\ 2 \in I
    BY <2>1, <2>3
  <2>4. CASE 1 \notin I /\ 2 \notin I /\ 3 \in I
    BY <2>1, <2>4
  <2>5. CASE 1 \notin I /\ 2 \notin I /\ 3 \notin I
    <3>1. I = {4}
      BY <1>1, <2>1, <2>5
    <3> QED
      BY <3>1
  <2> QED
    BY <2>2, <2>3, <2>4, <2>5
<1> QED
  BY <1>1 DEF Resources!Min

LEMMA StagedNext ==
    /\ Resources!NextStaged \in 0..4
    /\ Resources!NextStaged > 0 =>
          /\ Resources!Arenas[Resources!NextStaged] \in ArenaNames
          /\ staged[Resources!Arenas[Resources!NextStaged]] = 0
          /\ \A i \in 1..4 : i < Resources!NextStaged => staged[Resources!Arenas[i]] # 0
    /\ Resources!NextStaged = 0 => \A a \in ArenaNames : staged[a] # 0
<1> DEFINE I == {i \in 1..Len(Resources!Arenas) : staged[Resources!Arenas[i]] = 0}
<1>1. Resources!NextStaged = IF I # {} THEN Resources!Min(I) ELSE 0
  BY DEF Resources!NextStaged, Resources!SelectInSeq
<1>2. Len(Resources!Arenas) = 4 /\ \A i \in 1..4 : Resources!Arenas[i] \in ArenaNames
  BY DEF Resources!Arenas, ArenaNames
<1>3. \A a \in ArenaNames : \E i \in 1..4 : Resources!Arenas[i] = a
  BY DEF Resources!Arenas, ArenaNames
<1>4. I # {} => Resources!Min(I) \in I /\ \A i \in I : Resources!Min(I) <= i
  BY <1>2, FirstIndex
<1> HIDE DEF I
<1>5. I \subseteq 1..4 /\ \A i \in 1..4 : i \in I <=> staged[Resources!Arenas[i]] = 0
  BY <1>2 DEF I
<1> DEFINE k == Resources!NextStaged
<1>6. CASE I = {}
  <2>1. k = 0 /\ \A i \in 1..4 : i \notin I
    BY <1>1, <1>6
  <2> HIDE DEF k
  <2> QED
    BY <1>2, <1>5, <2>1, <1>3 DEF k
<1>7. CASE I # {}
  <2>1. k \in I /\ k \in 1..4 /\ \A i \in I : k <= i
    BY <1>1, <1>4, <1>5, <1>7
  <2> HIDE DEF k
  <2>2. k > 0 /\ k \in 0..4 /\ \A i \in 1..4 : i < k => i \notin I
    BY <2>1
  <2> QED
    BY <1>2, <1>5, <2>1, <2>2 DEF k
<1> QED
  BY <1>6, <1>7

LEMMA ReplacedNext ==
    /\ Resources!NextReplaced \in 0..4
    /\ Resources!NextReplaced > 0 =>
          /\ Resources!Arenas[Resources!NextReplaced] \in ArenaNames
          /\ staged[Resources!Arenas[Resources!NextReplaced]] # 0
    /\ Resources!NextReplaced = 0 => \A a \in ArenaNames : staged[a] = 0
<1> DEFINE I == {i \in 1..Len(Resources!Arenas) : staged[Resources!Arenas[i]] # 0}
<1>1. Resources!NextReplaced = IF I # {} THEN Resources!Min(I) ELSE 0
  BY DEF Resources!NextReplaced, Resources!SelectInSeq
<1>2. Len(Resources!Arenas) = 4 /\ \A i \in 1..4 : Resources!Arenas[i] \in ArenaNames
  BY DEF Resources!Arenas, ArenaNames
<1>3. \A a \in ArenaNames : \E i \in 1..4 : Resources!Arenas[i] = a
  BY DEF Resources!Arenas, ArenaNames
<1>4. I # {} => Resources!Min(I) \in I /\ \A i \in I : Resources!Min(I) <= i
  BY <1>2, FirstIndex
<1> HIDE DEF I
<1>5. I \subseteq 1..4 /\ \A i \in 1..4 : i \in I <=> staged[Resources!Arenas[i]] # 0
  BY <1>2 DEF I
<1> DEFINE k == Resources!NextReplaced
<1>6. CASE I = {}
  <2>1. k = 0 /\ \A i \in 1..4 : i \notin I
    BY <1>1, <1>6
  <2> HIDE DEF k
  <2> QED
    BY <1>2, <1>5, <2>1, <1>3 DEF k
<1>7. CASE I # {}
  <2>1. k \in I /\ k \in 1..4 /\ \A i \in I : k <= i
    BY <1>1, <1>4, <1>5, <1>7
  <2> HIDE DEF k
  <2>2. k > 0 /\ k \in 0..4 /\ \A i \in 1..4 : i < k => i \notin I
    BY <2>1
  <2> QED
    BY <1>2, <1>5, <2>1, <2>2 DEF k
<1> QED
  BY <1>6, <1>7

LEMMA PartNext ==
    /\ Resources!NextPart \in 0..3
    /\ Resources!NextPart > 0 =>
          /\ Resources!Parts[Resources!NextPart] \in PartNames
          /\ part[Resources!Parts[Resources!NextPart]] = 0
<1> DEFINE I == {i \in 1..Len(Resources!Parts) : part[Resources!Parts[i]] = 0}
<1>1. Resources!NextPart = IF I # {} THEN Resources!Min(I) ELSE 0
  BY DEF Resources!NextPart, Resources!SelectInSeq
<1>2. Len(Resources!Parts) = 3 /\ \A i \in 1..3 : Resources!Parts[i] \in PartNames
  BY DEF Resources!Parts, PartNames
<1>3. I # {} => Resources!Min(I) \in I /\ \A i \in I : Resources!Min(I) <= i
  BY <1>2, FirstIndex
<1> HIDE DEF I
<1>4. I \subseteq 1..3 /\ \A i \in 1..3 : i \in I <=> part[Resources!Parts[i]] = 0
  BY <1>2 DEF I
<1> DEFINE k == Resources!NextPart
<1>6. CASE I = {}
  <2>1. k = 0 /\ \A i \in 1..3 : i \notin I
    BY <1>1, <1>6
  <2> HIDE DEF k
  <2> QED
    BY <1>2, <1>4, <2>1 DEF k
<1>7. CASE I # {}
  <2>1. k \in I /\ k \in 1..3 /\ \A i \in I : k <= i
    BY <1>1, <1>3, <1>4, <1>7
  <2> HIDE DEF k
  <2>2. k > 0 /\ k \in 0..4 /\ \A i \in 1..3 : i < k => i \notin I
    BY <2>1
  <2> QED
    BY <1>2, <1>4, <2>1, <2>2 DEF k
<1> QED
  BY <1>6, <1>7

LEMMA NullNames ==
    /\ Resources!Null(Resources!Arenas) = [a \in ArenaNames |-> 0]
    /\ Resources!Null(Resources!Parts) = [p \in PartNames |-> 0]
BY DEF Resources!Null, Resources!ToSet, Resources!Arenas, Resources!Parts, ArenaNames, PartNames

(* The five kinds of pointers.                                             *)
LEMMA KindsApart ==
    ASSUME NEW a, NEW s, NEW p, NEW c, NEW q
    PROVE  /\ Ptrs("arena", a) \cap Ptrs("staged", s) = {}
           /\ Ptrs("arena", a) \cap Ptrs("part", p) = {}
           /\ Ptrs("arena", a) \cap Ptrs("cache", c) = {}
           /\ Ptrs("arena", a) \cap Ptrs("pending", q) = {}
           /\ Ptrs("staged", s) \cap Ptrs("part", p) = {}
           /\ Ptrs("staged", s) \cap Ptrs("cache", c) = {}
           /\ Ptrs("staged", s) \cap Ptrs("pending", q) = {}
           /\ Ptrs("part", p) \cap Ptrs("cache", c) = {}
           /\ Ptrs("part", p) \cap Ptrs("pending", q) = {}
           /\ Ptrs("cache", c) \cap Ptrs("pending", q) = {}
<1>1. /\ "arena" # "staged" /\ "arena" # "part" /\ "arena" # "cache" /\ "arena" # "pending"
      /\ "staged" # "part" /\ "staged" # "cache" /\ "staged" # "pending"
      /\ "part" # "cache" /\ "part" # "pending" /\ "cache" # "pending"
  OBVIOUS
<1> QED
  BY <1>1, PtrsApart

-----------------------------------------------------------------------------
(* The steps of a reserve.                                                 *)

LEMMA ReserveArenasKeeps == ResInv /\ Resources!reserve => ResInv'
<1> SUFFICES ASSUME ResInv, Resources!reserve PROVE ResInv'
  OBVIOUS
<1>1. /\ resourcesPc = "idle" /\ life = "usable" /\ resourcesHandle # "usable" /\ resourcesPc' = "allocate"
      /\ staged' = [a \in ArenaNames |-> 0]
      /\ UNCHANGED <<life, size, resourcesArena, part, resourcesHandle, setup, pending, roots, cache, heap>>
  BY NullNames DEF Resources!reserve, Resources!ctx, Resources!own
<1>2. AllNull(staged) /\ AllNull(staged')
  BY <1>1 DEF ResInv, PhaseInv, AllNull
<1>3. Owned' = Owned
  BY <1>1, <1>2, PtrsNone DEF Owned, OwnedBy
<1>4. Sound(Owned, heap)'
  BY <1>1, <1>3 DEF ResInv
<1>5. ResTypeOK'
  BY <1>1 DEF ResInv, ResTypeOK
<1>6. PhaseInv' /\ RootInv'
  BY <1>1 DEF ResInv, PhaseInv, RootInv, Building
<1> QED
  BY <1>4, <1>5, <1>6 DEF ResInv

LEMMA AllocateArenaKeeps == ResInv /\ Resources!AllocateArena => ResInv'
<1> SUFFICES ASSUME ResInv, Resources!AllocateArena PROVE ResInv'
  OBVIOUS
<1> DEFINE i == Resources!NextStaged
           a == Resources!Arenas[i]
<1>1. /\ resourcesPc = "allocate" /\ i > 0
      /\ UNCHANGED <<life, size, resourcesArena, part, resourcesHandle, setup, pending, roots, cache>>
  BY DEF Resources!AllocateArena, Resources!ctx, Resources!own
<1>2. /\ i \in 1..4 /\ a \in ArenaNames /\ staged[a] = 0
      /\ \A j \in 1..4 : j < i => staged[Resources!Arenas[j]] # 0
  BY <1>1, StagedNext
<1>3. /\ staged \in [ArenaNames -> Nat] /\ Sound(Owned, heap)
      /\ heap.next \in Nat /\ heap.next # 0
  BY DEF ResInv, ResTypeOK, Sound, Heaps
<1>4. CASE /\ staged' = [staged EXCEPT ![a] = heap.next]
           /\ heap' = Resources!tracked_cuda_malloc(heap)
           /\ resourcesPc' = IF i = Len(Resources!Arenas) THEN "replace" ELSE "allocate"
  <2> DEFINE o == Ptr("staged", a, heap.next)
             n == heap.next
  <2>1. Ptrs("staged", staged') = Ptrs("staged", staged) \cup {o}
    <3>1. Added(staged, staged', a) /\ staged'[a] = n
      BY <1>2, <1>3, <1>4 DEF Added
    <3> QED
      BY <3>1, PtrsAdded
  <2>2. Owned' = Owned \cup {o}
    BY <1>1, <2>1 DEF Owned, OwnedBy
  <2>3. Sound(Owned', heap')
    BY <1>3, <1>4, <2>2, SoundAlloc, PtrIs
  <2>4. staged' \in [ArenaNames -> Nat]
    BY <1>2, <1>3, <1>4
  <2>5. Len(Resources!Arenas) = 4 /\ \A x \in ArenaNames : \E j \in 1..4 : Resources!Arenas[j] = x
    BY DEF Resources!Arenas, ArenaNames
  <2>6. resourcesPc' \in {"replace", "allocate"}
    BY <1>4
  <2>7. resourcesPc' = "replace" => \A x \in ArenaNames : staged'[x] # 0
    <3> SUFFICES ASSUME resourcesPc' = "replace", NEW x \in ArenaNames PROVE staged'[x] # 0
      OBVIOUS
    <3>1. i = 4
      BY <1>4, <2>5
    <3>2. PICK j \in 1..4 : Resources!Arenas[j] = x
      BY <2>5
    <3>3. CASE j = 4
      BY <1>2, <1>3, <1>4, <3>1, <3>2, <3>3
    <3>4. CASE j # 4
      <4>1. staged[x] # 0 /\ x # a
        BY <1>2, <3>1, <3>2, <3>4
      <4> QED
        BY <1>3, <1>4, <4>1
    <3> QED
      BY <3>3, <3>4
  <2> HIDE DEF i, a
  <2>8. ResTypeOK'
    BY <1>1, <2>4, <2>6 DEF ResInv, ResTypeOK
  <2>9. PhaseInv' /\ RootInv'
    BY <1>1, <2>6, <2>7 DEF ResInv, PhaseInv, RootInv, Building
  <2> QED
    BY <2>3, <2>8, <2>9 DEF ResInv
<1>5. CASE /\ staged' = Resources!Null(Resources!Arenas)
           /\ heap' = Resources!CalledSuccess(heap, Resources!Range(staged))
           /\ resourcesPc' = "idle"
  <2>1. staged' = [x \in ArenaNames |-> 0] /\ AllNull(staged')
    BY <1>5, NullNames DEF AllNull
  <2>2. Owned' = Owned \ Ptrs("staged", staged)
    BY <1>1, <2>1, PtrsNone, KindsApart DEF Owned, OwnedBy
  <2>3. Resources!Range(staged) \ {0} = Ids(Ptrs("staged", staged))
    BY PtrsIds DEF Resources!Range
  <2>4. Ptrs("staged", staged) \subseteq Owned
    BY DEF Owned, OwnedBy
  <2>5. Sound(Owned', heap')
    BY <1>3, <1>5, <2>2, <2>3, <2>4, SoundFree
  <2>6. ResTypeOK'
    BY <1>1, <1>5, <2>1 DEF ResInv, ResTypeOK
  <2>7. PhaseInv' /\ RootInv'
    BY <1>1, <1>5, <2>1 DEF ResInv, PhaseInv, RootInv, Building
  <2> QED
    BY <2>5, <2>6, <2>7 DEF ResInv
<1> QED
  BY <1>4, <1>5 DEF Resources!AllocateArena

(* One place of an owner changes.                                          *)
At(o, f, x) == IF f[x] # 0 THEN {Ptr(o, x, f[x])} ELSE {}
Changed(f, g, x) ==
    /\ x \in DOMAIN f /\ DOMAIN g = DOMAIN f
    /\ \A y \in DOMAIN f : y # x => g[y] = f[y]

LEMMA PtrsChanged ==
    ASSUME NEW o, NEW f, NEW g, NEW x, Changed(f, g, x)
    PROVE  /\ Ptrs(o, g) = (Ptrs(o, f) \ At(o, f, x)) \cup At(o, g, x)
           /\ At(o, f, x) \subseteq Ptrs(o, f)
           /\ (Ptrs(o, f) \ At(o, f, x)) \cap At(o, g, x) = {}
<1> DEFINE D == DOMAIN f
<1>1. x \in D /\ DOMAIN g = D /\ \A y \in D : y # x => g[y] = f[y]
  BY DEF Changed
<1>2. \A t : t \in Ptrs(o, g) <=> \E y \in D : g[y] # 0 /\ t = Ptr(o, y, g[y])
  BY <1>1 DEF Ptrs
<1>3. \A t : t \in Ptrs(o, f) <=> \E y \in D : f[y] # 0 /\ t = Ptr(o, y, f[y])
  BY DEF Ptrs
<1>4. \A t : t \in At(o, f, x) <=> f[x] # 0 /\ t = Ptr(o, x, f[x])
  BY DEF At
<1>5. \A t : t \in At(o, g, x) <=> g[x] # 0 /\ t = Ptr(o, x, g[x])
  BY DEF At
<1> HIDE DEF D
<1>6. ASSUME NEW t, t \in Ptrs(o, g), t \notin At(o, g, x)
      PROVE  t \in Ptrs(o, f) /\ t \notin At(o, f, x)
  <2>1. PICK y \in D : g[y] # 0 /\ t = Ptr(o, y, g[y])
    BY <1>2, <1>6
  <2>2. y # x
    BY <1>5, <1>6, <2>1
  <2>3. f[y] = g[y]
    BY <1>1, <2>2
  <2>4. t # Ptr(o, x, f[x])
    BY <2>1, <2>2, PtrIs
  <2> QED
    BY <1>3, <1>4, <2>1, <2>3, <2>4
<1>7. ASSUME NEW t, t \in Ptrs(o, f), t \notin At(o, f, x)
      PROVE  t \in Ptrs(o, g) /\ t \notin At(o, g, x)
  <2>1. PICK y \in D : f[y] # 0 /\ t = Ptr(o, y, f[y])
    BY <1>3, <1>7
  <2>2. y # x
    BY <1>4, <1>7, <2>1
  <2>3. f[y] = g[y]
    BY <1>1, <2>2
  <2>4. t # Ptr(o, x, g[x])
    BY <2>1, <2>2, PtrIs
  <2> QED
    BY <1>2, <1>5, <2>1, <2>3, <2>4
<1>8. At(o, g, x) \subseteq Ptrs(o, g) /\ At(o, f, x) \subseteq Ptrs(o, f)
  BY <1>1, <1>2, <1>3, <1>4, <1>5
<1> QED
  BY <1>6, <1>7, <1>8

LEMMA AtIds ==
    ASSUME NEW o, NEW f, NEW x
    PROVE  Ids(At(o, f, x)) = {f[x]} \ {0}
<1>1. Ids({}) = {} /\ Ids({Ptr(o, x, f[x])}) = {f[x]}
  BY PtrIs DEF Ids
<1>2. CASE f[x] = 0
  BY <1>1, <1>2 DEF At
<1>3. CASE f[x] # 0
  BY <1>1, <1>3 DEF At
<1> QED
  BY <1>2, <1>3

(* A reserve that fails frees the new arenas.                              *)
LEMMA StagedDropped ==
    ASSUME NEW O, NEW h, Sound(O, h), Ptrs("staged", staged) \subseteq O
    PROVE  Sound(O \ Ptrs("staged", staged), Resources!CalledSuccess(h, Resources!Range(staged)))
<1>1. Resources!Range(staged) \ {0} = Ids(Ptrs("staged", staged))
  BY PtrsIds DEF Resources!Range
<1> QED
  BY <1>1, SoundFree

LEMMA ReplaceArenaKeeps == ResInv /\ Resources!ReplaceArena => ResInv'
<1> SUFFICES ASSUME ResInv, Resources!ReplaceArena PROVE ResInv'
  OBVIOUS
<1> DEFINE a == Resources!Arenas[Resources!NextReplaced]
           PA == Ptrs("arena", resourcesArena)
           PS == Ptrs("staged", staged)
           Rest == Ptrs("part", part) \cup Ptrs("cache", EntryIds(cache))
                   \cup Ptrs("pending", EntryIds(pending))
<1>1. /\ resourcesPc = "replace" /\ Resources!NextReplaced > 0
      /\ UNCHANGED <<size, part, resourcesHandle, setup, pending, roots, cache>>
  BY DEF Resources!ReplaceArena, Resources!own
<1>2. a \in ArenaNames /\ staged[a] # 0
  BY <1>1, ReplacedNext
<1>3. /\ staged \in [ArenaNames -> Nat] /\ resourcesArena \in [ArenaNames -> Nat]
      /\ Sound(Owned, heap)
  BY DEF ResInv, ResTypeOK
<1>4. Owned = PA \cup PS \cup Rest
  BY DEF Owned, OwnedBy
<1>5. Owned' = Ptrs("arena", resourcesArena') \cup Ptrs("staged", staged') \cup Rest
  BY <1>1 DEF Owned, OwnedBy
<1>6. PA \cap PS = {} /\ PA \cap Rest = {} /\ PS \cap Rest = {}
      /\ Ptrs("arena", resourcesArena') \cap PS = {} /\ Ptrs("arena", resourcesArena') \cap Rest = {}
  BY KindsApart
<1>7. CASE /\ heap' = Resources!CalledSuccess(heap, {resourcesArena[a]})
           /\ resourcesArena' = [resourcesArena EXCEPT ![a] = staged[a]]
           /\ staged' = [staged EXCEPT ![a] = 0]
           /\ UNCHANGED <<life, resourcesPc>>
  <2> DEFINE X == At("arena", resourcesArena, a)
             N == At("staged", staged, a)
             M == At("arena", resourcesArena', a)
             B == (PA \ X) \cup (PS \ N) \cup Rest
  <2>1. Changed(resourcesArena, resourcesArena', a) /\ resourcesArena'[a] = staged[a]
    BY <1>2, <1>3, <1>7 DEF Changed
  <2>2. Changed(staged, staged', a) /\ staged'[a] = 0
    BY <1>2, <1>3, <1>7 DEF Changed
  <2>3. /\ Ptrs("arena", resourcesArena') = (PA \ X) \cup M /\ X \subseteq PA
        /\ (PA \ X) \cap M = {} /\ M \subseteq Ptrs("arena", resourcesArena')
    BY <2>1, PtrsChanged
  <2>4. Ptrs("staged", staged') = PS \ N /\ N \subseteq PS
    <3>1. At("staged", staged', a) = {}
      BY <2>2 DEF At
    <3>2. Ptrs("staged", staged') = (PS \ N) \cup At("staged", staged', a) /\ N \subseteq PS
      BY <2>2, PtrsChanged
    <3> QED
      BY <3>1, <3>2
  <2>5. Ids(X) = {resourcesArena[a]} \ {0} /\ Ids(N) = {staged[a]} \ {0} /\ Ids(M) = {staged[a]} \ {0}
    BY <2>1, AtIds
  <2>6. \A p, q \in M : IdOf(p) = IdOf(q) => p = q
    BY DEF At
  <2> HIDE DEF X, N, M, PA, PS, Rest
  <2>7. Sound(Owned \ X, heap')
    BY <1>3, <1>4, <1>7, <2>3, <2>5, SoundFree
  <2>8. Owned \ X = B \cup N /\ B \cap N = {}
    BY <1>4, <1>6, <2>3, <2>4
  <2>9. Owned' = B \cup M
    BY <1>5, <2>3, <2>4
  <2> HIDE DEF B
  <2>10. Sound(Owned', heap')
    <3>1. Sound(B \cup N, heap') /\ Ids(M) = Ids(N)
      BY <2>5, <2>7, <2>8
    <3>2. Sound(B \cup M, heap')
      BY <2>6, <2>8, <3>1, SoundMove
    <3> QED
      BY <2>9, <3>2
  <2> HIDE DEF a
  <2>11. ResTypeOK'
    BY <1>1, <1>2, <1>3, <1>7 DEF ResInv, ResTypeOK
  <2>12. PhaseInv' /\ RootInv'
    BY <1>1, <1>2, <1>3, <1>7 DEF ResInv, PhaseInv, RootInv, Building
  <2> QED
    BY <2>10, <2>11, <2>12 DEF ResInv
<1>8. CASE /\ heap' = Resources!CalledSuccess(heap, Resources!Range(staged))
           /\ staged' = Resources!Null(Resources!Arenas) /\ resourcesPc' = "idle"
           /\ life' = (IF consumed \/ FALSE THEN "teardown" ELSE "usable")
           /\ UNCHANGED resourcesArena
  <2>1. staged' = [x \in ArenaNames |-> 0] /\ AllNull(staged')
    BY <1>8, NullNames DEF AllNull
  <2>2. Sound(Owned \ PS, heap')
    BY <1>3, <1>4, <1>8, StagedDropped
  <2>3. Owned' = Owned \ PS
    BY <1>4, <1>5, <1>6, <1>8, <2>1, PtrsNone
  <2>4. Sound(Owned', heap')
    BY <2>2, <2>3
  <2>5. ResTypeOK'
    BY <1>1, <1>3, <1>8, <2>1 DEF ResInv, ResTypeOK
  <2>6. PhaseInv' /\ RootInv'
    BY <1>1, <1>3, <1>8, <2>1 DEF ResInv, PhaseInv, RootInv, Building
  <2> QED
    BY <2>4, <2>5, <2>6 DEF ResInv
<1>9. CASE /\ resourcesArena[a] # 0
           /\ heap' = Resources!CalledSuccess(
                         Resources!CalledOwnershipIndeterminate(heap, resourcesArena[a]), Resources!Range(staged))
           /\ resourcesArena' = [resourcesArena EXCEPT ![a] = 0]
           /\ staged' = Resources!Null(Resources!Arenas) /\ resourcesPc' = "idle" /\ life' = "teardown"
  <2> DEFINE o == Ptr("arena", a, resourcesArena[a])
             g == Resources!CalledOwnershipIndeterminate(heap, resourcesArena[a])
  <2>1. staged' = [x \in ArenaNames |-> 0] /\ AllNull(staged')
    BY <1>9, NullNames DEF AllNull
  <2>2. Changed(resourcesArena, resourcesArena', a) /\ resourcesArena'[a] = 0
    BY <1>2, <1>3, <1>9 DEF Changed
  <2>3. Ptrs("arena", resourcesArena') = PA \ {o} /\ o \in PA
    <3>1. At("arena", resourcesArena, a) = {o} /\ At("arena", resourcesArena', a) = {}
      BY <1>9, <2>2 DEF At
    <3> QED
      BY <2>2, <3>1, PtrsChanged
  <2>4. IdOf(o) = resourcesArena[a]
    BY PtrIs
  <2>5. Sound(Owned \ {o}, g)
    BY <1>3, <1>4, <2>3, <2>4, SoundLose
  <2> HIDE DEF g, o
  <2>6. Sound((Owned \ {o}) \ PS, heap')
    <3>1. PS \subseteq Owned \ {o}
      BY <1>4, <1>6, <2>3
    <3> QED
      BY <1>9, <2>5, <3>1, StagedDropped DEF g
  <2>7. Owned' = (Owned \ {o}) \ PS
    <3>1. Ptrs("staged", staged') = {}
      BY <2>1, PtrsNone
    <3> HIDE DEF PA, PS, Rest
    <3> QED
      BY <1>4, <1>5, <1>6, <2>3, <3>1
  <2>8. Sound(Owned', heap')
    BY <2>6, <2>7
  <2> HIDE DEF a
  <2>9. ResTypeOK'
    BY <1>1, <1>2, <1>3, <1>9, <2>1 DEF ResInv, ResTypeOK
  <2>10. PhaseInv' /\ RootInv'
    BY <1>1, <1>9, <2>1 DEF ResInv, PhaseInv, RootInv, Building
  <2> QED
    BY <2>8, <2>9, <2>10 DEF ResInv
<1> QED
  BY <1>7, <1>8, <1>9 DEF Resources!ReplaceArena, Resources!ReserveFails

LEMMA ReservedKeeps == ResInv /\ Resources!Reserved => ResInv'
<1> SUFFICES ASSUME ResInv, Resources!Reserved PROVE ResInv'
  OBVIOUS
<1>1. /\ resourcesPc = "replace" /\ Resources!NextReplaced = 0 /\ resourcesPc' = "idle"
      /\ \/ size' = size + 1 /\ UNCHANGED life
         \/ UNCHANGED size /\ life' \in {"teardown", life}
      /\ UNCHANGED <<resourcesArena, staged, part, resourcesHandle, setup, pending, roots, cache, heap>>
  BY DEF Resources!Reserved, Resources!own
<1>2. AllNull(staged) /\ \A a \in ArenaNames : staged[a] = 0
  BY <1>1, ReplacedNext DEF ResInv, ResTypeOK, AllNull
<1>3. Sound(Owned, heap)'
  BY <1>1 DEF ResInv, Owned, OwnedBy
<1>4. ResTypeOK'
  BY <1>1 DEF ResInv, ResTypeOK
<1>5. PhaseInv' /\ RootInv'
  BY <1>1, <1>2 DEF ResInv, PhaseInv, RootInv, Building, AllNull
<1> QED
  BY <1>3, <1>4, <1>5 DEF ResInv

-----------------------------------------------------------------------------
(* The steps of creating a handle.                                         *)

LEMMA CreateHandleKeeps ==
    ASSUME MaxPenalties \in Nat
    PROVE  ResInv /\ Resources!create_prepared_s_gpu => ResInv'
<1> SUFFICES ASSUME ResInv, Resources!create_prepared_s_gpu PROVE ResInv'
  OBVIOUS
<1>1. /\ resourcesPc = "idle" /\ resourcesHandle \notin {"usable", "teardown"}
      /\ part' = [p \in PartNames |-> 0] /\ pending' = <<>> /\ roots' = <<>>
      /\ resourcesHandle' = "building" /\ resourcesPc' = "parts"
      /\ UNCHANGED <<life, size, resourcesArena, staged, cache, heap>>
      /\ \E n \in 1..MaxPenalties : setup' \in [1..n -> Keys]
  BY NullNames DEF Resources!create_prepared_s_gpu, Resources!ctx
<1>2. AllNull(part) /\ AllNull(part') /\ pending = <<>> /\ AllNull(staged)
  BY <1>1 DEF ResInv, PhaseInv, Building, AllNull
<1>3. Owned' = Owned
  BY <1>1, <1>2, PtrsNone DEF Owned, OwnedBy
<1>4. Sound(Owned, heap)'
  BY <1>1, <1>3 DEF ResInv
<1>5. setup' \in Seq(Keys)
  BY <1>1
<1>6. ResTypeOK'
  BY <1>1, <1>5 DEF ResInv, ResTypeOK
<1>7. Len(roots') <= Len(setup') /\ DOMAIN roots' = {} /\ DOMAIN pending' = {}
  BY <1>1, <1>5
<1>8. PhaseInv' /\ RootInv'
  BY <1>1, <1>2, <1>7 DEF ResInv, PhaseInv, RootInv, Building
<1> QED
  BY <1>4, <1>6, <1>8 DEF ResInv

LEMMA AllocatePartKeeps == ResInv /\ Resources!AllocatePart => ResInv'
<1> SUFFICES ASSUME ResInv, Resources!AllocatePart PROVE ResInv'
  OBVIOUS
<1> DEFINE a == Resources!Parts[Resources!NextPart]
           o == Ptr("part", a, heap.next)
<1>1. /\ resourcesPc = "parts" /\ Resources!NextPart > 0
      /\ part' = [part EXCEPT ![a] = heap.next]
      /\ heap' = Resources!tracked_cuda_malloc(heap)
      /\ resourcesPc' \in {"roots", "parts"}
      /\ UNCHANGED <<life, size, resourcesArena, staged, resourcesHandle, cache, setup, pending, roots>>
  BY DEF Resources!AllocatePart, Resources!ctx
<1>2. a \in PartNames /\ part[a] = 0
  BY <1>1, PartNext
<1>3. /\ part \in [PartNames -> Nat] /\ Sound(Owned, heap)
      /\ heap.next \in Nat /\ heap.next # 0
  BY DEF ResInv, ResTypeOK, Sound, Heaps
<1>4. Added(part, part', a) /\ part'[a] = heap.next
  BY <1>1, <1>2, <1>3 DEF Added
<1>5. Ptrs("part", part') = Ptrs("part", part) \cup {o}
  BY <1>4, PtrsAdded
<1>6. Owned' = Owned \cup {o}
  BY <1>1, <1>5 DEF Owned, OwnedBy
<1>7. Sound(Owned', heap')
  BY <1>1, <1>3, <1>6, SoundAlloc, PtrIs
<1> HIDE DEF a
<1>8. part' \in [PartNames -> Nat]
  BY <1>1, <1>2, <1>3
<1>9. ResTypeOK'
  BY <1>1, <1>8 DEF ResInv, ResTypeOK
<1>10. PhaseInv' /\ RootInv'
  BY <1>1 DEF ResInv, PhaseInv, RootInv, Building
<1> QED
  BY <1>7, <1>9, <1>10 DEF ResInv

(* A handle that cannot be built gives back its parts and the roots that   *)
(* have not entered the cache.                                             *)
LEMMA CreateFailsKeeps ==
    ResInv /\ Building /\ Resources!CreateFails
    /\ UNCHANGED <<life, size, resourcesArena, staged, cache, setup, roots>> => ResInv'
<1> SUFFICES ASSUME ResInv, Building, Resources!CreateFails,
                    UNCHANGED <<life, size, resourcesArena, staged, cache, setup, roots>>
             PROVE  ResInv'
  OBVIOUS
<1> DEFINE X == Ptrs("part", part) \cup Ptrs("pending", EntryIds(pending))
           ids == Resources!Range(part) \cup Resources!Held(pending)
           Rest == Ptrs("arena", resourcesArena) \cup Ptrs("staged", staged)
                   \cup Ptrs("cache", EntryIds(cache))
<1>1. /\ Resources!Cleaned(heap, ids)
      /\ part' = [p \in PartNames |-> 0] /\ pending' = <<>>
      /\ resourcesHandle' = "freed" /\ resourcesPc' = "idle"
  BY NullNames DEF Resources!CreateFails
<1>2. Ids(X) = ids \ {0}
  <2>1. Ids(Ptrs("part", part)) = Resources!Range(part) \ {0}
    BY PtrsIds DEF Resources!Range
  <2>2. {EntryIds(pending)[x] : x \in DOMAIN EntryIds(pending)} = Resources!Held(pending)
    BY DEF EntryIds, Resources!Held
  <2>3. Ids(Ptrs("pending", EntryIds(pending))) = Resources!Held(pending) \ {0}
    BY <2>2, PtrsIds
  <2>4. Ids(X) = Ids(Ptrs("part", part)) \cup Ids(Ptrs("pending", EntryIds(pending)))
    BY PtrsIdsOfTwo
  <2> QED
    BY <2>1, <2>3, <2>4
<1>3. Owned = Rest \cup X /\ Rest \cap X = {}
  BY KindsApart DEF Owned, OwnedBy
<1>4. Sound(Owned \ X, heap')
  <2> HIDE DEF X, ids, Rest
  <2> QED
    BY <1>1, <1>2, <1>3, CleanedIsSound DEF ResInv
<1>5. AllNull(part') /\ AllNull(EntryIds(pending'))
  BY <1>1 DEF AllNull, EntryIds
<1>6. Owned' = Rest
  BY <1>5, PtrsNone DEF Owned, OwnedBy
<1>7. Sound(Owned', heap')
  <2> HIDE DEF X, Rest
  <2> QED
    BY <1>3, <1>4, <1>6
<1>8. ResTypeOK'
  BY <1>1 DEF ResInv, ResTypeOK
<1>9. PhaseInv' /\ RootInv'
  BY <1>1, <1>5 DEF ResInv, PhaseInv, RootInv, Building
<1> QED
  BY <1>7, <1>8, <1>9 DEF ResInv

LEMMA CreateThrowsKeeps == ResInv /\ Resources!CreateThrows => ResInv'
BY CreateFailsKeeps DEF Resources!CreateThrows, Resources!ctx, Building

LEMMA BuildRootKeeps == ResInv /\ Resources!BuildRoot => ResInv'
<1> SUFFICES ASSUME ResInv, Resources!BuildRoot PROVE ResInv'
  OBVIOUS
<1> DEFINE k == setup[Resources!Penalty]
<1>1. /\ resourcesPc = "roots" /\ Resources!Penalty <= Len(setup)
      /\ UNCHANGED <<life, size, resourcesArena, staged, part, resourcesHandle, cache, setup, resourcesPc>>
  BY DEF Resources!BuildRoot, Resources!ctx
<1>2. /\ Resources!Penalty = Len(roots) + 1 /\ k \in Keys
      /\ Len(roots) \in Nat /\ Len(setup) \in Nat
      /\ roots \in Seq([key : Keys, good : BOOLEAN]) /\ pending \in Seq(Entries)
      /\ cache \in [DOMAIN cache -> Entries]
      /\ heap.next \in Nat \ {0} /\ Sound(Owned, heap)
  BY <1>1 DEF ResInv, ResTypeOK, Resources!Penalty, Sound, Heaps
<1>3. \E good \in BOOLEAN :
          /\ roots' = Append(roots, [key |-> k, good |-> good])
          /\ \/ UNCHANGED <<pending, heap>>
             \/ /\ pending' = Append(pending, [id |-> heap.next, key |-> k, good |-> good])
                /\ heap' = Resources!tracked_cuda_malloc(heap)
  <2>1. CASE Resources!Hit
    <3>1. k \in DOMAIN cache
      BY <2>1 DEF Resources!Hit
    <3>2. cache[k].key = k /\ cache[k].good \in BOOLEAN
      BY <1>2, <3>1 DEF ResInv, RootInv, Entries
    <3>3. roots' = Append(roots, [key |-> cache[k].key, good |-> cache[k].good])
          /\ UNCHANGED <<pending, heap>>
      BY <2>1 DEF Resources!BuildRoot
    <3> QED
      BY <3>2, <3>3
  <2>2. CASE ~Resources!Hit
    BY <2>2 DEF Resources!BuildRoot
  <2> QED
    BY <2>1, <2>2
<1>4. PICK good \in BOOLEAN :
          /\ roots' = Append(roots, [key |-> k, good |-> good])
          /\ \/ UNCHANGED <<pending, heap>>
             \/ /\ pending' = Append(pending, [id |-> heap.next, key |-> k, good |-> good])
                /\ heap' = Resources!tracked_cuda_malloc(heap)
  BY <1>3
<1> DEFINE r == [key |-> k, good |-> good]
           e == [id |-> heap.next, key |-> k, good |-> good]
<1>5. r \in [key : Keys, good : BOOLEAN] /\ r.key = k /\ r.good = good
  BY <1>2
<1>6. e \in Entries /\ e.id = heap.next /\ e.key = k /\ e.good = good
  BY <1>2 DEF Entries
<1>7. roots' = Append(roots, r) /\ (pending' = Append(pending, e) \/ pending' = pending)
  BY <1>4
<1> HIDE DEF r, e
<1>8. /\ roots' \in Seq([key : Keys, good : BOOLEAN]) /\ Len(roots') = Len(roots) + 1
      /\ DOMAIN roots' = 1..Len(roots') /\ DOMAIN roots = 1..Len(roots)
      /\ roots'[Len(roots')] = r
      /\ \A i \in DOMAIN roots : roots'[i] = roots[i] /\ i \in DOMAIN roots'
  BY <1>2, <1>5, <1>7
<1>9. pending' \in Seq(Entries)
  BY <1>2, <1>6, <1>7
<1>10. ResTypeOK'
  BY <1>1, <1>8, <1>9 DEF ResInv, ResTypeOK
<1>11. \A i \in DOMAIN pending' : \E j \in DOMAIN roots' :
          roots'[j].key = pending'[i].key /\ (roots'[j].good => pending'[i].good)
  <2> SUFFICES ASSUME NEW i \in DOMAIN pending'
               PROVE  \E j \in DOMAIN roots' :
                         roots'[j].key = pending'[i].key /\ (roots'[j].good => pending'[i].good)
    OBVIOUS
  <2>1. CASE i \in DOMAIN pending /\ pending'[i] = pending[i]
    BY <1>8, <2>1 DEF ResInv, RootInv
  <2>2. CASE pending'[i] = e
    BY <1>2, <1>5, <1>6, <1>8, <2>2
  <2>3. CASE pending' = pending
    BY <2>1, <2>3
  <2>4. CASE pending' = Append(pending, e)
    <3>1. /\ DOMAIN pending = 1..Len(pending) /\ DOMAIN pending' = 1..(Len(pending) + 1)
          /\ \A l \in 1..Len(pending) : pending'[l] = pending[l]
          /\ pending'[Len(pending) + 1] = e /\ Len(pending) \in Nat
      BY <1>2, <1>6, <2>4
    <3>2. i \in 1..Len(pending) \/ i = Len(pending) + 1
      BY <3>1
    <3>3. CASE i \in 1..Len(pending)
      <4>1. i \in DOMAIN pending /\ pending'[i] = pending[i]
        BY <3>1, <3>3
      <4> QED
        BY <2>1, <4>1
    <3>4. CASE i = Len(pending) + 1
      <4>1. pending'[i] = e
        BY <3>1, <3>4
      <4> QED
        BY <2>2, <4>1
    <3> QED
      BY <3>2, <3>3, <3>4
  <2> QED
    BY <1>7, <2>3, <2>4
<1>12. /\ Len(roots') <= Len(setup')
       /\ \A i \in DOMAIN roots' : roots'[i].key = setup'[i]
  <2>1. \A i \in DOMAIN roots : roots[i].key = setup[i]
    BY <1>1 DEF ResInv, RootInv, Building
  <2> QED
    BY <1>1, <1>2, <1>5, <1>8, <2>1
<1>13. PhaseInv'
  BY <1>1 DEF ResInv, PhaseInv, Building
<1>14. RootInv'
  <2>1. resourcesPc' # "emplace" /\ resourcesHandle' # "usable"
    BY <1>1 DEF ResInv, PhaseInv, Building
  <2> QED
    BY <1>1, <1>11, <1>12, <2>1 DEF ResInv, RootInv
<1>15. Sound(Owned', heap')
  <2>1. CASE UNCHANGED <<pending, heap>>
    BY <1>1, <1>2, <2>1 DEF Owned, OwnedBy
  <2>2. CASE pending' = Append(pending, e) /\ heap' = Resources!tracked_cuda_malloc(heap)
    <3> DEFINE n == Len(pending) + 1
               o == Ptr("pending", n, heap.next)
    <3>1. /\ DOMAIN EntryIds(pending) = 1..Len(pending) /\ DOMAIN EntryIds(pending') = 1..n
          /\ EntryIds(pending')[n] = heap.next
          /\ \A i \in 1..Len(pending) : EntryIds(pending')[i] = EntryIds(pending)[i]
      BY <1>2, <1>6, <2>2 DEF EntryIds
    <3>2. Ptrs("pending", EntryIds(pending')) = Ptrs("pending", EntryIds(pending)) \cup {o}
      <4> DEFINE f == EntryIds(pending)
                 g == EntryIds(pending')
      <4>1. Len(pending) \in Nat /\ n \in 1..n /\ 1..n = (1..Len(pending)) \cup {n}
        BY <1>2
      <4> HIDE DEF f, g, n
      <4>2. \A t : t \in Ptrs("pending", g) <=>
                     \E y \in (1..Len(pending)) \cup {n} : g[y] # 0 /\ t = Ptr("pending", y, g[y])
        BY <3>1, <4>1 DEF Ptrs, f, g
      <4>3. \A t : t \in Ptrs("pending", f) <=>
                     \E y \in 1..Len(pending) : f[y] # 0 /\ t = Ptr("pending", y, f[y])
        BY <3>1 DEF Ptrs, f
      <4>4. g[n] = heap.next /\ heap.next # 0 /\ \A y \in 1..Len(pending) : g[y] = f[y]
        BY <1>2, <3>1 DEF f, g
      <4>5. Ptrs("pending", g) = Ptrs("pending", f) \cup {Ptr("pending", n, heap.next)}
        <5> DEFINE L == 1..Len(pending)
        <5> HIDE DEF L
        <5>1. \A t : t \in Ptrs("pending", g) =>
                 t \in Ptrs("pending", f) \/ t = Ptr("pending", n, heap.next)
          BY <4>2, <4>3, <4>4 DEF L
        <5>2. \A t \in Ptrs("pending", f) : t \in Ptrs("pending", g)
          BY <4>2, <4>3, <4>4 DEF L
        <5>3. Ptr("pending", n, heap.next) \in Ptrs("pending", g)
          BY <4>2, <4>4
        <5> QED
          BY <5>1, <5>2, <5>3
      <4> QED
        BY <4>5 DEF f, g
    <3>3. Owned' = Owned \cup {o}
      BY <1>1, <3>2 DEF Owned, OwnedBy
    <3> HIDE DEF n
    <3>4. IdOf(o) = heap.next
      BY PtrIs
    <3> QED
      BY <1>2, <2>2, <3>3, <3>4, SoundAlloc
  <2> QED
    BY <1>4, <2>1, <2>2 DEF e
<1> QED
  BY <1>10, <1>13, <1>14, <1>15 DEF ResInv

LEMMA ValidateRootsKeeps == ResInv /\ Resources!ValidateRoots => ResInv'
<1> SUFFICES ASSUME ResInv, Resources!ValidateRoots PROVE ResInv'
  OBVIOUS
<1>1. /\ resourcesPc = "roots" /\ Resources!Penalty > Len(setup)
      /\ UNCHANGED <<life, size, resourcesArena, staged, cache, setup, roots>>
  BY DEF Resources!ValidateRoots, Resources!ctx
<1>2. CASE Resources!Validated # {}
  <2>1. Resources!CreateFails
    BY <1>2 DEF Resources!ValidateRoots
  <2> QED
    BY <1>1, <2>1, CreateFailsKeeps DEF Building
<1>3. CASE Resources!Validated = {}
  <2>1. resourcesPc' = "emplace" /\ UNCHANGED <<part, pending, resourcesHandle, heap>>
    BY <1>3 DEF Resources!ValidateRoots
  <2>2. \A i \in DOMAIN roots : roots[i].good
    BY <1>3 DEF Resources!Validated
  <2>3. Len(roots) = Len(setup)
    <3>1. Len(roots) \in Nat /\ Len(setup) \in Nat /\ Len(roots) <= Len(setup)
      BY <1>1 DEF ResInv, ResTypeOK, RootInv, Building
    <3> QED
      BY <1>1, <3>1 DEF Resources!Penalty
  <2>4. Sound(Owned, heap)'
    BY <1>1, <2>1 DEF ResInv, Owned, OwnedBy
  <2>5. ResTypeOK'
    BY <1>1, <2>1 DEF ResInv, ResTypeOK
  <2>6. PhaseInv'
    BY <1>1, <2>1 DEF ResInv, PhaseInv, Building
  <2>7. RootInv'
    BY <1>1, <2>1, <2>2, <2>3 DEF ResInv, RootInv, Building
  <2> QED
    BY <2>4, <2>5, <2>6, <2>7 DEF ResInv
<1> QED
  BY <1>2, <1>3

(* The first pending entry moves into the cache, the others move up.       *)
LEMMA EmplaceKeeps == ResInv /\ Resources!Emplace => ResInv'
<1> SUFFICES ASSUME ResInv, Resources!Emplace PROVE ResInv'
  OBVIOUS
<1> DEFINE e == Head(pending)
<1>1. resourcesPc = "emplace" /\ pending # <<>>
      /\ UNCHANGED <<life, size, resourcesArena, staged, setup, roots>>
  BY DEF Resources!Emplace, Resources!ctx
<1>2. CASE e.key \in DOMAIN cache
  <2>1. Resources!CreateFails /\ UNCHANGED cache
    BY <1>2 DEF Resources!Emplace
  <2> QED
    BY <1>1, <2>1, CreateFailsKeeps DEF Building
<1>3. CASE e.key \notin DOMAIN cache
  <2> DEFINE L == Len(pending)
             Pend == EntryIds(pending)
             Pend1 == EntryIds(pending')
             Kept == Ptrs("arena", resourcesArena) \cup Ptrs("staged", staged)
                     \cup Ptrs("part", part)
             o == Ptr("cache", e.key, e.id)
  <2>1. /\ cache' = [k \in DOMAIN cache \cup {e.key} |-> IF k = e.key THEN e ELSE cache[k]]
        /\ pending' = Tail(pending)
        /\ UNCHANGED <<part, resourcesHandle, heap, resourcesPc>>
    BY <1>3 DEF Resources!Emplace
  <2>2. /\ pending \in Seq(Entries) /\ cache \in [DOMAIN cache -> Entries]
        /\ Sound(Owned, heap)
    BY DEF ResInv, ResTypeOK
  <2>3. /\ L \in Nat /\ L > 0 /\ e = pending[1] /\ e \in Entries
        /\ DOMAIN pending = 1..L /\ DOMAIN pending' = 1..(L - 1)
        /\ \A i \in 1..(L - 1) : pending'[i] = pending[i + 1]
        /\ pending' \in Seq(Entries)
    BY <1>1, <2>1, <2>2
  <2>4. e.id # 0 /\ \A i \in 1..L : pending[i].id # 0
    <3>1. \A i \in 1..L : pending[i] \in Entries
      BY <2>2
    <3>2. ASSUME NEW d \in Entries PROVE d.id # 0
      BY DEF Entries
    <3> QED
      BY <2>3, <3>1, <3>2
  <2>5. /\ DOMAIN cache' = DOMAIN cache \cup {e.key} /\ cache'[e.key] = e
        /\ \A k \in DOMAIN cache : cache'[k] = cache[k]
    BY <1>3, <2>1
  <2>6. cache' \in [DOMAIN cache' -> Entries]
    BY <2>1, <2>2, <2>3
  <2> HIDE DEF e, L
  <2>7. Ptrs("cache", EntryIds(cache')) = Ptrs("cache", EntryIds(cache)) \cup {o}
    <3> DEFINE f == EntryIds(cache)
               g == EntryIds(cache')
               D == DOMAIN cache
    <3>1. /\ DOMAIN f = D /\ DOMAIN g = D \cup {e.key} /\ g[e.key] = e.id
          /\ \A k \in D : g[k] = f[k]
      BY <2>5 DEF EntryIds
    <3> HIDE DEF f, g, D
    <3>2. \A t : t \in Ptrs("cache", f) <=> \E y \in D : f[y] # 0 /\ t = Ptr("cache", y, f[y])
      BY <3>1 DEF Ptrs
    <3>3. \A t : t \in Ptrs("cache", g) <=>
                    \E y \in D \cup {e.key} : g[y] # 0 /\ t = Ptr("cache", y, g[y])
      BY <3>1 DEF Ptrs
    <3>4. \A t : t \in Ptrs("cache", g) => t \in Ptrs("cache", f) \/ t = o
      BY <3>1, <3>2, <3>3
    <3>5. \A t \in Ptrs("cache", f) : t \in Ptrs("cache", g)
      BY <3>1, <3>2, <3>3
    <3>6. o \in Ptrs("cache", g)
      BY <2>4, <3>1, <3>3
    <3> QED
      BY <3>4, <3>5, <3>6 DEF f, g
  <2>8. /\ DOMAIN Pend = 1..L /\ DOMAIN Pend1 = 1..(L - 1) /\ Pend[1] = e.id
        /\ \A i \in 1..L : Pend[i] # 0
        /\ \A i \in 1..(L - 1) : Pend1[i] = Pend[i + 1] /\ Pend1[i] # 0
    BY <2>3, <2>4 DEF EntryIds
  <2> HIDE DEF Pend, Pend1
  <2>9. \A t : t \in Ptrs("pending", Pend) <=> \E i \in 1..L : t = Ptr("pending", i, Pend[i])
    BY <2>8 DEF Ptrs
  <2>10. \A t : t \in Ptrs("pending", Pend1) <=>
                   \E i \in 1..(L - 1) : t = Ptr("pending", i, Pend1[i])
    BY <2>8 DEF Ptrs
  <2> DEFINE B == Kept \cup Ptrs("cache", EntryIds(cache))
             N == Ptrs("pending", Pend)
             M == {o} \cup Ptrs("pending", Pend1)
  <2>11. Owned = B \cup N /\ B \cap N = {}
    BY KindsApart DEF Owned, OwnedBy, Pend
  <2>12. Owned' = B \cup M
    BY <1>1, <2>1, <2>7 DEF Owned, OwnedBy, Pend1
  <2>13. Ids(M) = Ids(N)
    <3>1. \A t \in M : \E u \in N : IdOf(u) = IdOf(t)
      <4>1. IdOf(o) = IdOf(Ptr("pending", 1, Pend[1])) /\ 1 \in 1..L
        BY <2>3, <2>8, PtrIs
      <4>2. ASSUME NEW i \in 1..(L - 1)
            PROVE  /\ IdOf(Ptr("pending", i, Pend1[i])) = IdOf(Ptr("pending", i + 1, Pend[i + 1]))
                   /\ i + 1 \in 1..L
        BY <2>3, <2>8, PtrIs
      <4> QED
        BY <2>9, <2>10, <4>1, <4>2
    <3>2. \A u \in N : \E t \in M : IdOf(u) = IdOf(t)
      <4> SUFFICES ASSUME NEW i \in 1..L
                   PROVE  \E t \in M : IdOf(Ptr("pending", i, Pend[i])) = IdOf(t)
        BY <2>9
      <4>1. CASE i = 1
        BY <2>8, <4>1, PtrIs
      <4>2. CASE i # 1
        <5>1. i - 1 \in 1..(L - 1) /\ (i - 1) + 1 = i
          BY <2>3, <4>2
        <5>2. Pend1[i - 1] = Pend[i]
          BY <2>8, <5>1
        <5>3. Ptr("pending", i - 1, Pend1[i - 1]) \in M
          BY <2>10, <5>1
        <5> QED
          BY <5>2, <5>3, PtrIs
      <4> QED
        BY <4>1, <4>2
    <3> QED
      BY <3>1, <3>2 DEF Ids
  <2>14. \A p, q \in M : IdOf(p) = IdOf(q) => p = q
    <3>1. \A i, j \in 1..L : Pend[i] = Pend[j] => i = j
      <4> SUFFICES ASSUME NEW i \in 1..L, NEW j \in 1..L, Pend[i] = Pend[j] PROVE i = j
        OBVIOUS
      <4>1. Ptr("pending", i, Pend[i]) \in Owned /\ Ptr("pending", j, Pend[j]) \in Owned
        BY <2>9, <2>11
      <4>2. Ptr("pending", i, Pend[i]) = Ptr("pending", j, Pend[j])
        BY <2>2, <4>1, PtrIs DEF Sound
      <4> QED
        BY <4>2, PtrIs
    <3>2. ASSUME NEW i \in 1..(L - 1) PROVE i + 1 \in 1..L /\ i + 1 # 1 /\ Pend1[i] = Pend[i + 1]
      BY <2>3, <2>8
    <3>3. ASSUME NEW i \in 1..(L - 1)
          PROVE  IdOf(Ptr("pending", i, Pend1[i])) # IdOf(o)
      <4>1. 1 \in 1..L
        BY <2>3
      <4> QED
        BY <2>8, <3>1, <3>2, <4>1, PtrIs
    <3>4. ASSUME NEW i \in 1..(L - 1), NEW j \in 1..(L - 1),
                 IdOf(Ptr("pending", i, Pend1[i])) = IdOf(Ptr("pending", j, Pend1[j]))
          PROVE  i = j
      <4>1. Pend[i + 1] = Pend[j + 1]
        BY <3>2, <3>4, PtrIs
      <4>2. i + 1 = j + 1
        BY <3>1, <3>2, <4>1
      <4> QED
        BY <2>3, <4>2
    <3>5. \A t \in M : t = o \/ \E i \in 1..(L - 1) : t = Ptr("pending", i, Pend1[i])
      BY <2>10
    <3> HIDE DEF M, o
    <3> QED
      BY <3>3, <3>4, <3>5
  <2> HIDE DEF B, N, M
  <2>15. Sound(B \cup M, heap)
    BY <2>2, <2>11, <2>13, <2>14, SoundMove
  <2>16. Sound(Owned', heap')
    BY <2>1, <2>12, <2>15
  <2>17. ResTypeOK'
    BY <1>1, <2>1, <2>3, <2>6 DEF ResInv, ResTypeOK
  <2>18. PhaseInv'
    BY <1>1, <2>1 DEF ResInv, PhaseInv, Building
  <2>19. RootInv'
    <3>1. /\ \A i \in DOMAIN roots : roots[i].good
          /\ \A i \in 1..L : \E j \in DOMAIN roots :
                roots[j].key = pending[i].key /\ (roots[j].good => pending[i].good)
      BY <1>1, <2>3 DEF ResInv, RootInv
    <3>2. e.good
      BY <2>3, <3>1
    <3>3. \A k \in DOMAIN cache' : cache'[k].key = k /\ cache'[k].good
      BY <2>5, <3>2 DEF ResInv, RootInv
    <3>4. \A i \in DOMAIN pending' : \E j \in DOMAIN roots :
             roots[j].key = pending'[i].key /\ (roots[j].good => pending'[i].good)
      <4> SUFFICES ASSUME NEW i \in 1..(L - 1)
                   PROVE  \E j \in DOMAIN roots :
                             roots[j].key = pending'[i].key /\ (roots[j].good => pending'[i].good)
        BY <2>3
      <4>1. i + 1 \in 1..L /\ pending'[i] = pending[i + 1]
        BY <2>3
      <4> QED
        BY <3>1, <4>1
    <3> QED
      BY <1>1, <2>1, <3>3, <3>4 DEF ResInv, RootInv, Building
  <2> QED
    BY <2>16, <2>17, <2>18, <2>19 DEF ResInv
<1> QED
  BY <1>2, <1>3

LEMMA CreatedKeeps == ResInv /\ Resources!Created => ResInv'
<1> SUFFICES ASSUME ResInv, Resources!Created PROVE ResInv'
  OBVIOUS
<1>1. /\ resourcesPc = "emplace" /\ pending = <<>> /\ resourcesHandle' = "usable" /\ resourcesPc' = "idle"
      /\ UNCHANGED <<life, size, resourcesArena, staged, part, cache, setup, pending, roots, heap>>
  BY DEF Resources!Created, Resources!ctx
<1>2. Sound(Owned, heap)'
  BY <1>1 DEF ResInv, Owned, OwnedBy
<1>3. ResTypeOK' /\ PhaseInv' /\ RootInv'
  BY <1>1 DEF ResInv, ResTypeOK, PhaseInv, RootInv, Building
<1> QED
  BY <1>2, <1>3 DEF ResInv

-----------------------------------------------------------------------------
(* Closing the handle and the runtime.                                     *)

LEMMA FreePreparedKeeps == ResInv /\ Resources!free_prepared_s_gpu => ResInv'
<1> SUFFICES ASSUME ResInv, Resources!free_prepared_s_gpu PROVE ResInv'
  OBVIOUS
<1> DEFINE PP == Ptrs("part", part)
           Rest == Ptrs("arena", resourcesArena) \cup Ptrs("staged", staged)
                   \cup Ptrs("cache", EntryIds(cache)) \cup Ptrs("pending", EntryIds(pending))
<1>1. /\ resourcesPc = "idle" /\ resourcesHandle \in {"usable", "teardown"}
      /\ UNCHANGED <<life, size, resourcesArena, staged, cache, setup, pending, roots, resourcesPc>>
  BY DEF Resources!free_prepared_s_gpu, Resources!ctx
<1>2. part \in [PartNames -> Nat] /\ Sound(Owned, heap)
  BY DEF ResInv, ResTypeOK
<1>3. Owned = Rest \cup PP /\ Rest \cap PP = {}
  BY KindsApart DEF Owned, OwnedBy
<1>4. Owned' = Rest \cup Ptrs("part", part')
  BY <1>1 DEF Owned, OwnedBy
<1>5. Ids(PP) = Resources!Range(part) \ {0}
  BY PtrsIds DEF Resources!Range
<1>6. CASE /\ Resources!Cleaned(heap, Resources!Range(part))
           /\ part' = Resources!Null(Resources!Parts) /\ resourcesHandle' = "freed"
  <2>1. part' = [p \in PartNames |-> 0] /\ AllNull(part')
    BY <1>6, NullNames DEF AllNull
  <2>2. Ptrs("part", part') = {}
    BY <2>1, PtrsNone
  <2> HIDE DEF PP, Rest
  <2>3. Sound(Owned \ PP, heap')
    BY <1>2, <1>3, <1>5, <1>6, CleanedIsSound
  <2>4. Owned' = Owned \ PP
    BY <1>3, <1>4, <2>2
  <2>5. Sound(Owned', heap')
    BY <2>3, <2>4
  <2>6. ResTypeOK' /\ PhaseInv' /\ RootInv'
    BY <1>1, <1>6, <2>1 DEF ResInv, ResTypeOK, PhaseInv, RootInv, Building
  <2> QED
    BY <2>5, <2>6 DEF ResInv
<1>7. ASSUME NEW p \in DOMAIN part, part[p] # 0,
             heap' = Resources!ClosedHeap(Resources!Range(part), part[p]),
             part' = [q \in DOMAIN part |-> IF q = p THEN part[q] ELSE 0],
             resourcesHandle' = "teardown"
      PROVE  ResInv'
  <2> DEFINE o == Ptr("part", p, part[p])
  <2>1. p \in PartNames /\ DOMAIN part = PartNames
    BY <1>2, <1>7
  <2>2. part' = [q \in PartNames |-> IF q = p THEN part[q] ELSE 0]
    BY <1>7, <2>1
  <2>3. Ptrs("part", part') = {o} /\ o \in PP
    BY <1>2, <1>7, <2>1, <2>2, PtrsKept
  <2>4. IdOf(o) = part[p]
    BY PtrIs
  <2>5. (Resources!Range(part) \ {part[p]}) \ {0} = Ids(PP \ {o})
    <3>1. \A t \in PP : IdOf(t) = part[p] => t = o
      BY <1>2, <1>3, <2>3, <2>4 DEF Sound
    <3> HIDE DEF PP, o
    <3> QED
      BY <1>5, <2>3, <2>4, <3>1 DEF Ids
  <2> HIDE DEF PP, o, Rest
  <2>6. Sound(Owned \ (PP \ {o}), heap')
    BY <1>2, <1>3, <1>7, <2>5, SoundFree DEF Resources!ClosedHeap
  <2>7. Owned' = Owned \ (PP \ {o})
    BY <1>3, <1>4, <2>3
  <2>8. Sound(Owned', heap')
    BY <2>6, <2>7
  <2>9. part' \in [PartNames -> Nat]
    BY <1>2, <2>2
  <2>10. ResTypeOK' /\ PhaseInv' /\ RootInv'
    BY <1>1, <1>7, <2>9 DEF ResInv, ResTypeOK, PhaseInv, RootInv, Building
  <2> QED
    BY <2>8, <2>10 DEF ResInv
<1> QED
  BY <1>6, <1>7 DEF Resources!free_prepared_s_gpu

LEMMA CloseRuntimeKeeps == ResInv /\ Resources!free_fixed_sp_runtime => ResInv'
<1> SUFFICES ASSUME ResInv, Resources!free_fixed_sp_runtime PROVE ResInv'
  OBVIOUS
<1> DEFINE PA == Ptrs("arena", resourcesArena)
           PC == Ptrs("cache", EntryIds(cache))
           Rest == Ptrs("staged", staged) \cup Ptrs("part", part)
                   \cup Ptrs("pending", EntryIds(pending))
           ids == Resources!Range(resourcesArena) \cup {cache[k].id : k \in DOMAIN cache}
<1>1. /\ resourcesPc = "idle" /\ cache' = <<>>
      /\ UNCHANGED <<size, staged, part, resourcesHandle, setup, pending, roots, resourcesPc>>
  BY DEF Resources!free_fixed_sp_runtime, Resources!own
<1>2. resourcesArena \in [ArenaNames -> Nat] /\ Sound(Owned, heap)
  BY DEF ResInv, ResTypeOK
<1>3. /\ Owned = Rest \cup PA \cup PC
      /\ Rest \cap PA = {} /\ Rest \cap PC = {} /\ PA \cap PC = {}
  BY KindsApart DEF Owned, OwnedBy
<1>4. Owned' = Rest \cup Ptrs("arena", resourcesArena')
  <2>1. AllNull(EntryIds(cache'))
    BY <1>1 DEF AllNull, EntryIds
  <2>2. Ptrs("cache", EntryIds(cache')) = {}
    BY <2>1, PtrsNone
  <2> QED
    BY <1>1, <2>2 DEF Owned, OwnedBy
<1>5. Ids(PA \cup PC) = ids \ {0}
  <2>1. Ids(PA) = Resources!Range(resourcesArena) \ {0}
    BY PtrsIds DEF Resources!Range
  <2>2. {EntryIds(cache)[x] : x \in DOMAIN EntryIds(cache)} = {cache[k].id : k \in DOMAIN cache}
    BY DEF EntryIds
  <2>3. Ids(PC) = {cache[k].id : k \in DOMAIN cache} \ {0}
    BY <2>2, PtrsIds
  <2>4. Ids(PA \cup PC) = Ids(PA) \cup Ids(PC)
    BY PtrsIdsOfTwo
  <2> QED
    BY <2>1, <2>3, <2>4
<1>6. DOMAIN cache' = {} /\ cache' \in [DOMAIN cache' -> Entries]
  BY <1>1
<1>7. CASE /\ Resources!Cleaned(heap, ids)
           /\ resourcesArena' = Resources!Null(Resources!Arenas) /\ life' = "freed"
  <2>1. resourcesArena' = [a \in ArenaNames |-> 0] /\ AllNull(resourcesArena')
    BY <1>7, NullNames DEF AllNull
  <2>2. Ptrs("arena", resourcesArena') = {}
    BY <2>1, PtrsNone
  <2> HIDE DEF PA, PC, Rest, ids
  <2>3. Sound(Owned \ (PA \cup PC), heap')
    BY <1>2, <1>3, <1>5, <1>7, CleanedIsSound
  <2>4. Owned' = Owned \ (PA \cup PC)
    BY <1>3, <1>4, <2>2
  <2>5. Sound(Owned', heap')
    BY <2>3, <2>4
  <2>6. ResTypeOK' /\ PhaseInv' /\ RootInv'
    BY <1>1, <1>6, <1>7, <2>1 DEF ResInv, ResTypeOK, PhaseInv, RootInv, Building
  <2> QED
    BY <2>5, <2>6 DEF ResInv
<1>8. ASSUME NEW a \in DOMAIN resourcesArena, resourcesArena[a] # 0,
             heap' = Resources!ClosedHeap(ids, resourcesArena[a]),
             resourcesArena' = [b \in DOMAIN resourcesArena |-> IF b = a THEN resourcesArena[b] ELSE 0],
             life' = "teardown"
      PROVE  ResInv'
  <2> DEFINE o == Ptr("arena", a, resourcesArena[a])
             X == PA \cup PC
  <2>1. a \in ArenaNames /\ DOMAIN resourcesArena = ArenaNames
    BY <1>2, <1>8
  <2>2. resourcesArena' = [b \in ArenaNames |-> IF b = a THEN resourcesArena[b] ELSE 0]
    BY <1>8, <2>1
  <2>3. Ptrs("arena", resourcesArena') = {o} /\ o \in PA
    BY <1>2, <1>8, <2>1, <2>2, PtrsKept
  <2>4. IdOf(o) = resourcesArena[a]
    BY PtrIs
  <2> HIDE DEF PA, PC, Rest, ids, o
  <2>5. (ids \ {resourcesArena[a]}) \ {0} = Ids(X \ {o})
    <3>1. \A t \in X : IdOf(t) = resourcesArena[a] => t = o
      BY <1>2, <1>3, <2>3, <2>4 DEF Sound
    <3>2. Ids(X) = ids \ {0} /\ o \in X
      BY <1>5, <2>3
    <3> HIDE DEF X
    <3> QED
      BY <2>4, <3>1, <3>2 DEF Ids
  <2>6. X \subseteq Owned
    BY <1>3
  <2>7. Sound(Owned \ (X \ {o}), heap')
    <3> HIDE DEF X
    <3> QED
      BY <1>2, <1>8, <2>5, <2>6, SoundFree DEF Resources!ClosedHeap
  <2>8. Owned' = Owned \ (X \ {o})
    BY <1>3, <1>4, <2>3
  <2>9. Sound(Owned', heap')
    BY <2>7, <2>8
  <2>10. resourcesArena' \in [ArenaNames -> Nat]
    BY <1>2, <2>2
  <2>11. ResTypeOK' /\ PhaseInv' /\ RootInv'
    BY <1>1, <1>6, <1>8, <2>10 DEF ResInv, ResTypeOK, PhaseInv, RootInv, Building
  <2> QED
    BY <2>9, <2>11 DEF ResInv
<1> QED
  BY <1>7, <1>8 DEF Resources!free_fixed_sp_runtime

LEMMA ResStutters == ResInv /\ UNCHANGED Resources!vars => ResInv'
<1> SUFFICES ASSUME ResInv, UNCHANGED Resources!vars PROVE ResInv'
  OBVIOUS
<1>1. UNCHANGED <<life, size, resourcesArena, staged, part, resourcesHandle, cache, setup, pending,
                  roots, heap, resourcesPc>>
  BY DEF Resources!vars
<1>2. Sound(Owned, heap)'
  BY <1>1 DEF ResInv, Owned, OwnedBy
<1>3. ResTypeOK' /\ PhaseInv' /\ RootInv'
  BY <1>1 DEF ResInv, ResTypeOK, PhaseInv, RootInv, Building
<1> QED
  BY <1>2, <1>3 DEF ResInv

(* The invariant of what the runtime allocates: every pointer has its      *)
(* phase, every root its key, and the pointers lead to the live resources, *)
(* one to each.                                                            *)
THEOREM ResourcesInvariant ==
    ASSUME MaxPenalties \in Nat
    PROVE  Resources!Spec => []ResInv
<1>1. ResInv /\ [Resources!Next]_Resources!vars => ResInv'
  BY ReserveArenasKeeps, AllocateArenaKeeps, ReplaceArenaKeeps, ReservedKeeps, CreateHandleKeeps,
     AllocatePartKeeps, CreateThrowsKeeps, BuildRootKeeps, ValidateRootsKeeps,
     EmplaceKeeps, CreatedKeeps, FreePreparedKeeps, CloseRuntimeKeeps, ResStutters
     DEF Resources!Next
<1> QED
  BY <1>1, ResInit, PTL DEF Resources!Spec

(* At every step, failures included, each resource that is allocated and   *)
(* not in an unknown state has exactly one pointer that will free it, no   *)
(* pointer leads to one that is gone, and the ledger counts them exactly.  *)
THEOREM ResourcesOwnedOnce ==
    ASSUME MaxPenalties \in Nat
    PROVE  Resources!Spec => []Resources!OwnedOnce
<1>1. ASSUME ResInv PROVE Resources!OwnedOnce
  <2> DEFINE Kinds == {"arena", "staged", "part", "cache", "pending"}
             F(o) == Resources!Owners[o]
  <2>1. /\ DOMAIN Resources!Owners = Kinds
        /\ F("arena") = resourcesArena /\ F("staged") = staged /\ F("part") = part
        /\ F("cache") = EntryIds(cache) /\ F("pending") = EntryIds(pending)
    BY DEF Resources!Owners, EntryIds
  <2>2. Sound(Owned, heap)
    BY <1>1 DEF ResInv
  <2> HIDE DEF F
  <2>3. \A t : t \in Owned <=> \E o \in Kinds : t \in Ptrs(o, F(o))
    BY <2>1 DEF Owned, OwnedBy
  <2> HIDE DEF Kinds
  <2>4. ASSUME NEW o \in Kinds, NEW p \in Kinds, NEW x \in DOMAIN F(o), NEW y \in DOMAIN F(p),
               F(o)[x] = F(p)[y], F(o)[x] # 0
        PROVE  o = p /\ x = y
    <3>1. Ptr(o, x, F(o)[x]) \in Ptrs(o, F(o)) /\ Ptr(p, y, F(p)[y]) \in Ptrs(p, F(p))
      BY <2>4 DEF Ptrs
    <3>2. Ptr(o, x, F(o)[x]) = Ptr(p, y, F(p)[y])
      BY <2>2, <2>3, <2>4, <3>1, PtrIs DEF Sound
    <3> QED
      BY <3>2, PtrIs
  <2>5. \A o \in Kinds : Ids(Ptrs(o, F(o))) = Resources!Range(F(o)) \ {0}
    BY PtrsIds DEF Resources!Range
  <2>6. (UNION {Resources!Range(F(o)) : o \in Kinds}) \ {0} = Ids(Owned)
    <3> DEFINE R(o) == Resources!Range(F(o))
    <3>r. \A o \in Kinds : Ids(Ptrs(o, F(o))) = R(o) \ {0}
      BY <2>5
    <3>u. \A v : v \in (UNION {R(o) : o \in Kinds}) \ {0} <=> \E o \in Kinds : v \in R(o) \ {0}
      <4> HIDE DEF R
      <4> QED
        OBVIOUS
    <3>1. ASSUME NEW t \in Owned PROVE IdOf(t) \in (UNION {R(o) : o \in Kinds}) \ {0}
      <4>1. PICK o \in Kinds : t \in Ptrs(o, F(o))
        BY <2>3
      <4>2. IdOf(t) \in Ids(Ptrs(o, F(o)))
        BY <4>1 DEF Ids
      <4> QED
        BY <3>r, <3>u, <4>2
    <3>2. ASSUME NEW v \in (UNION {R(o) : o \in Kinds}) \ {0}
          PROVE  \E t \in Owned : v = IdOf(t)
      <4>1. PICK o \in Kinds : v \in R(o) \ {0}
        BY <3>2, <3>u
      <4>2. v \in Ids(Ptrs(o, F(o)))
        BY <3>r, <4>1
      <4> QED
        BY <2>3, <4>2 DEF Ids
    <3> QED
      BY <3>1, <3>2 DEF Ids
  <2>7. heap.active = Resources!Cardinality(heap.alive \ heap.unknown)
        /\ Ids(Owned) = heap.alive \ heap.unknown
    BY <2>2, ResCardinality DEF Sound, LiveIn
  <2> QED
    BY <2>1, <2>4, <2>6, <2>7 DEF Resources!OwnedOnce, F
<1> QED
  BY <1>1, ResourcesInvariant, PTL

(* The cache only holds roots that passed validation, each under its own   *)
(* key, and a usable handle is made of roots of its own penalties that     *)
(* did, however often creating a handle failed before.                     *)
THEOREM ResourcesRootsTrusted ==
    ASSUME MaxPenalties \in Nat
    PROVE  Resources!Spec => []Resources!RootsTrusted
<1>1. ASSUME ResInv PROVE Resources!RootsTrusted
  <2>1. \A k \in DOMAIN cache : cache[k].key = k /\ cache[k].good
    BY <1>1 DEF ResInv, RootInv
  <2>2. ASSUME resourcesHandle = "usable", NEW i \in DOMAIN setup
        PROVE  roots[i] = [key |-> setup[i], good |-> TRUE]
    <3>1. /\ roots \in Seq([key : Keys, good : BOOLEAN]) /\ setup \in Seq(Keys)
          /\ Len(roots) = Len(setup)
          /\ \A j \in DOMAIN roots : roots[j].good /\ roots[j].key = setup[j]
      BY <1>1, <2>2 DEF ResInv, ResTypeOK, RootInv
    <3>2. i \in DOMAIN roots
      BY <3>1
    <3>3. \A j \in DOMAIN roots : roots[j] \in [key : Keys, good : BOOLEAN]
      <4> DEFINE S == [key : Keys, good : BOOLEAN]
      <4>1. roots \in Seq(S)
        BY <3>1
      <4> HIDE DEF S
      <4>2. \A j \in DOMAIN roots : roots[j] \in S
        BY <4>1
      <4> QED
        BY <4>2 DEF S
    <3> DEFINE r == roots[i]
    <3>4. r \in [key : Keys, good : BOOLEAN] /\ r.good /\ r.key = setup[i]
      BY <3>1, <3>2, <3>3
    <3> HIDE DEF r
    <3>5. r = [key |-> setup[i], good |-> TRUE]
      BY <3>4
    <3> QED
      BY <3>5 DEF r
  <2> QED
    BY <2>1, <2>2 DEF Resources!RootsTrusted
<1> QED
  BY <1>1, ResourcesInvariant, PTL

(* A context that can still be used has all its arenas, once it has        *)
(* reserved: one that lost an arena halfway can only be torn down.         *)
THEOREM ResourcesUsableIsWhole ==
    ASSUME MaxPenalties \in Nat
    PROVE  Resources!Spec => []Resources!UsableIsWhole
<1>1. ASSUME ResInv PROVE Resources!UsableIsWhole
  <2> SUFFICES ASSUME life = "usable", size > 0, NEW a \in DOMAIN resourcesArena
               PROVE  resourcesArena[a] \in heap.alive \ heap.unknown
    BY DEF Resources!UsableIsWhole
  <2>1. resourcesArena[a] # 0
    BY <1>1 DEF ResInv, ResTypeOK, PhaseInv
  <2>2. Ptr("arena", a, resourcesArena[a]) \in Owned
    BY <2>1 DEF Owned, OwnedBy, Ptrs
  <2> QED
    BY <1>1, <2>2, PtrIs DEF ResInv, Sound, Ids, LiveIn
<1> QED
  BY <1>1, ResourcesInvariant, PTL

(* What the run checks of the allocations is the three together.           *)
THEOREM ResourcesSound ==
    ASSUME MaxPenalties \in Nat
    PROVE  Resources!Spec => []OwnedOnce
<1>1. Resources!OwnedOnce /\ Resources!RootsTrusted /\ Resources!UsableIsWhole => OwnedOnce
  BY DEF OwnedOnce
<1> QED
  BY <1>1, ResourcesOwnedOnce, ResourcesRootsTrusted, ResourcesUsableIsWhole, PTL

-----------------------------------------------------------------------------
(* The persistent setups.                                                  *)

(* An unreleased token is of its setup's last batch and leases the slot,   *)
(* which still holds what that batch wrote.                                *)
TokensTruthful ==
    \A k \in DOMAIN preparedToken :
        /\ preparedToken[k].generation \in 1 .. preparedSetup[preparedToken[k].owner].generation
        /\ ~preparedToken[k].released =>
              /\ preparedToken[k].held
              /\ preparedToken[k].generation = preparedSetup[preparedToken[k].owner].generation
              /\ preparedSetup[preparedToken[k].owner].leased
              /\ preparedSetup[preparedToken[k].owner].content = preparedToken[k].generation

(* No two batches of a setup have the same generation.                     *)
TokensDistinct ==
    \A k, l \in DOMAIN preparedToken :
        preparedToken[k].owner = preparedToken[l].owner /\ preparedToken[k].generation = preparedToken[l].generation
            => k = l

LeasesOwned ==
    \A h \in Setups :
        preparedSetup[h].leased =>
            \E k \in DOMAIN preparedToken : preparedToken[k].owner = h /\ ~preparedToken[k].released

(* A request that has no result yet finds its slot free, and is claimed by *)
(* one worker.                                                             *)
RequestsFree ==
    /\ DOMAIN call.setups = DOMAIN call.requests
    /\ IsInjective(call.requests)
    /\ \A i \in DOMAIN call.requests :
          /\ call.setups[i] = 0 => ~preparedSetup[call.requests[i]].leased
          /\ i >= call.next => call.setups[i] = 0
          /\ call.setups[i] # 0 => call.setups[i] \in DOMAIN preparedToken
    /\ \A w \in Workers :
          call.claim[w] # 0 =>
              /\ call.claim[w] \in DOMAIN call.requests
              /\ call.claim[w] < call.next
              /\ call.setups[call.claim[w]] = 0
    /\ \A v, w \in Workers :
          call.claim[v] = call.claim[w] /\ call.claim[v] # 0 => v = w

PreparedInv ==
    /\ Prepared!TypeOK
    /\ TokensTruthful /\ TokensDistinct /\ LeasesOwned /\ RequestsFree

-----------------------------------------------------------------------------

(* The operators of the libraries are the same through the instance.       *)
LEMMA SameLibrary ==
    ASSUME NEW S
    PROVE  /\ Prepared!Cardinality(S) = Cardinality(S)
           /\ Prepared!IsFiniteSet(S) <=> IsFiniteSet(S)
           /\ Prepared!IsInjective(S) <=> IsInjective(S)
           /\ \A n : Prepared!BoundedSeq(S, n) = BoundedSeq(S, n)
<1>1. Prepared!Cardinality(S) = Cardinality(S)
  BY Zenon DEF Prepared!Cardinality, Cardinality
<1>2. Prepared!IsFiniteSet(S) <=> IsFiniteSet(S)
  BY DEF Prepared!IsFiniteSet, IsFiniteSet
<1>3. Prepared!IsInjective(S) <=> IsInjective(S)
  BY DEF Prepared!IsInjective, IsInjective
<1>4. \A n : Prepared!BoundedSeq(S, n) = BoundedSeq(S, n)
  BY DEF Prepared!BoundedSeq, BoundedSeq, Prepared!SeqOf, SeqOf
<1> QED
  BY <1>1, <1>2, <1>3, <1>4

(* The lease of a setup that was free goes to the token its batch makes.   *)
LEMMA LeasedKeeps ==
    ASSUME Prepared!TypeOK, TokensTruthful, TokensDistinct, LeasesOwned,
           NEW h \in Setups, ~preparedSetup[h].leased, Prepared!Leased(h)
    PROVE  /\ preparedSetup' \in [Setups -> Prepared!SetupRecord]
           /\ preparedToken' \in Seq(Prepared!TokenRecord)
           /\ TokensTruthful' /\ TokensDistinct' /\ LeasesOwned'
           /\ DOMAIN preparedToken' = 1 .. Len(preparedToken) + 1
           /\ DOMAIN preparedToken \subseteq DOMAIN preparedToken'
           /\ \A g \in Setups \ {h} : preparedSetup'[g] = preparedSetup[g]
<1> DEFINE g == preparedSetup[h].generation + 1
           t == [owner |-> h, generation |-> g, released |-> FALSE, held |-> TRUE]
           s == [preparedSetup[h] EXCEPT !.generation = g, !.leased = TRUE, !.content = g]
<1>1. preparedSetup[h] \in Prepared!SetupRecord /\ g \in Nat /\ g > 0
  BY DEF Prepared!TypeOK, Prepared!SetupRecord
<1>2. /\ preparedSetup' = [preparedSetup EXCEPT ![h] = s]
      /\ preparedToken' = Append(preparedToken, t)
  BY DEF Prepared!Leased
<1>3. /\ s \in Prepared!SetupRecord /\ s.generation = g /\ s.leased /\ s.content = g
      /\ t \in Prepared!TokenRecord
  BY <1>1 DEF Prepared!SetupRecord, Prepared!TokenRecord
<1>4. preparedSetup' \in [Setups -> Prepared!SetupRecord] /\ preparedToken' \in Seq(Prepared!TokenRecord)
  BY <1>2, <1>3 DEF Prepared!TypeOK
<1>5. /\ preparedSetup'[h] = s
      /\ \A q \in Setups \ {h} : preparedSetup'[q] = preparedSetup[q]
  BY <1>2 DEF Prepared!TypeOK
<1>6. /\ DOMAIN preparedToken' = 1 .. Len(preparedToken) + 1 /\ Len(preparedToken) \in Nat
      /\ DOMAIN preparedToken = 1 .. Len(preparedToken)
      /\ preparedToken'[Len(preparedToken) + 1] = t
      /\ \A k \in DOMAIN preparedToken : preparedToken'[k] = preparedToken[k]
  BY <1>2 DEF Prepared!TypeOK
<1>7. \A k \in DOMAIN preparedToken : preparedToken[k] \in Prepared!TokenRecord
  BY DEF Prepared!TypeOK
<1>8. \A k \in DOMAIN preparedToken : preparedToken[k].owner = h => preparedToken[k].released
  BY DEF TokensTruthful
<1>9. t.owner = h /\ t.generation = g /\ ~t.released /\ t.held
  OBVIOUS
<1> HIDE DEF s, t, g
<1>10. \A k \in DOMAIN preparedToken : preparedToken[k].owner = h => preparedToken[k].generation < g
  <2> SUFFICES ASSUME NEW k \in DOMAIN preparedToken, preparedToken[k].owner = h
               PROVE  preparedToken[k].generation < g
    OBVIOUS
  <2>1. preparedToken[k].generation \in 1 .. preparedSetup[h].generation
    BY DEF TokensTruthful
  <2>2. preparedSetup[h].generation \in Nat
    BY <1>1 DEF Prepared!SetupRecord
  <2> QED
    BY <2>1, <2>2 DEF g
<1>11. TokensTruthful'
  <2> SUFFICES ASSUME NEW k \in DOMAIN preparedToken'
               PROVE  /\ preparedToken'[k].generation \in 1 .. preparedSetup'[preparedToken'[k].owner].generation
                      /\ ~preparedToken'[k].released =>
                            /\ preparedToken'[k].held
                            /\ preparedToken'[k].generation = preparedSetup'[preparedToken'[k].owner].generation
                            /\ preparedSetup'[preparedToken'[k].owner].leased
                            /\ preparedSetup'[preparedToken'[k].owner].content = preparedToken'[k].generation
    BY DEF TokensTruthful
  <2>1. CASE k = Len(preparedToken) + 1
    BY <2>1, <1>1, <1>3, <1>5, <1>6, <1>9
  <2>2. CASE k \in DOMAIN preparedToken /\ preparedToken[k].owner = h
    <3>1. preparedToken'[k] = preparedToken[k] /\ preparedToken[k].released /\ preparedToken[k].generation < g
      BY <2>2, <1>6, <1>8, <1>10
    <3>2. preparedToken[k].generation \in 1 .. preparedSetup[h].generation
      BY <2>2 DEF TokensTruthful
    <3>3. preparedSetup'[h].generation = g
      BY <1>3, <1>5
    <3> QED
      BY <2>2, <3>1, <3>2, <3>3, <1>1
  <2>3. CASE k \in DOMAIN preparedToken /\ preparedToken[k].owner # h
    <3>1. preparedToken[k].owner \in Setups \ {h}
      BY <2>3, <1>7 DEF Prepared!TokenRecord
    <3> QED
      BY <3>1, <2>3, <1>5, <1>6 DEF TokensTruthful
  <2> QED
    BY <2>1, <2>2, <2>3, <1>6
<1>12. TokensDistinct'
  <2> SUFFICES ASSUME NEW k \in DOMAIN preparedToken', NEW l \in DOMAIN preparedToken',
                      preparedToken'[k].owner = preparedToken'[l].owner,
                      preparedToken'[k].generation = preparedToken'[l].generation
               PROVE  k = l
    BY DEF TokensDistinct
  <2>1. \A i \in DOMAIN preparedToken : preparedToken[i].owner = h => preparedToken[i].generation # g
    <3>1. \A i \in DOMAIN preparedToken : preparedToken[i].generation \in Nat
      BY <1>7 DEF Prepared!TokenRecord
    <3> QED
      BY <3>1, <1>1, <1>10
  <2>2. CASE k \in DOMAIN preparedToken /\ l \in DOMAIN preparedToken
    BY <2>2, <1>6 DEF TokensDistinct
  <2>3. CASE k \notin DOMAIN preparedToken /\ l \in DOMAIN preparedToken
    BY <2>1, <2>3, <1>6, <1>9
  <2>4. CASE k \in DOMAIN preparedToken /\ l \notin DOMAIN preparedToken
    BY <2>1, <2>4, <1>6, <1>9
  <2>5. CASE k \notin DOMAIN preparedToken /\ l \notin DOMAIN preparedToken
    BY <2>5, <1>6
  <2> QED
    BY <2>2, <2>3, <2>4, <2>5
<1>13. LeasesOwned'
  <2> SUFFICES ASSUME NEW q \in Setups, preparedSetup'[q].leased
               PROVE  \E k \in DOMAIN preparedToken' : preparedToken'[k].owner = q /\ ~preparedToken'[k].released
    BY DEF LeasesOwned
  <2>1. CASE q = h
    BY <2>1, <1>6, <1>9
  <2>2. CASE q # h
    <3>1. preparedSetup[q].leased
      BY <2>2, <1>5
    <3>2. PICK k \in DOMAIN preparedToken : preparedToken[k].owner = q /\ ~preparedToken[k].released
      BY <3>1 DEF LeasesOwned
    <3> QED
      BY <3>2, <1>6
  <2> QED
    BY <2>1, <2>2
<1>14. DOMAIN preparedToken \subseteq DOMAIN preparedToken'
  BY <1>6
<1> QED
  BY <1>4, <1>5, <1>6, <1>11, <1>12, <1>13, <1>14

(* A batch that fails spoils a slot nobody has leased.                     *)
LEMMA SpoiledKeeps ==
    ASSUME Prepared!TypeOK, TokensTruthful, TokensDistinct, LeasesOwned,
           NEW h \in Setups, ~preparedSetup[h].leased, Prepared!Spoiled(h)
    PROVE  /\ preparedSetup' \in [Setups -> Prepared!SetupRecord]
           /\ failures' \in Nat
           /\ TokensTruthful' /\ TokensDistinct' /\ LeasesOwned'
           /\ \A q \in Setups : preparedSetup'[q].leased = preparedSetup[q].leased
<1> DEFINE s == [preparedSetup[h] EXCEPT !.content = Prepared!Garbage]
<1>1. preparedSetup[h] \in Prepared!SetupRecord
  BY DEF Prepared!TypeOK
<1>2. preparedSetup' = [preparedSetup EXCEPT ![h] = s] /\ preparedToken' = preparedToken /\ failures' = failures + 1
  BY DEF Prepared!Spoiled
<1>3. /\ s \in Prepared!SetupRecord /\ s.generation = preparedSetup[h].generation
      /\ s.leased = preparedSetup[h].leased
  BY <1>1 DEF Prepared!SetupRecord, Prepared!Garbage
<1> HIDE DEF s
<1>4. preparedSetup'[h] = s /\ \A q \in Setups \ {h} : preparedSetup'[q] = preparedSetup[q]
  BY <1>2 DEF Prepared!TypeOK
<1>5. /\ preparedSetup' \in [Setups -> Prepared!SetupRecord]
      /\ failures' \in Nat
  BY <1>2, <1>3 DEF Prepared!TypeOK
<1>6. /\ \A q \in Setups : /\ preparedSetup'[q].leased = preparedSetup[q].leased
                            /\ preparedSetup'[q].generation = preparedSetup[q].generation
      /\ \A k \in DOMAIN preparedToken : preparedToken[k].owner \in Setups
  <2>1. \A k \in DOMAIN preparedToken : preparedToken[k] \in Prepared!TokenRecord
    BY DEF Prepared!TypeOK
  <2> QED
    BY <2>1, <1>3, <1>4 DEF Prepared!TokenRecord
<1>7. \A k \in DOMAIN preparedToken : ~preparedToken[k].released => preparedToken[k].owner # h
  BY DEF TokensTruthful
<1>8. TokensTruthful'
  <2> SUFFICES ASSUME NEW k \in DOMAIN preparedToken
               PROVE  /\ preparedToken[k].generation \in 1 .. preparedSetup'[preparedToken[k].owner].generation
                      /\ ~preparedToken[k].released =>
                            /\ preparedToken[k].held
                            /\ preparedToken[k].generation = preparedSetup'[preparedToken[k].owner].generation
                            /\ preparedSetup'[preparedToken[k].owner].leased
                            /\ preparedSetup'[preparedToken[k].owner].content = preparedToken[k].generation
    BY <1>2 DEF TokensTruthful
  <2>1. preparedToken[k].generation \in 1 .. preparedSetup'[preparedToken[k].owner].generation
    BY <1>6 DEF TokensTruthful
  <2>2. ASSUME ~preparedToken[k].released
        PROVE  /\ preparedToken[k].held
               /\ preparedToken[k].generation = preparedSetup'[preparedToken[k].owner].generation
               /\ preparedSetup'[preparedToken[k].owner].leased
               /\ preparedSetup'[preparedToken[k].owner].content = preparedToken[k].generation
    <3>1. preparedSetup'[preparedToken[k].owner] = preparedSetup[preparedToken[k].owner]
      BY <2>2, <1>4, <1>6, <1>7
    <3> QED
      BY <2>2, <3>1 DEF TokensTruthful
  <2> QED
    BY <2>1, <2>2
<1>9. TokensDistinct'
  BY <1>2 DEF TokensDistinct
<1>10. LeasesOwned'
  BY <1>2, <1>6 DEF LeasesOwned
<1> QED
  BY <1>5, <1>6, <1>8, <1>9, <1>10

(* A token that is given up ends the lease it has, and no other.           *)
LEMMA LeaseEnds ==
    ASSUME Prepared!TypeOK, TokensTruthful, TokensDistinct, LeasesOwned,
           NEW k \in DOMAIN preparedToken, NEW r \in Prepared!TokenRecord,
           r.owner = preparedToken[k].owner, r.generation = preparedToken[k].generation, r.released,
           preparedSetup' = Prepared!Unleased(k, preparedSetup), preparedToken' = [preparedToken EXCEPT ![k] = r]
    PROVE  /\ preparedSetup' \in [Setups -> Prepared!SetupRecord]
           /\ preparedToken' \in Seq(Prepared!TokenRecord)
           /\ TokensTruthful' /\ TokensDistinct' /\ LeasesOwned'
<1> DEFINE h == preparedToken[k].owner
           s == [preparedSetup[h] EXCEPT !.leased = FALSE]
<1>1. /\ \A i \in DOMAIN preparedToken : preparedToken[i] \in Prepared!TokenRecord
      /\ \A i \in DOMAIN preparedToken : preparedToken[i].owner \in Setups
      /\ h \in Setups /\ preparedSetup[h] \in Prepared!SetupRecord
  <2>1. \A i \in DOMAIN preparedToken : preparedToken[i] \in Prepared!TokenRecord
    BY DEF Prepared!TypeOK
  <2>2. \A i \in DOMAIN preparedToken : preparedToken[i].owner \in Setups
    BY <2>1 DEF Prepared!TokenRecord
  <2> QED
    BY <2>1, <2>2 DEF Prepared!TypeOK
<1>2. /\ s \in Prepared!SetupRecord /\ ~s.leased
      /\ s.generation = preparedSetup[h].generation /\ s.content = preparedSetup[h].content
  BY <1>1 DEF Prepared!SetupRecord
<1>3. /\ DOMAIN preparedToken' = DOMAIN preparedToken
      /\ preparedToken'[k] = r
      /\ \A i \in DOMAIN preparedToken \ {k} : preparedToken'[i] = preparedToken[i]
      /\ preparedToken' \in Seq(Prepared!TokenRecord)
  BY DEF Prepared!TypeOK
<1>4. \/ preparedToken[k].released /\ preparedSetup' = preparedSetup
      \/ ~preparedToken[k].released /\ preparedSetup' = [preparedSetup EXCEPT ![h] = s]
  BY DEF Prepared!Unleased, TokensTruthful
<1> HIDE DEF s
<1>5. TokensDistinct'
  <2>1. \A i \in DOMAIN preparedToken : /\ preparedToken'[i].owner = preparedToken[i].owner
                                /\ preparedToken'[i].generation = preparedToken[i].generation
    BY <1>3
  <2> QED
    BY <2>1, <1>3 DEF TokensDistinct
<1>6. CASE preparedToken[k].released /\ preparedSetup' = preparedSetup
  <2>1. TokensTruthful'
    <3> SUFFICES ASSUME NEW i \in DOMAIN preparedToken
                 PROVE  /\ preparedToken'[i].generation \in 1 .. preparedSetup[preparedToken'[i].owner].generation
                        /\ ~preparedToken'[i].released =>
                              /\ preparedToken'[i].held
                              /\ preparedToken'[i].generation = preparedSetup[preparedToken'[i].owner].generation
                              /\ preparedSetup[preparedToken'[i].owner].leased
                              /\ preparedSetup[preparedToken'[i].owner].content = preparedToken'[i].generation
      BY <1>3, <1>6 DEF TokensTruthful
    <3>1. CASE i = k
      BY <3>1, <1>3 DEF TokensTruthful
    <3>2. CASE i # k
      BY <3>2, <1>3 DEF TokensTruthful
    <3> QED
      BY <3>1, <3>2
  <2>2. LeasesOwned'
    <3> SUFFICES ASSUME NEW q \in Setups, preparedSetup[q].leased
                 PROVE  \E i \in DOMAIN preparedToken : preparedToken'[i].owner = q /\ ~preparedToken'[i].released
      BY <1>3, <1>6 DEF LeasesOwned
    <3>1. PICK i \in DOMAIN preparedToken : preparedToken[i].owner = q /\ ~preparedToken[i].released
      BY DEF LeasesOwned
    <3>2. i # k
      BY <3>1, <1>6
    <3> QED
      BY <3>1, <3>2, <1>3
  <2> QED
    BY <2>1, <2>2, <1>3, <1>5, <1>6 DEF Prepared!TypeOK
<1>7. CASE ~preparedToken[k].released /\ preparedSetup' = [preparedSetup EXCEPT ![h] = s]
  <2>1. /\ preparedSetup'[h] = s
        /\ \A q \in Setups \ {h} : preparedSetup'[q] = preparedSetup[q]
        /\ preparedSetup' \in [Setups -> Prepared!SetupRecord]
    BY <1>1, <1>2, <1>7 DEF Prepared!TypeOK
  <2>2. \A i \in DOMAIN preparedToken \ {k} : ~preparedToken[i].released => preparedToken[i].owner # h
    <3> SUFFICES ASSUME NEW i \in DOMAIN preparedToken \ {k}, ~preparedToken[i].released,
                        preparedToken[i].owner = h
                 PROVE  FALSE
      OBVIOUS
    <3>1. preparedToken[i].generation = preparedSetup[h].generation
      BY DEF TokensTruthful
    <3>2. preparedToken[k].generation = preparedSetup[h].generation
      BY <1>7 DEF TokensTruthful
    <3> QED
      BY <3>1, <3>2 DEF TokensDistinct
  <2>3. \A q \in Setups : preparedSetup'[q].generation = preparedSetup[q].generation
    BY <2>1, <1>2
  <2>4. TokensTruthful'
    <3> SUFFICES ASSUME NEW i \in DOMAIN preparedToken
                 PROVE  /\ preparedToken'[i].generation \in 1 .. preparedSetup'[preparedToken'[i].owner].generation
                        /\ ~preparedToken'[i].released =>
                              /\ preparedToken'[i].held
                              /\ preparedToken'[i].generation = preparedSetup'[preparedToken'[i].owner].generation
                              /\ preparedSetup'[preparedToken'[i].owner].leased
                              /\ preparedSetup'[preparedToken'[i].owner].content = preparedToken'[i].generation
      BY <1>3 DEF TokensTruthful
    <3>1. CASE i = k
      BY <3>1, <1>1, <1>3, <2>3 DEF TokensTruthful
    <3>2. CASE i # k /\ preparedToken[i].owner # h
      <4>1. preparedSetup'[preparedToken[i].owner] = preparedSetup[preparedToken[i].owner]
        BY <3>2, <1>1, <2>1
      <4> QED
        BY <3>2, <4>1, <1>3 DEF TokensTruthful
    <3>3. CASE i # k /\ preparedToken[i].owner = h
      BY <3>3, <1>1, <1>3, <2>2, <2>3 DEF TokensTruthful
    <3> QED
      BY <3>1, <3>2, <3>3
  <2>5. LeasesOwned'
    <3> SUFFICES ASSUME NEW q \in Setups, preparedSetup'[q].leased
                 PROVE  \E i \in DOMAIN preparedToken : preparedToken'[i].owner = q /\ ~preparedToken'[i].released
      BY <1>3 DEF LeasesOwned
    <3>1. q # h /\ preparedSetup[q].leased
      BY <2>1, <1>2
    <3>2. PICK i \in DOMAIN preparedToken : preparedToken[i].owner = q /\ ~preparedToken[i].released
      BY <3>1 DEF LeasesOwned
    <3>3. i # k
      BY <3>1, <3>2
    <3> QED
      BY <3>2, <3>3, <1>3
  <2> QED
    BY <2>1, <2>4, <2>5, <1>3, <1>5
<1> QED
  BY <1>4, <1>6, <1>7

-----------------------------------------------------------------------------

LEMMA NoCallFree ==
    ASSUME call = Prepared!NoCall
    PROVE  call \in Prepared!CallRecord /\ RequestsFree
BY DEF Prepared!NoCall, Prepared!CallRecord, RequestsFree, IsInjective

(* Between calls nothing depends on the leases.                            *)
LEMMA IdleFree ==
    ASSUME call = Prepared!NoCall, UNCHANGED call
    PROVE  call' \in Prepared!CallRecord /\ RequestsFree'
BY DEF Prepared!NoCall, Prepared!CallRecord, RequestsFree, IsInjective

LEMMA PreparedInitInv ==
    ASSUME Prepared!Init
    PROVE  PreparedInv
<1>1. call \in Prepared!CallRecord /\ RequestsFree
  BY NoCallFree DEF Prepared!Init
<1>2. /\ preparedSetup \in [Setups -> Prepared!SetupRecord]
      /\ preparedToken \in Seq(Prepared!TokenRecord) /\ failures \in Nat
  BY DEF Prepared!Init, Prepared!SetupRecord, Prepared!Garbage
<1>3. DOMAIN preparedToken = {} /\ \A h \in Setups : ~preparedSetup[h].leased
  BY DEF Prepared!Init
<1> QED
  BY <1>1, <1>2, <1>3
  DEF PreparedInv, Prepared!TypeOK, TokensTruthful, TokensDistinct, LeasesOwned

(* A step that changes neither lease, generation nor content.              *)
LEMMA HoldKeeps ==
    ASSUME PreparedInv, Prepared!Idle, NEW h \in Setups,
           \/ Prepared!prepared_create(h)
           \/ Prepared!prepared_free(h)
    PROVE  PreparedInv'
<1> DEFINE same == \A q \in Setups :
                      /\ preparedSetup'[q].leased = preparedSetup[q].leased
                      /\ preparedSetup'[q].generation = preparedSetup[q].generation
                      /\ preparedSetup'[q].content = preparedSetup[q].content
<1>1. /\ preparedSetup[h] \in Prepared!SetupRecord
      /\ \A k \in DOMAIN preparedToken : preparedToken[k].owner \in Setups
  <2>1. \A k \in DOMAIN preparedToken : preparedToken[k] \in Prepared!TokenRecord
    BY DEF PreparedInv, Prepared!TypeOK
  <2> QED
    BY <2>1 DEF PreparedInv, Prepared!TypeOK, Prepared!TokenRecord
<1>2. PICK s \in Prepared!SetupRecord :
        /\ preparedSetup' = [preparedSetup EXCEPT ![h] = s]
        /\ s.leased = preparedSetup[h].leased /\ s.generation = preparedSetup[h].generation
        /\ s.content = preparedSetup[h].content
  <2>1. CASE Prepared!prepared_create(h)
    <3> DEFINE s == [preparedSetup[h] EXCEPT !.made = TRUE, !.held = TRUE]
    <3>1. s \in Prepared!SetupRecord /\ s.leased = preparedSetup[h].leased
          /\ s.generation = preparedSetup[h].generation /\ s.content = preparedSetup[h].content
      BY <1>1 DEF Prepared!SetupRecord
    <3>2. preparedSetup' = [preparedSetup EXCEPT ![h] = s]
      BY <2>1 DEF Prepared!prepared_create, PreparedInv, Prepared!TypeOK
    <3> QED
      BY <3>1, <3>2
  <2>2. CASE Prepared!prepared_free(h)
    <3> DEFINE s == [preparedSetup[h] EXCEPT !.held = FALSE]
    <3>1. s \in Prepared!SetupRecord /\ s.leased = preparedSetup[h].leased
          /\ s.generation = preparedSetup[h].generation /\ s.content = preparedSetup[h].content
      BY <1>1 DEF Prepared!SetupRecord
    <3>2. preparedSetup' = [preparedSetup EXCEPT ![h] = s]
      BY <2>2 DEF Prepared!prepared_free
    <3> QED
      BY <3>1, <3>2
  <2> QED
    BY <2>1, <2>2
<1>3. same /\ preparedSetup' \in [Setups -> Prepared!SetupRecord]
  BY <1>2 DEF PreparedInv, Prepared!TypeOK
<1>4. UNCHANGED <<preparedToken, call, failures>>
  BY DEF Prepared!prepared_create, Prepared!prepared_free
<1>5. call' \in Prepared!CallRecord /\ RequestsFree'
  BY <1>4, IdleFree DEF Prepared!Idle
<1>6. TokensTruthful'
  BY <1>1, <1>3, <1>4 DEF PreparedInv, TokensTruthful
<1>7. TokensDistinct' /\ LeasesOwned'
  BY <1>3, <1>4 DEF PreparedInv, TokensDistinct, LeasesOwned
<1> QED
  BY <1>3, <1>4, <1>5, <1>6, <1>7 DEF PreparedInv, Prepared!TypeOK

LEMMA BatchKeeps ==
    ASSUME PreparedInv, NEW h \in Setups, Prepared!Batch(h)
    PROVE  PreparedInv'
<1>1. /\ Prepared!TypeOK /\ TokensTruthful /\ TokensDistinct /\ LeasesOwned
      /\ ~preparedSetup[h].leased /\ call = Prepared!NoCall /\ UNCHANGED call
  BY DEF PreparedInv, Prepared!Batch, Prepared!Idle
<1>2. call' \in Prepared!CallRecord /\ RequestsFree'
  BY <1>1, IdleFree
<1>3. CASE Prepared!Leased(h)
  <2>1. failures' \in Nat
    BY <1>3 DEF Prepared!Leased, PreparedInv, Prepared!TypeOK
  <2> QED
    BY <1>1, <1>2, <1>3, <2>1, LeasedKeeps DEF PreparedInv, Prepared!TypeOK
<1>4. CASE Prepared!Spoiled(h)
  <2>1. preparedToken' \in Seq(Prepared!TokenRecord)
    BY <1>4 DEF Prepared!Spoiled, PreparedInv, Prepared!TypeOK
  <2> QED
    BY <1>1, <1>2, <1>4, <2>1, SpoiledKeeps DEF PreparedInv, Prepared!TypeOK
<1> QED
  BY <1>3, <1>4 DEF Prepared!Batch

LEMMA GiveUpKeeps ==
    ASSUME PreparedInv, NEW k \in DOMAIN preparedToken,
           Prepared!residual_release(k) \/ Prepared!residual_free(k)
    PROVE  PreparedInv'
<1>1. preparedToken[k] \in Prepared!TokenRecord
  BY DEF PreparedInv, Prepared!TypeOK
<1>2. PICK r \in Prepared!TokenRecord :
        /\ r.owner = preparedToken[k].owner /\ r.generation = preparedToken[k].generation
        /\ r.released /\ preparedToken' = [preparedToken EXCEPT ![k] = r]
  <2>1. CASE Prepared!residual_release(k)
    <3> DEFINE r == [preparedToken[k] EXCEPT !.released = TRUE]
    <3>1. r \in Prepared!TokenRecord /\ r.owner = preparedToken[k].owner
          /\ r.generation = preparedToken[k].generation /\ r.released
      BY <1>1 DEF Prepared!TokenRecord
    <3>2. preparedToken' = [preparedToken EXCEPT ![k] = r]
      BY <2>1 DEF Prepared!residual_release
    <3> QED
      BY <3>1, <3>2
  <2>2. CASE Prepared!residual_free(k)
    <3> DEFINE r == [preparedToken[k] EXCEPT !.released = TRUE, !.held = FALSE]
    <3>1. r \in Prepared!TokenRecord /\ r.owner = preparedToken[k].owner
          /\ r.generation = preparedToken[k].generation /\ r.released
      BY <1>1 DEF Prepared!TokenRecord
    <3>2. preparedToken' = [preparedToken EXCEPT ![k] = r]
      BY <2>2 DEF Prepared!residual_free
    <3> QED
      BY <3>1, <3>2
  <2> QED
    BY <2>1, <2>2
<1>3. /\ preparedSetup' = Prepared!Unleased(k, preparedSetup) /\ call = Prepared!NoCall
      /\ UNCHANGED <<call, failures>>
  BY DEF Prepared!residual_release, Prepared!residual_free, Prepared!Idle
<1>4. call' \in Prepared!CallRecord /\ RequestsFree'
  BY <1>3, IdleFree
<1>5. /\ preparedSetup' \in [Setups -> Prepared!SetupRecord]
      /\ preparedToken' \in Seq(Prepared!TokenRecord)
      /\ TokensTruthful' /\ TokensDistinct' /\ LeasesOwned'
  BY <1>2, <1>3, LeaseEnds DEF PreparedInv
<1> QED
  BY <1>3, <1>4, <1>5 DEF PreparedInv, Prepared!TypeOK

-----------------------------------------------------------------------------
(* The steps of optimize_multi.                                            *)

LEMMA OptimizeMultiKeeps ==
    ASSUME PreparedInv, IsFiniteSet(Setups),
           NEW requests \in BoundedSeq(Setups, Cardinality(Setups)),
           Prepared!optimize_multi(requests)
    PROVE  PreparedInv'
<1>1. requests \in Seq(Setups)
  <2>1. Cardinality(Setups) \in Nat
    BY FS_CardinalityType
  <2>2. PICK n \in 0 .. Cardinality(Setups) : requests \in [1 .. n -> Setups]
    BY DEF BoundedSeq, SeqOf
  <2> QED
    BY <2>1, <2>2
<1> DEFINE zeros == [i \in DOMAIN requests |-> 0]
           none == [w \in Workers |-> 0]
<1>2. call' = [requests |-> requests, next |-> 1, cancelled |-> FALSE,
               error |-> FALSE, setups |-> zeros, claim |-> none]
  BY DEF Prepared!optimize_multi, Prepared!NoCall
<1>3. zeros \in Seq(Nat) /\ DOMAIN zeros = DOMAIN requests
      /\ \A i \in DOMAIN requests : zeros[i] = 0
  <2>1. DOMAIN requests = 1 .. Len(requests) /\ Len(requests) \in Nat
    BY <1>1
  <2> QED
    BY <2>1
<1>4. none \in [Workers -> Nat] /\ \A w \in Workers : none[w] = 0
  OBVIOUS
<1> HIDE DEF zeros, none
<1>5. /\ call'.requests = requests /\ call'.next = 1
      /\ call'.setups = zeros /\ call'.claim = none
      /\ call' \in Prepared!CallRecord
  BY <1>1, <1>2, <1>3, <1>4 DEF Prepared!CallRecord
<1>6. UNCHANGED <<preparedSetup, preparedToken, failures>>
  BY DEF Prepared!optimize_multi
<1>7. /\ IsInjective(requests)
      /\ \A i \in DOMAIN requests : ~preparedSetup[requests[i]].leased
  BY SameLibrary DEF Prepared!optimize_multi
<1>8. RequestsFree'
  BY <1>3, <1>4, <1>5, <1>6, <1>7 DEF RequestsFree, IsInjective
<1>9. TokensTruthful' /\ TokensDistinct' /\ LeasesOwned'
  BY <1>6 DEF PreparedInv, TokensTruthful, TokensDistinct, LeasesOwned
<1> QED
  BY <1>5, <1>6, <1>8, <1>9 DEF PreparedInv, Prepared!TypeOK

LEMMA ClaimKeeps ==
    ASSUME PreparedInv, NEW w \in Workers, Prepared!Claim(w)
    PROVE  PreparedInv'
<1>1. call \in Prepared!CallRecord
  BY DEF PreparedInv, Prepared!TypeOK
<1>2. /\ call.requests \in Seq(Setups) /\ call.next \in Nat
      /\ call.claim \in [Workers -> Nat]
      /\ DOMAIN call.requests = 1 .. Len(call.requests)
      /\ call.setups \in Seq(Nat)
  BY <1>1 DEF Prepared!CallRecord
<1> DEFINE claims == [call.claim EXCEPT ![w] = call.next]
<1>3. claims \in [Workers -> Nat] /\ claims[w] = call.next
      /\ \A v \in Workers \ {w} : claims[v] = call.claim[v]
  BY <1>2
<1>4. call' = [call EXCEPT !.claim = claims, !.next = call.next + 1]
  BY <1>1 DEF Prepared!Claim, Prepared!CallRecord
<1> DEFINE after == call.next + 1
<1> HIDE DEF claims, after
<1>5. /\ call'.requests = call.requests /\ call'.setups = call.setups
      /\ call'.next = call.next + 1 /\ call'.claim = claims
      /\ call' \in Prepared!CallRecord
  <2>1. after \in Nat /\ after = call.next + 1
    BY <1>2 DEF after
  <2>2. call' = [call EXCEPT !.claim = claims, !.next = after]
    BY <1>4, <2>1
  <2> QED
    BY <1>1, <1>3, <2>1, <2>2 DEF Prepared!CallRecord
<1>6. /\ UNCHANGED <<preparedSetup, preparedToken, failures>>
      /\ call.next <= Len(call.requests) /\ call.claim[w] = 0
  BY DEF Prepared!Claim, Prepared!Working
<1>7. RequestsFree'
  <2>1. \A i \in DOMAIN call.requests :
          /\ call.setups[i] = 0 => ~preparedSetup'[call.requests[i]].leased
          /\ i >= call.next + 1 => call.setups[i] = 0
          /\ call.setups[i] # 0 => call.setups[i] \in DOMAIN preparedToken'
    BY <1>2, <1>6 DEF PreparedInv, RequestsFree
  <2>2. \A v \in Workers :
          claims[v] # 0 => /\ claims[v] \in DOMAIN call.requests
                           /\ claims[v] < call.next + 1
                           /\ call.setups[claims[v]] = 0
    <3> SUFFICES ASSUME NEW v \in Workers, claims[v] # 0
                 PROVE  /\ claims[v] \in DOMAIN call.requests
                        /\ claims[v] < call.next + 1
                        /\ call.setups[claims[v]] = 0
      OBVIOUS
    <3>1. CASE v = w
      BY <3>1, <1>2, <1>3, <1>6 DEF PreparedInv, RequestsFree
    <3>2. CASE v # w
      BY <3>2, <1>2, <1>3 DEF PreparedInv, RequestsFree
    <3> QED
      BY <3>1, <3>2
  <2>3. \A u, v \in Workers : claims[u] = claims[v] /\ claims[u] # 0 => u = v
    <3>1. \A v \in Workers : call.claim[v] # 0 => call.claim[v] < call.next
      BY DEF PreparedInv, RequestsFree
    <3>2. \A v \in Workers : call.claim[v] # call.next \/ call.next = 0
      BY <3>1, <1>2
    <3> QED
      BY <3>2, <1>2, <1>3 DEF PreparedInv, RequestsFree
  <2> QED
    BY <2>1, <2>2, <2>3, <1>5 DEF PreparedInv, RequestsFree
<1>8. TokensTruthful' /\ TokensDistinct' /\ LeasesOwned'
  BY <1>6 DEF PreparedInv, TokensTruthful, TokensDistinct, LeasesOwned
<1> QED
  BY <1>5, <1>6, <1>7, <1>8 DEF PreparedInv, Prepared!TypeOK

(* A worker's batch answers its own request and touches no other slot.     *)
LEMMA RunKeeps ==
    ASSUME PreparedInv, NEW w \in Workers, Prepared!Run(w)
    PROVE  PreparedInv'
<1> DEFINE i == call.claim[w]
           h == call.requests[i]
           claims == [call.claim EXCEPT ![w] = 0]
<1>1. call \in Prepared!CallRecord
  BY DEF PreparedInv, Prepared!TypeOK
<1>2. /\ call.requests \in Seq(Setups) /\ call.next \in Nat
      /\ call.claim \in [Workers -> Nat]
      /\ call.setups \in Seq(Nat)
      /\ DOMAIN call.setups = DOMAIN call.requests
      /\ IsInjective(call.requests)
  BY <1>1 DEF Prepared!CallRecord, PreparedInv, RequestsFree
<1>3. /\ i \in DOMAIN call.requests /\ i < call.next /\ call.setups[i] = 0 /\ i # 0
      /\ h \in Setups /\ ~preparedSetup[h].leased
  <2>1. i \in Nat /\ i > 0
    BY <1>2 DEF Prepared!Run
  <2>2. i \in DOMAIN call.requests /\ i < call.next /\ call.setups[i] = 0
    BY <2>1 DEF PreparedInv, RequestsFree
  <2> QED
    BY <2>1, <2>2, <1>2 DEF PreparedInv, RequestsFree
<1>4. /\ claims \in [Workers -> Nat]
      /\ \A v \in Workers : claims[v] # 0 => /\ claims[v] = call.claim[v] /\ v # w
                                            /\ claims[v] # i
  <2>1. \A v \in Workers \ {w} : claims[v] = call.claim[v]
    BY <1>2
  <2>2. \A v \in Workers \ {w} : call.claim[v] # i
    BY <1>3 DEF PreparedInv, RequestsFree
  <2> QED
    BY <2>1, <2>2, <1>2
<1> HIDE DEF claims
<1>5. \A j \in DOMAIN call.requests \ {i} : call.requests[j] \in Setups \ {h}
  BY <1>2, <1>3 DEF IsInjective
<1>6. CASE /\ Prepared!Leased(h)
           /\ call' = [call EXCEPT !.claim[w] = 0, !.setups[i] = Len(preparedToken) + 1]
  <2> DEFINE results == [call.setups EXCEPT ![i] = Len(preparedToken) + 1]
  <2>1. Len(preparedToken) + 1 \in Nat /\ Len(preparedToken) + 1 # 0
    BY DEF PreparedInv, Prepared!TypeOK
  <2>2. /\ results \in Seq(Nat) /\ DOMAIN results = DOMAIN call.requests
        /\ results[i] = Len(preparedToken) + 1
        /\ \A j \in DOMAIN call.requests \ {i} : results[j] = call.setups[j]
    BY <2>1, <1>2, <1>3
  <2>3. call' = [call EXCEPT !.claim = claims, !.setups = results]
    BY <1>1, <1>6 DEF Prepared!CallRecord, claims
  <2> HIDE DEF results
  <2>4. /\ call'.requests = call.requests /\ call'.setups = results
        /\ call'.next = call.next /\ call'.claim = claims
        /\ call' \in Prepared!CallRecord
    BY <1>1, <1>4, <2>2, <2>3 DEF Prepared!CallRecord
  <2>5. /\ preparedSetup' \in [Setups -> Prepared!SetupRecord]
        /\ preparedToken' \in Seq(Prepared!TokenRecord)
        /\ TokensTruthful' /\ TokensDistinct' /\ LeasesOwned'
        /\ Len(preparedToken) + 1 \in DOMAIN preparedToken' /\ DOMAIN preparedToken \subseteq DOMAIN preparedToken'
        /\ \A g \in Setups \ {h} : preparedSetup'[g] = preparedSetup[g]
    <3>1. Len(preparedToken) + 1 \in 1 .. Len(preparedToken) + 1
      BY <2>1
    <3> QED
      BY <3>1, <1>3, <1>6, LeasedKeeps DEF PreparedInv
  <2>6. failures' = failures
    BY <1>6 DEF Prepared!Leased
  <2>7. \A j \in DOMAIN call.requests :
          /\ results[j] = 0 => ~preparedSetup'[call.requests[j]].leased
          /\ j >= call.next => results[j] = 0
          /\ results[j] # 0 => results[j] \in DOMAIN preparedToken'
    <3> SUFFICES ASSUME NEW j \in DOMAIN call.requests
                 PROVE  /\ results[j] = 0 => ~preparedSetup'[call.requests[j]].leased
                        /\ j >= call.next => results[j] = 0
                        /\ results[j] # 0 => results[j] \in DOMAIN preparedToken'
      OBVIOUS
    <3>1. CASE j = i
      BY <3>1, <2>1, <2>2, <2>5, <1>2, <1>3
    <3>2. CASE j # i
      <4>1. preparedSetup'[call.requests[j]] = preparedSetup[call.requests[j]]
        BY <3>2, <2>5, <1>5
      <4> QED
        BY <3>2, <4>1, <2>2, <2>5 DEF PreparedInv, RequestsFree
    <3> QED
      BY <3>1, <3>2
  <2>8. \A v \in Workers :
          claims[v] # 0 => /\ claims[v] \in DOMAIN call.requests
                           /\ claims[v] < call.next
                           /\ results[claims[v]] = 0
    BY <1>4, <2>2 DEF PreparedInv, RequestsFree
  <2>9. \A u, v \in Workers : claims[u] = claims[v] /\ claims[u] # 0 => u = v
    BY <1>4 DEF PreparedInv, RequestsFree
  <2> QED
    BY <2>2, <2>4, <2>5, <2>6, <2>7, <2>8, <2>9, <1>2
    DEF PreparedInv, Prepared!TypeOK, RequestsFree
<1>7. CASE /\ Prepared!Spoiled(h)
           /\ call' = [call EXCEPT !.claim[w] = 0, !.error = TRUE, !.cancelled = TRUE]
  <2>1. call' = [call EXCEPT !.claim = claims, !.error = TRUE, !.cancelled = TRUE]
    BY <1>1, <1>7 DEF Prepared!CallRecord, claims
  <2>2. /\ call'.requests = call.requests /\ call'.setups = call.setups
        /\ call'.next = call.next /\ call'.claim = claims
        /\ call' \in Prepared!CallRecord
    BY <1>1, <1>4, <2>1 DEF Prepared!CallRecord
  <2>3. /\ preparedSetup' \in [Setups -> Prepared!SetupRecord] /\ failures' \in Nat
        /\ TokensTruthful' /\ TokensDistinct' /\ LeasesOwned'
        /\ \A g \in Setups : preparedSetup'[g].leased = preparedSetup[g].leased
    BY <1>3, <1>7, SpoiledKeeps DEF PreparedInv
  <2>4. preparedToken' = preparedToken
    BY <1>7 DEF Prepared!Spoiled
  <2>5. \A j \in DOMAIN call.requests :
          call.setups[j] = 0 => ~preparedSetup'[call.requests[j]].leased
    BY <2>3, <1>2 DEF PreparedInv, RequestsFree
  <2>6. \A v \in Workers :
          claims[v] # 0 => /\ claims[v] \in DOMAIN call.requests
                           /\ claims[v] < call.next
                           /\ call.setups[claims[v]] = 0
    BY <1>4 DEF PreparedInv, RequestsFree
  <2>7. \A u, v \in Workers : claims[u] = claims[v] /\ claims[u] # 0 => u = v
    BY <1>4 DEF PreparedInv, RequestsFree
  <2> QED
    BY <2>2, <2>3, <2>4, <2>5, <2>6, <2>7 DEF PreparedInv, Prepared!TypeOK, RequestsFree
<1> QED
  BY <1>6, <1>7 DEF Prepared!Run

(* The results of a failed call are destroyed: their leases end, and they  *)
(* are the only ones that do.                                              *)
LEMMA DroppedKeeps ==
    ASSUME Prepared!TypeOK, TokensTruthful, TokensDistinct, LeasesOwned, Prepared!Dropped,
           Prepared!Results \subseteq DOMAIN preparedToken
    PROVE  /\ preparedSetup' \in [Setups -> Prepared!SetupRecord]
           /\ preparedToken' \in Seq(Prepared!TokenRecord)
           /\ TokensTruthful' /\ TokensDistinct' /\ LeasesOwned'
<1> DEFINE Ends(h) == \E k \in Prepared!Results : preparedToken[k].owner = h /\ ~preparedToken[k].released
                                         /\ preparedToken[k].generation = preparedSetup[h].generation
<1>1. /\ \A k \in DOMAIN preparedToken : preparedToken[k] \in Prepared!TokenRecord
      /\ \A k \in DOMAIN preparedToken : preparedToken[k].owner \in Setups
      /\ \A h \in Setups : preparedSetup[h] \in Prepared!SetupRecord
  <2>1. \A k \in DOMAIN preparedToken : preparedToken[k] \in Prepared!TokenRecord
    BY DEF Prepared!TypeOK
  <2> QED
    BY <2>1 DEF Prepared!TypeOK, Prepared!TokenRecord
<1>2. /\ DOMAIN preparedToken' = DOMAIN preparedToken
      /\ \A k \in DOMAIN preparedToken :
            preparedToken'[k] = IF k \in Prepared!Results
                        THEN [preparedToken[k] EXCEPT !.released = TRUE, !.held = FALSE]
                        ELSE preparedToken[k]
  BY DEF Prepared!Dropped
<1>3. \A k \in DOMAIN preparedToken :
        /\ preparedToken'[k] \in Prepared!TokenRecord
        /\ preparedToken'[k].owner = preparedToken[k].owner
        /\ preparedToken'[k].generation = preparedToken[k].generation
        /\ k \in Prepared!Results => preparedToken'[k].released
        /\ k \notin Prepared!Results => preparedToken'[k] = preparedToken[k]
  <2> SUFFICES ASSUME NEW k \in DOMAIN preparedToken
               PROVE  /\ preparedToken'[k] \in Prepared!TokenRecord
                      /\ preparedToken'[k].owner = preparedToken[k].owner
                      /\ preparedToken'[k].generation = preparedToken[k].generation
                      /\ k \in Prepared!Results => preparedToken'[k].released
                      /\ k \notin Prepared!Results => preparedToken'[k] = preparedToken[k]
    OBVIOUS
  <2>1. CASE k \in Prepared!Results
    <3>1. preparedToken'[k] = [preparedToken[k] EXCEPT !.released = TRUE, !.held = FALSE]
      BY <2>1, <1>2
    <3> QED
      BY <2>1, <3>1, <1>1 DEF Prepared!TokenRecord
  <2>2. CASE k \notin Prepared!Results
    BY <2>2, <1>1, <1>2
  <2> QED
    BY <2>1, <2>2
<1>4. preparedToken' \in Seq(Prepared!TokenRecord)
  <2>1. DOMAIN preparedToken = 1 .. Len(preparedToken) /\ Len(preparedToken) \in Nat
    BY DEF Prepared!TypeOK
  <2>2. preparedToken' \in [1 .. Len(preparedToken) -> Prepared!TokenRecord]
    <3>1. preparedToken' = [k \in DOMAIN preparedToken |-> preparedToken'[k]]
      BY DEF Prepared!Dropped
    <3> QED
      BY <3>1, <2>1, <1>3
  <2> QED
    BY <2>1, <2>2
<1>5. \A h \in Setups :
        /\ preparedSetup'[h] \in Prepared!SetupRecord
        /\ preparedSetup'[h].generation = preparedSetup[h].generation
        /\ preparedSetup'[h].content = preparedSetup[h].content
        /\ Ends(h) => ~preparedSetup'[h].leased
        /\ ~Ends(h) => preparedSetup'[h] = preparedSetup[h]
  <2> SUFFICES ASSUME NEW h \in Setups
               PROVE  /\ preparedSetup'[h] \in Prepared!SetupRecord
                      /\ preparedSetup'[h].generation = preparedSetup[h].generation
                      /\ preparedSetup'[h].content = preparedSetup[h].content
                      /\ Ends(h) => ~preparedSetup'[h].leased
                      /\ ~Ends(h) => preparedSetup'[h] = preparedSetup[h]
    OBVIOUS
  <2>1. preparedSetup'[h] = IF Ends(h) THEN [preparedSetup[h] EXCEPT !.leased = FALSE] ELSE preparedSetup[h]
    BY DEF Prepared!Dropped
  <2> HIDE DEF Ends
  <2>2. preparedSetup[h] \in Prepared!SetupRecord
    BY <1>1
  <2> QED
    BY <2>1, <2>2 DEF Prepared!SetupRecord
<1>6. preparedSetup' \in [Setups -> Prepared!SetupRecord]
  <2>1. preparedSetup' = [h \in Setups |-> preparedSetup'[h]]
    BY DEF Prepared!Dropped
  <2> QED
    BY <2>1, <1>5
(* A surviving token's slot is not the one of a dropped lease.             *)
<1>7. \A k \in DOMAIN preparedToken : ~preparedToken'[k].released =>
        ~preparedToken[k].released /\ preparedToken'[k] = preparedToken[k] /\ ~Ends(preparedToken[k].owner)
  <2> SUFFICES ASSUME NEW k \in DOMAIN preparedToken, ~preparedToken'[k].released
               PROVE  ~preparedToken[k].released /\ preparedToken'[k] = preparedToken[k] /\ ~Ends(preparedToken[k].owner)
    OBVIOUS
  <2>1. k \notin Prepared!Results /\ preparedToken'[k] = preparedToken[k] /\ ~preparedToken[k].released
    BY <1>3
  <2>2. preparedToken[k].generation = preparedSetup[preparedToken[k].owner].generation
    BY <2>1 DEF TokensTruthful
  <2>3. ASSUME Ends(preparedToken[k].owner) PROVE FALSE
    <3>1. PICK l \in Prepared!Results :
             preparedToken[l].owner = preparedToken[k].owner /\ ~preparedToken[l].released
            /\ preparedToken[l].generation = preparedSetup[preparedToken[k].owner].generation
      BY <2>3
    <3> QED
      BY <3>1, <2>1, <2>2 DEF TokensDistinct
  <2> QED
    BY <2>1, <2>3
<1> HIDE DEF Ends
<1>8. TokensTruthful'
  <2> SUFFICES ASSUME NEW k \in DOMAIN preparedToken
               PROVE  /\ preparedToken'[k].generation \in 1 .. preparedSetup'[preparedToken'[k].owner].generation
                      /\ ~preparedToken'[k].released =>
                            /\ preparedToken'[k].held
                            /\ preparedToken'[k].generation = preparedSetup'[preparedToken'[k].owner].generation
                            /\ preparedSetup'[preparedToken'[k].owner].leased
                            /\ preparedSetup'[preparedToken'[k].owner].content = preparedToken'[k].generation
    BY <1>2 DEF TokensTruthful
  <2>1. preparedToken[k].owner \in Setups
    BY <1>1
  <2>2. preparedToken'[k].generation \in 1 .. preparedSetup'[preparedToken'[k].owner].generation
    BY <2>1, <1>3, <1>5 DEF TokensTruthful
  <2>3. ASSUME ~preparedToken'[k].released
        PROVE  /\ preparedToken'[k].held
               /\ preparedToken'[k].generation = preparedSetup'[preparedToken'[k].owner].generation
               /\ preparedSetup'[preparedToken'[k].owner].leased
               /\ preparedSetup'[preparedToken'[k].owner].content = preparedToken'[k].generation
    <3>1. ~preparedToken[k].released /\ preparedToken'[k] = preparedToken[k]
          /\ preparedSetup'[preparedToken[k].owner] = preparedSetup[preparedToken[k].owner]
      BY <2>1, <2>3, <1>5, <1>7
    <3> QED
      BY <3>1 DEF TokensTruthful
  <2> QED
    BY <2>2, <2>3
<1>9. TokensDistinct'
  BY <1>2, <1>3 DEF TokensDistinct
<1>10. LeasesOwned'
  <2> SUFFICES ASSUME NEW h \in Setups, preparedSetup'[h].leased
               PROVE  \E k \in DOMAIN preparedToken : preparedToken'[k].owner = h /\ ~preparedToken'[k].released
    BY <1>2 DEF LeasesOwned
  <2>1. ~Ends(h) /\ preparedSetup[h].leased
    BY <1>5
  <2>2. PICK k \in DOMAIN preparedToken : preparedToken[k].owner = h /\ ~preparedToken[k].released
    BY <2>1 DEF LeasesOwned
  <2>3. k \notin Prepared!Results
    <3>1. preparedToken[k].generation = preparedSetup[h].generation
      BY <2>2 DEF TokensTruthful
    <3> QED
      BY <2>1, <2>2, <3>1 DEF Ends
  <2> QED
    BY <2>2, <2>3, <1>3
<1> QED
  BY <1>4, <1>6, <1>8, <1>9, <1>10

LEMMA ReturnKeeps ==
    ASSUME PreparedInv, Prepared!Return
    PROVE  PreparedInv'
<1>1. call' = Prepared!NoCall /\ failures' = failures
  BY DEF Prepared!Return
<1>2. call' \in Prepared!CallRecord /\ RequestsFree'
  BY <1>1 DEF Prepared!NoCall, Prepared!CallRecord, RequestsFree, IsInjective
<1>3. CASE call.error /\ Prepared!Dropped
  <2>1. Prepared!Results \subseteq DOMAIN preparedToken
    BY DEF Prepared!Results, PreparedInv, RequestsFree
  <2> QED
    BY <1>1, <1>2, <1>3, <2>1, DroppedKeeps DEF PreparedInv, Prepared!TypeOK
<1>4. CASE UNCHANGED <<preparedSetup, preparedToken>>
  BY <1>1, <1>2, <1>4
  DEF PreparedInv, Prepared!TypeOK, TokensTruthful, TokensDistinct, LeasesOwned
<1> QED
  BY <1>3, <1>4 DEF Prepared!Return

LEMMA PreparedNextInv ==
    ASSUME PreparedInv, IsFiniteSet(Setups), [Prepared!Next]_(Prepared!vars)
    PROVE  PreparedInv'
<1>1. CASE UNCHANGED Prepared!vars
  BY <1>1
  DEF Prepared!vars, PreparedInv, Prepared!TypeOK, TokensTruthful, TokensDistinct,
      LeasesOwned,
              RequestsFree
<1>2. ASSUME NEW h \in Setups, Prepared!prepared_create(h) \/ Prepared!prepared_free(h)
      PROVE  PreparedInv'
  BY <1>2, HoldKeeps DEF Prepared!prepared_create, Prepared!prepared_free
<1>3. ASSUME NEW h \in Setups,
             Prepared!optimize_batch(h) \/ Prepared!evaluate_fixed_batch(h)
                 \/ Prepared!finalize_selected_coefficients(h)
      PROVE  PreparedInv'
  BY <1>3, BatchKeeps DEF Prepared!optimize_batch, Prepared!evaluate_fixed_batch,
                          Prepared!finalize_selected_coefficients
<1>4. ASSUME NEW k \in DOMAIN preparedToken,
             Prepared!residual_release(k) \/ Prepared!residual_free(k)
      PROVE  PreparedInv'
  BY <1>4, GiveUpKeeps
<1>5. ASSUME NEW requests \in BoundedSeq(Setups, Cardinality(Setups)),
             Prepared!optimize_multi(requests)
      PROVE  PreparedInv'
  BY <1>5, OptimizeMultiKeeps
<1>6. ASSUME NEW w \in Workers, Prepared!Claim(w) \/ Prepared!Run(w)
      PROVE  PreparedInv'
  BY <1>6, ClaimKeeps, RunKeeps
<1>7. CASE Prepared!Return
  BY <1>7, ReturnKeeps
<1> QED
  BY <1>1, <1>2, <1>3, <1>4, <1>5, <1>6, <1>7, SameLibrary DEF Prepared!Next

-----------------------------------------------------------------------------
(* The inductive invariant of the prepared setups, for every number of     *)
(* setups and threads.                                                     *)
THEOREM PreparedInvariant ==
    ASSUME Prepared!PreparedAssumption
    PROVE  Prepared!Spec => []PreparedInv
<1>1. Prepared!Init => PreparedInv
  BY PreparedInitInv
<1>2. PreparedInv /\ [Prepared!Next]_(Prepared!vars) => PreparedInv'
  BY PreparedNextInv, SameLibrary DEF Prepared!PreparedAssumption
<1> QED
  BY <1>1, <1>2, PTL DEF Prepared!Spec

(* A slot is leased exactly while one unreleased token of its generation   *)
(* is held: whatever batch fails, in whatever order R releases, frees and  *)
(* collects, and however the threads of an optimize_multi end.             *)
THEOREM LeaseExact ==
    ASSUME Prepared!PreparedAssumption
    PROVE  Prepared!Spec => []Prepared!LeaseIsHeld
<1>1. ASSUME PreparedInv PROVE Prepared!LeaseIsHeld
  <2> DEFINE Holders(h) == {k \in DOMAIN preparedToken :
                 /\ preparedToken[k].owner = h
                 /\ preparedToken[k].held /\ ~preparedToken[k].released
                 /\ preparedToken[k].generation = preparedSetup[h].generation}
  <2>1. ASSUME NEW h \in Setups
        PROVE  preparedSetup[h].leased <=> Cardinality(Holders(h)) = 1
    <3>1. IsFiniteSet(Holders(h))
      <4>1. DOMAIN preparedToken = 1 .. Len(preparedToken) /\ Len(preparedToken) \in Nat
        BY <1>1 DEF PreparedInv, Prepared!TypeOK
      <4>2. IsFiniteSet(DOMAIN preparedToken)
        BY <4>1, FS_Interval
      <4> QED
        BY <4>2, FS_Subset
    <3>2. ASSUME preparedSetup[h].leased
          PROVE  \E k : Holders(h) = {k}
      <4>1. PICK k \in DOMAIN preparedToken : preparedToken[k].owner = h /\ ~preparedToken[k].released
        BY <1>1, <3>2 DEF PreparedInv, LeasesOwned
      <4>2. k \in Holders(h)
        BY <1>1, <4>1 DEF PreparedInv, TokensTruthful
      <4>3. \A l \in Holders(h) : l = k
        BY <1>1, <4>2 DEF PreparedInv, TokensDistinct
      <4> QED
        BY <4>2, <4>3
    <3>3. ASSUME NEW k, Holders(h) = {k}
          PROVE  preparedSetup[h].leased
      <4>1. k \in Holders(h)
        BY <3>3
      <4> QED
        BY <1>1, <4>1 DEF PreparedInv, TokensTruthful
    <3> HIDE DEF Holders
    <3> QED
      BY <3>1, <3>2, <3>3, FS_Singleton
  <2> QED
    BY <2>1, SameLibrary DEF Prepared!LeaseIsHeld
<1> QED
  BY <1>1, PreparedInvariant, PTL

(* What an unreleased token gives its consumer is what its own batch       *)
(* wrote.                                                                  *)
THEOREM TokensReadOwn ==
    ASSUME Prepared!PreparedAssumption
    PROVE  Prepared!Spec => []Prepared!TokenReadsOwn
<1>1. PreparedInv => Prepared!TokenReadsOwn
  BY DEF PreparedInv, TokensTruthful, Prepared!TokenReadsOwn, Prepared!Live
<1> QED
  BY <1>1, PreparedInvariant, PTL

(* What the run checks of the leases is the two together.                  *)
THEOREM PreparedSound ==
    ASSUME Prepared!PreparedAssumption
    PROVE  Prepared!Spec => []LeaseIsHeld
<1>1. Prepared!LeaseIsHeld /\ Prepared!TokenReadsOwn => LeaseIsHeld
  BY DEF LeaseIsHeld
<1> QED
  BY <1>1, LeaseExact, TokensReadOwn, PTL

-----------------------------------------------------------------------------
(* R's pointers to device objects.                                        *)

Lives == {"usable", "teardown", "freed", "none"}
PointerRecord ==
    [kind : Handle!Kinds, holder : BOOLEAN, value : Nat, counted : BOOLEAN]

HandleTypes ==
    /\ object \in Seq([kind : Handle!Kinds, parent : Nat])
    /\ handleLife \in [Handle!Processes -> [DOMAIN object -> Lives]]
    /\ torn \in [Handle!Processes -> [DOMAIN object -> Nat]]
    /\ lease \in [Handle!Processes -> [DOMAIN object -> Nat]]
    /\ pointer \in [Handle!Processes -> Seq(PointerRecord)]
    /\ owners \in [Handle!Processes -> [Handle!Counted -> Nat]]

(* What an object may be made from.                                        *)
Made(o) ==
    LET maker == object[o].parent
        From(kind) == maker \in DOMAIN object /\ object[maker].kind = kind
    IN  CASE object[o].kind = "prepared" -> From("runtime")
          [] object[o].kind = "residual" -> From("prepared")
          [] object[o].kind = "mp_residual" -> From("mp_prepared")
          [] OTHER -> maker = 0

ObjectsInv ==
    \A o \in DOMAIN object :
        Made(o) /\ (object[o].kind = "matvec" <=> family = "matvec")

(* A counted pointer has a holder and a kind that is counted; a live value *)
(* is an object of the pointer's kind, and counted when its kind is.       *)
PointerInv(p, h) ==
    LET q == pointer[p][h] IN
    /\ q.counted => q.holder /\ q.kind \in Handle!Counted
    /\ q.value # 0 => /\ q.holder /\ q.value \in DOMAIN object
                      /\ object[q.value].kind = q.kind
                      /\ q.kind \in Handle!Counted => q.counted
    /\ q.kind = "matvec" <=> family = "matvec"
    /\ q.kind = "matvec" /\ q.holder => q.value # 0

(* No two pointers of a process hold the same object.                      *)
PointersInv ==
    \A p \in Handle!Processes : \A h \in DOMAIN pointer[p] :
        /\ PointerInv(p, h)
        /\ \A g \in DOMAIN pointer[p] :
              pointer[p][g].value = pointer[p][h].value
              => g = h \/ pointer[p][h].value = 0

Alive(p, o) == handleLife[p][o] \in {"usable", "teardown"}
Temporary(p, o) == p = 1 /\ product.temporary /\ o = product.object

(* An object lives exactly while it is shared.                             *)
LifeInv ==
    \A p \in Handle!Processes : \A o \in DOMAIN object :
        /\ Alive(p, o) <=> Handle!Shared(pointer[p], o) \/ Temporary(p, o)
        /\ p = 1 => handleLife[p][o] # "none"
        /\ handleLife[p][o] = "teardown" => object[o].kind \in {"runtime", "prepared"}

(* In the maker what is destroyed is what was freed, once; a child destroys*)
(* none of the objects that are guarded.                                   *)
TornInv ==
    \A o \in DOMAIN object :
        /\ torn[1][o] = IF handleLife[1][o] = "freed" THEN 1 ELSE 0
        /\ object[o].kind \in Handle!Counted => torn[2][o] = 0

(* A slot is leased to a residual that lives.                              *)
SlotsInv ==
    \A p \in Handle!Processes : \A o \in DOMAIN object :
        lease[p][o] # 0 =>
            /\ lease[p][o] \in DOMAIN object
            /\ object[lease[p][o]].kind \in {"residual", "mp_residual"}
            /\ Alive(p, lease[p][o])

(* The counters count the holders that are counted.                        *)
OwnersOf(p, k) ==
    {h \in DOMAIN pointer[p] : pointer[p][h].kind = k /\ pointer[p][h].counted}
OwnersInv ==
    \A p \in Handle!Processes : \A k \in Handle!Counted :
        owners[p][k] = Cardinality(OwnersOf(p, k))

(* The buffers of a product's handle, and of a product.                    *)
Workspace == [rhs : Nat, output : Nat, size : Nat]
BufferTypes ==
    /\ workspace \in Seq(Workspace) /\ handleHeap \in Seq(Nat)
    /\ product \in [phase : {"idle", "solve", "grow", "multiply"}, object : Nat,
                    size : Nat, rhs : Nat, output : Nat, temporary : BOOLEAN]
    /\ IF family = "matvec" THEN Len(workspace) = Len(object)
       ELSE workspace = <<>> /\ product = Handle!Idle

BuffersOf(o) == {workspace[o].rhs, workspace[o].output} \ {0}
InFlight == {product.rhs, product.output} \ {0}
Kept(o) == o \in DOMAIN workspace /\ handleLife[1][o] # "freed"
Holds(b, width) == b \in DOMAIN handleHeap /\ handleHeap[b] = width

(* A workspace has two buffers of its size, or none, and shares neither with*)
(* another handle or with the product under way.                           *)
WorkspaceInv(o) ==
    LET w == workspace[o] IN
    /\ w.size = 0 => w.rhs = 0 /\ w.output = 0
    /\ w.size # 0 => Holds(w.rhs, w.size) /\ Holds(w.output, w.size)
    /\ BuffersOf(o) \cap InFlight = {}
    /\ \A x : Kept(x) /\ x # o => BuffersOf(o) \cap BuffersOf(x) = {}

(* What is allocated belongs to a handle that exists or to the product.    *)
BuffersInv ==
    /\ \A o : Kept(o) => WorkspaceInv(o)
    /\ \A b \in DOMAIN handleHeap :
          handleHeap[b] # 0 => b \in InFlight \/ \E o : Kept(o) /\ b \in BuffersOf(o)

(* The product under way, by the phase it is in.                           *)
ProductInv ==
    /\ product.phase = "idle" => product = Handle!Idle
    /\ product.phase # "idle" =>
          product.object \in DOMAIN object /\ handleLife[1][product.object] = "usable"
    /\ product.temporary =>
          \A h \in DOMAIN pointer[1] : pointer[1][h].value # product.object
    /\ product.phase = "solve" => product.temporary /\ InFlight = {}
    /\ product.phase \in {"grow", "multiply"} => product.size \in Handle!Sizes
    /\ product.phase = "grow" =>
          /\ product.output # 0 => product.rhs # 0
          /\ \A b \in InFlight : Holds(b, product.size)
    /\ product.phase = "multiply" =>
          InFlight = {} /\ workspace[product.object].size >= product.size

HandlesInv ==
    /\ HandleTypes /\ ObjectsInv /\ PointersInv /\ LifeInv /\ TornInv
    /\ SlotsInv /\ OwnersInv /\ BufferTypes /\ BuffersInv /\ ProductInv

-----------------------------------------------------------------------------
(* Whatever a live value keeps alive has not been destroyed.               *)
LEMMA SharedUntorn ==
    ASSUME HandlesInv, NEW o \in DOMAIN object, Handle!Shared(pointer[1], o)
    PROVE  torn[1][o] = 0
<1>1. Alive(1, o) /\ torn[1][o] = IF handleLife[1][o] = "freed" THEN 1 ELSE 0
  BY DEF HandlesInv, LifeInv, TornInv, Handle!Processes
<1> QED
  BY <1>1 DEF Alive

LEMMA HandleCardinality ==
    ASSUME NEW S PROVE Handle!Cardinality(S) = Cardinality(S)
BY Zenon DEF Handle!Cardinality, Cardinality

LEMMA HandlesInvSound == HandlesInv => HandlesSound
<1> SUFFICES ASSUME HandlesInv PROVE HandlesSound
  OBVIOUS
<1>1. Handle!OwnersCounted
  <2> SUFFICES ASSUME NEW p \in Handle!Processes
               PROVE  /\ \A k \in Handle!Counted : owners[p][k] = Cardinality(OwnersOf(p, k))
                      /\ \A h \in DOMAIN pointer[p] : PointerInv(p, h)
    BY HandleCardinality DEF Handle!OwnersCounted, OwnersOf, PointerInv
  <2> QED
    BY DEF HandlesInv, OwnersInv, PointersInv
<1>2. Handle!TornDownOnce
  <2>1. \A o \in DOMAIN object :
            /\ torn[1][o] = IF handleLife[1][o] = "freed" THEN 1 ELSE 0
            /\ object[o].kind \in Handle!Counted => torn[2][o] = 0
            /\ Alive(1, o) <=> Handle!Shared(pointer[1], o) \/ Temporary(1, o)
            /\ handleLife[1][o] \in Lives \ {"none"}
    BY DEF HandlesInv, TornInv, LifeInv, HandleTypes, Handle!Processes
  <2>2. ASSUME NEW o \in DOMAIN object, torn[1][o] = 1,
               NEW x \in DOMAIN object, object[x].parent = o
        PROVE  torn[1][x] = 1
    <3>1. ~Handle!Shared(pointer[1], o) /\ ~Temporary(1, o)
      BY <2>1, <2>2 DEF Alive
    <3>2. o # 0 /\ Made(x) /\ Made(o)
      BY <2>2 DEF HandlesInv, HandleTypes, ObjectsInv
    <3>3. ~Temporary(1, x)
      <4> SUFFICES ASSUME Temporary(1, x) PROVE FALSE
        OBVIOUS
      <4>1. object[x].kind = "matvec"
        BY DEF HandlesInv, Temporary, BufferTypes, ObjectsInv, Handle!Idle
      <4> QED
        BY <4>1, <3>2, <2>2 DEF Made
    <3>4. ~Handle!Shared(pointer[1], x)
      <4> SUFFICES ASSUME NEW h \in DOMAIN pointer[1], pointer[1][h].holder,
                          pointer[1][h].value # 0,
                          x \in Handle!Lineage(pointer[1][h].value)
                   PROVE  FALSE
        BY DEF Handle!Shared
      <4> DEFINE v == pointer[1][h].value
                 m == object[v].parent
      <4>1. v \in DOMAIN object /\ Made(v) /\ v # 0 /\ x # 0
        <5>1. v \in DOMAIN object
          BY DEF HandlesInv, PointersInv, PointerInv, Handle!Processes
        <5>2. Made(v)
          BY <5>1 DEF HandlesInv, ObjectsInv
        <5>3. v # 0 /\ x # 0
          BY <2>2, <5>1 DEF HandlesInv, HandleTypes
        <5> QED
          BY <5>1, <5>2, <5>3
      <4>2. o \notin Handle!Lineage(v)
        BY <3>1 DEF Handle!Shared
      <4> HIDE DEF v
      <4>3. x \in {v, m} \cup (IF m = 0 THEN {} ELSE {object[m].parent})
        BY DEF Handle!Lineage, v
      <4>4. x # v
        BY <4>2, <2>2 DEF Handle!Lineage
      <4>5. x # m
        BY <4>2, <2>2, <4>1 DEF Handle!Lineage
      <4>6. m # 0 /\ x = object[m].parent
        BY <4>3, <4>4, <4>5
      <4>7. m \in DOMAIN object /\ Made(m)
        BY <4>1, <4>6 DEF Made, HandlesInv, ObjectsInv
      <4>8. object[x].kind = "runtime"
        BY <4>1, <4>6, <4>7 DEF Made
      <4> QED
        BY <4>8, <3>2, <2>2 DEF Made
    <3> QED
      BY <3>3, <3>4, <2>1 DEF Alive, Lives
  <2>3. ASSUME \A h \in DOMAIN pointer[1] : ~pointer[1][h].holder, product = Handle!Idle,
               NEW o \in DOMAIN object
        PROVE  torn[1][o] = 1
    BY <2>1, <2>3 DEF Handle!Shared, Temporary, Handle!Idle, Alive, Lives
  <2> QED
    BY <2>1, <2>2, <2>3 DEF Handle!TornDownOnce
<1>3. Handle!SlotsReturned
  BY DEF HandlesInv, SlotsInv, LifeInv, Alive, Handle!SlotsReturned
<1>4. Handle!ReadersSafe
  <2> SUFFICES ASSUME NEW h \in DOMAIN pointer[1], pointer[1][h].holder,
                      pointer[1][h].value # 0
               PROVE  LET o == pointer[1][h].value
                          maker == object[o].parent
                      IN  /\ torn[1][o] = 0
                          /\ maker # 0 =>
                                /\ torn[1][maker] = 0
                                /\ object[maker].parent # 0 => torn[1][object[maker].parent] = 0
    BY DEF Handle!ReadersSafe, Handle!runtime_reader, Handle!prepared_reader,
           Handle!residual_reader, Handle!multi_penalty_reader, Handle!Live, Handle!Value
  <2> DEFINE o == pointer[1][h].value
             m == object[o].parent
             g == object[m].parent
  <2>1. o \in DOMAIN object /\ Made(o)
    BY DEF HandlesInv, PointersInv, PointerInv, ObjectsInv, Handle!Processes
  <2>2. m # 0 => m \in DOMAIN object /\ Made(m)
    BY <2>1 DEF Made, HandlesInv, ObjectsInv
  <2>3. m # 0 /\ g # 0 => g \in DOMAIN object
    BY <2>2 DEF Made
  <2>4. \A x \in Handle!Lineage(o) : Handle!Shared(pointer[1], x)
    BY DEF Handle!Shared
  <2>5. o \in Handle!Lineage(o) /\ (m # 0 => m \in Handle!Lineage(o))
        /\ (m # 0 => g \in Handle!Lineage(o))
    BY DEF Handle!Lineage
  <2> HIDE DEF o, m, g
  <2>6. torn[1][o] = 0
    BY <2>1, <2>4, <2>5, SharedUntorn
  <2>7. m # 0 => torn[1][m] = 0
    BY <2>2, <2>4, <2>5, SharedUntorn
  <2>8. m # 0 /\ g # 0 => torn[1][g] = 0
    BY <2>3, <2>4, <2>5, SharedUntorn
  <2> QED
    BY <2>6, <2>7, <2>8 DEF o, m, g
<1>5. Handle!WorkspacesSound
  <2>1. ASSUME product.phase = "multiply"
        PROVE  LET w == workspace[product.object] IN
               handleHeap[w.rhs] >= product.size /\ handleHeap[w.output] >= product.size
    <3> DEFINE o == product.object
    <3>1. /\ o \in DOMAIN object /\ handleLife[1][o] = "usable"
          /\ product.size \in {1, 2} /\ workspace[o].size >= product.size
      BY <2>1 DEF HandlesInv, ProductInv, Handle!Sizes
    <3>2. o \in DOMAIN workspace /\ Kept(o)
      BY <2>1, <3>1 DEF HandlesInv, BufferTypes, HandleTypes, Handle!Idle, Kept
    <3>3. WorkspaceInv(o)
      BY <3>2 DEF HandlesInv, BuffersInv
    <3>4. workspace[o].size \in Nat
      <4>1. workspace \in Seq(Workspace)
        BY DEF HandlesInv, BufferTypes
      <4>2. workspace[o] \in Workspace
        BY <4>1, <3>2
      <4> QED
        BY <4>2 DEF Workspace
    <3>5. workspace[o].size # 0
      BY <3>1, <3>4
    <3>6. /\ handleHeap[workspace[o].rhs] = workspace[o].size
          /\ handleHeap[workspace[o].output] = workspace[o].size
      BY <3>3, <3>5 DEF WorkspaceInv, Holds
    <3> QED
      BY <3>1, <3>6
  <2>2. ASSUME product.phase = "idle"
        PROVE  {b \in DOMAIN handleHeap : handleHeap[b] # 0} =
               UNION {{workspace[o].rhs, workspace[o].output} \ {0} :
                      o \in {x \in DOMAIN workspace : torn[1][x] = 0}}
    <3>1. InFlight = {}
      BY <2>2 DEF HandlesInv, ProductInv, Handle!Idle, InFlight
    <3>2. \A o \in DOMAIN workspace : torn[1][o] = 0 <=> Kept(o)
      <4> SUFFICES ASSUME NEW o \in DOMAIN workspace PROVE torn[1][o] = 0 <=> Kept(o)
        OBVIOUS
      <4>1. o \in DOMAIN object
        BY DEF HandlesInv, HandleTypes, BufferTypes
      <4> QED
        BY <4>1 DEF HandlesInv, TornInv, Kept
    <3>3. \A b \in DOMAIN handleHeap :
              handleHeap[b] # 0 => \E o : Kept(o) /\ b \in BuffersOf(o)
      BY <3>1 DEF HandlesInv, BuffersInv
    <3>4. ASSUME NEW o, Kept(o), NEW b \in BuffersOf(o)
          PROVE  b \in DOMAIN handleHeap /\ handleHeap[b] # 0
      BY <3>4 DEF HandlesInv, BuffersInv, WorkspaceInv, BuffersOf, Holds
    <3>5. \A b : b \in DOMAIN handleHeap /\ handleHeap[b] # 0 <=> \E o : Kept(o) /\ b \in BuffersOf(o)
      BY <3>3, <3>4
    <3>6. \A o : Kept(o) <=> o \in DOMAIN workspace /\ torn[1][o] = 0
      BY <3>2 DEF Kept
    <3> QED
      BY <3>5, <3>6 DEF BuffersOf
  <2> QED
    BY <2>1, <2>2 DEF Handle!WorkspacesSound, Handle!ProductIn
<1> QED
  BY <1>1, <1>2, <1>3, <1>4, <1>5 DEF HandlesSound

LEMMA HandleInit == Handle!Init => HandlesInv
<1> SUFFICES ASSUME Handle!Init PROVE HandlesInv
  OBVIOUS
<1>1. /\ object = <<>> /\ workspace = <<>> /\ handleHeap = <<>>
      /\ product = Handle!Idle
      /\ \A p \in Handle!Processes :
            handleLife[p] = <<>> /\ torn[p] = <<>> /\ lease[p] = <<>> /\ pointer[p] = <<>>
      /\ handleLife = [p \in Handle!Processes |-> <<>>] /\ torn = [p \in Handle!Processes |-> <<>>]
      /\ lease = [p \in Handle!Processes |-> <<>>] /\ pointer = [p \in Handle!Processes |-> <<>>]
      /\ owners = [p \in Handle!Processes |-> [k \in Handle!Counted |-> 0]]
  BY DEF Handle!Init
<1>2. HandleTypes
  <2>1. <<>> \in [DOMAIN object -> Lives] /\ <<>> \in [DOMAIN object -> Nat]
    BY <1>1
  <2>2. /\ handleLife \in [Handle!Processes -> [DOMAIN object -> Lives]]
        /\ torn \in [Handle!Processes -> [DOMAIN object -> Nat]]
        /\ lease \in [Handle!Processes -> [DOMAIN object -> Nat]]
    BY <1>1, <2>1
  <2>3. pointer \in [Handle!Processes -> Seq(PointerRecord)]
    BY <1>1
  <2>4. owners \in [Handle!Processes -> [Handle!Counted -> Nat]]
    BY <1>1
  <2>5. object \in Seq([kind : Handle!Kinds, parent : Nat])
    BY <1>1
  <2> QED
    BY <2>2, <2>3, <2>4, <2>5 DEF HandleTypes
<1>3. ObjectsInv /\ PointersInv /\ LifeInv /\ TornInv /\ SlotsInv
  BY <1>1 DEF ObjectsInv, PointersInv, LifeInv, TornInv, SlotsInv
<1>4. OwnersInv
  <2> SUFFICES ASSUME NEW p \in Handle!Processes, NEW k \in Handle!Counted
               PROVE  owners[p][k] = Cardinality(OwnersOf(p, k))
    BY DEF OwnersInv
  <2>1. OwnersOf(p, k) = {}
    BY <1>1 DEF OwnersOf
  <2> QED
    BY <1>1, <2>1, FS_EmptySet
<1>5. BufferTypes /\ BuffersInv /\ ProductInv
  BY <1>1 DEF BufferTypes, BuffersInv, ProductInv, Handle!Idle, Kept, InFlight
<1> QED
  BY <1>2, <1>3, <1>4, <1>5 DEF HandlesInv

-----------------------------------------------------------------------------
(* Letting go of pointers.                                                 *)

(* P is what the pointers of p become when some let go of their values.    *)
Lowered(p, P) ==
    /\ P \in Seq(PointerRecord) /\ DOMAIN P = DOMAIN pointer[p]
    /\ \A h \in DOMAIN P :
          /\ P[h].kind = pointer[p][h].kind
          /\ P[h].value = 0 \/ /\ P[h].value = pointer[p][h].value
                               /\ P[h].holder = pointer[p][h].holder
                               /\ P[h].counted = pointer[p][h].counted
          /\ P[h].counted => pointer[p][h].counted /\ P[h].holder
          /\ P[h].kind = "matvec" /\ P[h].holder => P[h].value # 0

(* What Settle does, variable by variable.                                 *)
LEMMA SettleEffect ==
    ASSUME HandlesInv, NEW p \in Handle!Processes, NEW P, Handle!Settle(p, P),
           P \in Seq(PointerRecord)
    PROVE  LET dying == Handle!Dying(p, P) IN
           /\ pointer' \in [Handle!Processes -> Seq(PointerRecord)]
           /\ handleLife' \in [Handle!Processes -> [DOMAIN object -> Lives]]
           /\ torn' \in [Handle!Processes -> [DOMAIN object -> Nat]]
           /\ lease' \in [Handle!Processes -> [DOMAIN object -> Nat]]
           /\ pointer'[p] = P
           /\ \A o \in DOMAIN object :
                 /\ handleLife'[p][o] = IF o \in dying THEN "freed" ELSE handleLife[p][o]
                 /\ torn'[p][o] = IF o \in dying /\ Handle!Destroys(p, o)
                                  THEN torn[p][o] + 1 ELSE torn[p][o]
                 /\ lease'[p][o] = IF lease[p][o] \in dying THEN 0 ELSE lease[p][o]
           /\ \A q \in Handle!Processes \ {p} :
                 /\ pointer'[q] = pointer[q] /\ handleLife'[q] = handleLife[q]
                 /\ torn'[q] = torn[q] /\ lease'[q] = lease[q]
<1> DEFINE dying == Handle!Dying(p, P)
<1>1. /\ pointer \in [Handle!Processes -> Seq(PointerRecord)]
      /\ handleLife \in [Handle!Processes -> [DOMAIN object -> Lives]]
      /\ torn \in [Handle!Processes -> [DOMAIN object -> Nat]]
      /\ lease \in [Handle!Processes -> [DOMAIN object -> Nat]]
  BY DEF HandlesInv, HandleTypes
<1>2. /\ pointer' = [pointer EXCEPT ![p] = P]
      /\ handleLife' = [handleLife EXCEPT ![p] =
             [o \in DOMAIN object |-> IF o \in dying THEN "freed" ELSE handleLife[p][o]]]
      /\ torn' = [torn EXCEPT ![p] =
             [o \in DOMAIN object |-> IF o \in dying /\ Handle!Destroys(p, o)
                                      THEN torn[p][o] + 1 ELSE torn[p][o]]]
      /\ lease' = [lease EXCEPT ![p] =
             [o \in DOMAIN object |-> IF lease[p][o] \in dying THEN 0 ELSE lease[p][o]]]
  BY DEF Handle!Settle
<1> HIDE DEF dying
<1>3. /\ [o \in DOMAIN object |-> IF o \in dying THEN "freed" ELSE handleLife[p][o]]
           \in [DOMAIN object -> Lives]
      /\ [o \in DOMAIN object |-> IF o \in dying /\ Handle!Destroys(p, o)
                                  THEN torn[p][o] + 1 ELSE torn[p][o]]
           \in [DOMAIN object -> Nat]
      /\ [o \in DOMAIN object |-> IF lease[p][o] \in dying THEN 0 ELSE lease[p][o]]
           \in [DOMAIN object -> Nat]
  BY <1>1 DEF Lives
<1>4. /\ pointer' \in [Handle!Processes -> Seq(PointerRecord)] /\ pointer'[p] = P
      /\ \A q \in Handle!Processes \ {p} : pointer'[q] = pointer[q]
  BY <1>1, <1>2
<1>5. /\ handleLife' \in [Handle!Processes -> [DOMAIN object -> Lives]]
      /\ \A o \in DOMAIN object :
            handleLife'[p][o] = IF o \in dying THEN "freed" ELSE handleLife[p][o]
      /\ \A q \in Handle!Processes \ {p} : handleLife'[q] = handleLife[q]
  BY <1>1, <1>2, <1>3
<1>6. /\ torn' \in [Handle!Processes -> [DOMAIN object -> Nat]]
      /\ \A o \in DOMAIN object :
            torn'[p][o] = IF o \in dying /\ Handle!Destroys(p, o)
                          THEN torn[p][o] + 1 ELSE torn[p][o]
      /\ \A q \in Handle!Processes \ {p} : torn'[q] = torn[q]
  BY <1>1, <1>2, <1>3
<1>7. /\ lease' \in [Handle!Processes -> [DOMAIN object -> Nat]]
      /\ \A o \in DOMAIN object :
            lease'[p][o] = IF lease[p][o] \in dying THEN 0 ELSE lease[p][o]
      /\ \A q \in Handle!Processes \ {p} : lease'[q] = lease[q]
  BY <1>1, <1>2, <1>3
<1> QED
  BY <1>4, <1>5, <1>6, <1>7 DEF dying

LEMMA SharedPrime ==
    ASSUME object' = object, NEW q, NEW o
    PROVE  Handle!Shared(pointer[q], o)' <=> Handle!Shared(pointer'[q], o)
BY DEF Handle!Shared, Handle!Lineage

LEMMA ObjectsKept ==
    ASSUME HandlesInv, UNCHANGED <<object, family>> PROVE ObjectsInv'
<1>1. ObjectsInv
  BY DEF HandlesInv
<1> QED
  BY <1>1 DEF ObjectsInv, Made

(* Pointers that let go still fit their objects.                           *)
LEMMA SettlePointers ==
    ASSUME HandlesInv, NEW p \in Handle!Processes, NEW P, Handle!Settle(p, P),
           Lowered(p, P), UNCHANGED <<object, family>>
    PROVE  PointersInv'
<1> SUFFICES ASSUME NEW q \in Handle!Processes, NEW h \in DOMAIN pointer'[q]
             PROVE  /\ PointerInv(q, h)'
                    /\ \A g \in DOMAIN pointer'[q] :
                          pointer'[q][g].value = pointer'[q][h].value
                          => g = h \/ pointer'[q][h].value = 0
  BY DEF PointersInv, Handle!Processes
<1>1. /\ pointer'[p] = P /\ (q # p => pointer'[q] = pointer[q])
      /\ P \in Seq(PointerRecord)
  BY SettleEffect DEF Lowered
<1>2. \A k \in DOMAIN pointer[q] :
          /\ PointerInv(q, k)
          /\ \A g \in DOMAIN pointer[q] :
                pointer[q][g].value = pointer[q][k].value
                => g = k \/ pointer[q][k].value = 0
  BY DEF HandlesInv, PointersInv
<1>3. CASE q # p
  BY <1>1, <1>2, <1>3 DEF PointerInv
<1>4. CASE q = p
  <2>1. /\ DOMAIN P = DOMAIN pointer[p]
        /\ \A g \in DOMAIN P : P[g].value = 0 \/ P[g].value = pointer[p][g].value
    BY DEF Lowered
  <2>2. PointerInv(q, h)'
    BY <1>1, <1>2, <1>4 DEF PointerInv, Lowered
  <2> QED
    BY <1>1, <1>2, <1>4, <2>1, <2>2
<1> QED
  BY <1>3, <1>4

(* What dies is what nobody shares any more, so lives, destructions and    *)
(* leases follow the pointers.                                             *)
LEMMA SettleLife ==
    ASSUME HandlesInv, NEW p \in Handle!Processes, NEW P, Handle!Settle(p, P),
           Lowered(p, P), product = Handle!Idle,
           UNCHANGED <<object, family>>, product' = Handle!Idle
    PROVE  LifeInv' /\ TornInv' /\ SlotsInv'
<1> DEFINE dying == Handle!Dying(p, P)
<1>1. P \in Seq(PointerRecord)
  BY DEF Lowered
<1>2. /\ pointer'[p] = P
      /\ \A o \in DOMAIN object :
            /\ handleLife'[p][o] = IF o \in dying THEN "freed" ELSE handleLife[p][o]
            /\ torn'[p][o] = IF o \in dying /\ Handle!Destroys(p, o)
                             THEN torn[p][o] + 1 ELSE torn[p][o]
            /\ lease'[p][o] = IF lease[p][o] \in dying THEN 0 ELSE lease[p][o]
      /\ \A q \in Handle!Processes \ {p} :
            /\ pointer'[q] = pointer[q] /\ handleLife'[q] = handleLife[q]
            /\ torn'[q] = torn[q] /\ lease'[q] = lease[q]
  BY <1>1, SettleEffect
<1>3. \A o : o \in dying <=> o \in DOMAIN object /\ Alive(p, o) /\ ~Handle!Shared(P, o)
  BY DEF Handle!Dying, Alive
<1>4. \A q \in Handle!Processes, o \in DOMAIN object :
          /\ Alive(q, o) <=> Handle!Shared(pointer[q], o)
          /\ q = 1 => handleLife[q][o] # "none"
          /\ handleLife[q][o] = "teardown" => object[o].kind \in {"runtime", "prepared"}
  BY DEF HandlesInv, LifeInv, Temporary, Handle!Idle
<1>5. \A o : Handle!Shared(P, o) => Handle!Shared(pointer[p], o)
  BY DEF Lowered, Handle!Shared
<1> HIDE DEF dying
<1>6. \A q \in Handle!Processes, o \in DOMAIN object :
          Alive(q, o)' <=> Alive(q, o) /\ ~(q = p /\ o \in dying)
  BY <1>2 DEF Alive
<1>7. LifeInv'
  <2> SUFFICES ASSUME NEW q \in Handle!Processes, NEW o \in DOMAIN object
               PROVE  /\ Alive(q, o)' <=> Handle!Shared(pointer'[q], o)
                      /\ q = 1 => handleLife'[q][o] # "none"
                      /\ handleLife'[q][o] = "teardown" => object[o].kind \in {"runtime", "prepared"}
    BY SharedPrime DEF LifeInv, Temporary, Handle!Idle, Handle!Processes
  <2>1. CASE q = p
    BY <2>1, <1>2, <1>3, <1>4, <1>5, <1>6
  <2>2. CASE q # p
    BY <2>2, <1>2, <1>4, <1>6
  <2> QED
    BY <2>1, <2>2
<1>8. TornInv'
  <2> SUFFICES ASSUME NEW o \in DOMAIN object
               PROVE  /\ torn'[1][o] = IF handleLife'[1][o] = "freed" THEN 1 ELSE 0
                      /\ object[o].kind \in Handle!Counted => torn'[2][o] = 0
    BY DEF TornInv, Handle!Counted
  <2>1. /\ torn[1][o] = IF handleLife[1][o] = "freed" THEN 1 ELSE 0
        /\ object[o].kind \in Handle!Counted => torn[2][o] = 0
    BY DEF HandlesInv, TornInv
  <2>2. /\ Handle!Destroys(1, o)
        /\ object[o].kind \in Handle!Counted => ~Handle!Destroys(2, o)
    BY DEF Handle!Destroys, Handle!Guarded, Handle!Counted
  <2>3. o \in dying => handleLife[p][o] # "freed"
    BY <1>3 DEF Alive
  <2>4. 1 \in Handle!Processes /\ 2 \in Handle!Processes /\ (p = 1 \/ p = 2)
    BY DEF Handle!Processes
  <2>5. CASE p = 1
    BY <2>1, <2>2, <2>3, <2>4, <2>5, <1>2
  <2>6. CASE p = 2
    BY <2>1, <2>2, <2>3, <2>4, <2>6, <1>2
  <2> QED
    BY <2>4, <2>5, <2>6
<1>9. SlotsInv'
  <2> SUFFICES ASSUME NEW q \in Handle!Processes, NEW o \in DOMAIN object,
                      lease'[q][o] # 0
               PROVE  /\ lease'[q][o] \in DOMAIN object
                      /\ object[lease'[q][o]].kind \in {"residual", "mp_residual"}
                      /\ handleLife'[q][lease'[q][o]] \in {"usable", "teardown"}
    BY DEF SlotsInv, Alive, Handle!Processes
  <2>1. lease'[q][o] = lease[q][o] /\ ~(q = p /\ lease[q][o] \in dying)
    BY <1>2
  <2>2. /\ lease[q][o] \in DOMAIN object
        /\ object[lease[q][o]].kind \in {"residual", "mp_residual"}
        /\ Alive(q, lease[q][o])
    BY <2>1 DEF HandlesInv, SlotsInv
  <2> QED
    BY <2>1, <2>2, <1>6 DEF Alive
<1> QED
  BY <1>7, <1>8, <1>9

(* One pointer of a process lets go.                                       *)
Letting(p, h, r) ==
    /\ r \in PointerRecord /\ r.kind = pointer[p][h].kind /\ r.value = 0
    /\ r.counted => pointer[p][h].counted /\ r.holder
    /\ r.kind = "matvec" => ~r.holder

LEMMA LettingLowers ==
    ASSUME HandlesInv, NEW p \in Handle!Processes, NEW h \in DOMAIN pointer[p],
           NEW r, Letting(p, h, r)
    PROVE  Lowered(p, [pointer[p] EXCEPT ![h] = r])
<1> DEFINE P == [pointer[p] EXCEPT ![h] = r]
<1>1. pointer[p] \in Seq(PointerRecord)
  BY DEF HandlesInv, HandleTypes
<1>2. \A g \in DOMAIN pointer[p] : pointer[p][g] \in PointerRecord /\ PointerInv(p, g)
  BY <1>1 DEF HandlesInv, PointersInv
<1>3. P \in Seq(PointerRecord) /\ DOMAIN P = DOMAIN pointer[p]
  BY <1>1 DEF Letting
<1>4. \A g \in DOMAIN P : P[g] = IF g = h THEN r ELSE pointer[p][g]
  OBVIOUS
<1> HIDE DEF P
<1>5. ASSUME NEW g \in DOMAIN P
      PROVE  /\ P[g].kind = pointer[p][g].kind
             /\ P[g].value = 0 \/ /\ P[g].value = pointer[p][g].value
                                  /\ P[g].holder = pointer[p][g].holder
                                  /\ P[g].counted = pointer[p][g].counted
             /\ P[g].counted => pointer[p][g].counted /\ P[g].holder
             /\ P[g].kind = "matvec" /\ P[g].holder => P[g].value # 0
  <2>1. CASE g = h
    BY <1>4, <2>1 DEF Letting
  <2>2. CASE g # h
    BY <1>2, <1>3, <1>4, <2>2 DEF PointerInv
  <2> QED
    BY <2>1, <2>2
<1> QED
  BY <1>3, <1>5 DEF Lowered, P

LEMMA LettingShapes ==
    ASSUME HandlesInv, NEW p \in Handle!Processes, NEW h \in DOMAIN pointer[p],
           NEW q, q = pointer[p][h]
    PROVE  /\ Letting(p, h, Handle!Pointer(q.kind, 0))
           /\ q.kind # "matvec" =>
                 /\ Letting(p, h, [q EXCEPT !.value = 0])
                 /\ Letting(p, h, [q EXCEPT !.value = 0, !.counted = FALSE])
<1>1. pointer[p] \in Seq(PointerRecord) /\ q \in PointerRecord
  BY DEF HandlesInv, HandleTypes
<1>2. q.counted => q.holder
  BY DEF HandlesInv, PointersInv, PointerInv
<1>3. Handle!Pointer(q.kind, 0)
          = [kind |-> q.kind, holder |-> FALSE, value |-> 0, counted |-> FALSE]
  <2>1. (0 # 0) = FALSE /\ (0 # 0 /\ q.kind \in Handle!Counted) = FALSE
    OBVIOUS
  <2> QED
    BY <2>1 DEF Handle!Pointer
<1>4. Letting(p, h, Handle!Pointer(q.kind, 0))
  <2> DEFINE r == [kind |-> q.kind, holder |-> FALSE, value |-> 0, counted |-> FALSE]
  <2>1. Letting(p, h, r)
    BY <1>1 DEF Letting, PointerRecord
  <2> QED
    BY <2>1, <1>3
<1>5. q.kind # "matvec" =>
          /\ Letting(p, h, [q EXCEPT !.value = 0])
          /\ Letting(p, h, [q EXCEPT !.value = 0, !.counted = FALSE])
  BY <1>1, <1>2 DEF Letting, PointerRecord
<1> QED
  BY <1>4, <1>5

(* The counters.                                                           *)

LEMMA OwnersFinite ==
    ASSUME HandlesInv, NEW p \in Handle!Processes, NEW k
    PROVE  IsFiniteSet(OwnersOf(p, k))
<1>1. Len(pointer[p]) \in Nat /\ DOMAIN pointer[p] = 1 .. Len(pointer[p])
  BY DEF HandlesInv, HandleTypes
<1>2. IsFiniteSet(1 .. Len(pointer[p]))
  <2> SUFFICES ASSUME NEW n \in Nat PROVE IsFiniteSet(1 .. n)
    BY <1>1
  <2>1. n \in Int /\ 1 \in Int
    OBVIOUS
  <2> QED
    BY <2>1, FS_Interval
<1>3. OwnersOf(p, k) \subseteq 1 .. Len(pointer[p])
  BY <1>1 DEF OwnersOf
<1> QED
  BY <1>2, <1>3, FS_Subset

LEMMA OwnersUnchanged ==
    ASSUME HandlesInv, owners' = owners,
           \A q \in Handle!Processes :
              /\ DOMAIN pointer'[q] = DOMAIN pointer[q]
              /\ \A g \in DOMAIN pointer[q] :
                    /\ pointer'[q][g].kind = pointer[q][g].kind
                    /\ pointer'[q][g].counted = pointer[q][g].counted
    PROVE  OwnersInv'
<1> SUFFICES ASSUME NEW q \in Handle!Processes, NEW k \in Handle!Counted
             PROVE  owners[q][k] = Cardinality(OwnersOf(q, k)')
  BY DEF OwnersInv, Handle!Processes, Handle!Counted
<1>1. OwnersOf(q, k)' = OwnersOf(q, k)
  BY DEF OwnersOf
<1> QED
  BY <1>1 DEF HandlesInv, OwnersInv

(* One holder that was counted is not any more, and its counter says so.   *)
LEMMA OwnersReleased ==
    ASSUME HandlesInv, NEW p \in Handle!Processes, NEW h \in DOMAIN pointer[p],
           owners' = Handle!fixed_sp_owner_release(p, h),
           \A q \in Handle!Processes :
              /\ DOMAIN pointer'[q] = DOMAIN pointer[q]
              /\ \A g \in DOMAIN pointer[q] :
                    /\ pointer'[q][g].kind = pointer[q][g].kind
                    /\ pointer'[q][g].counted =
                          (pointer[q][g].counted /\ ~(q = p /\ g = h))
    PROVE  OwnersInv' /\ owners' \in [Handle!Processes -> [Handle!Counted -> Nat]]
<1> DEFINE c == pointer[p][h].kind
<1>1. owners \in [Handle!Processes -> [Handle!Counted -> Nat]]
  BY DEF HandlesInv, HandleTypes
<1>2. \A q \in Handle!Processes, k \in Handle!Counted :
          owners[q][k] = Cardinality(OwnersOf(q, k))
  BY DEF HandlesInv, OwnersInv
<1>3. pointer[p][h].counted => c \in Handle!Counted
  BY DEF HandlesInv, PointersInv, PointerInv
<1>4. ASSUME NEW q \in Handle!Processes, NEW k
      PROVE  OwnersOf(q, k)' = IF q = p /\ k = c /\ pointer[p][h].counted
                               THEN OwnersOf(q, k) \ {h} ELSE OwnersOf(q, k)
  BY DEF OwnersOf
<1>5. CASE ~pointer[p][h].counted
  <2>1. owners' = owners
    BY <1>5 DEF Handle!fixed_sp_owner_release
  <2>2. \A q \in Handle!Processes, k \in Handle!Counted :
            owners'[q][k] = Cardinality(OwnersOf(q, k)')
    BY <1>2, <1>4, <1>5, <2>1
  <2> QED
    BY <1>1, <2>1, <2>2 DEF OwnersInv, Handle!Processes, Handle!Counted
<1>6. CASE pointer[p][h].counted
  <2>0. IsFiniteSet(OwnersOf(p, c))
    BY OwnersFinite
  <2>1. h \in OwnersOf(p, c) /\ IsFiniteSet(OwnersOf(p, c))
    BY <1>6, <2>0 DEF OwnersOf
  <2>2. /\ Cardinality(OwnersOf(p, c) \ {h}) = Cardinality(OwnersOf(p, c)) - 1
        /\ Cardinality(OwnersOf(p, c)) \in Nat
    BY <2>1, FS_RemoveElement, FS_CardinalityType
  <2>3. owners[p][c] = Cardinality(OwnersOf(p, c)) /\ owners[p][c] \in Nat
    BY <1>1, <1>2, <1>3, <1>6
  <2>4. Cardinality(OwnersOf(p, c) \ {h}) \in Nat
    BY <2>1, FS_RemoveElement, FS_CardinalityType
  <2>5. owners' = [owners EXCEPT ![p][c] = owners[p][c] - 1] /\ owners[p][c] - 1 \in Nat
    <3>1. owners[p][c] > 0
      BY <2>2, <2>3, <2>4
    <3>2. owners' = [owners EXCEPT ![p][c] = IF owners[p][c] > 0 THEN owners[p][c] - 1 ELSE 0]
      BY <1>6 DEF Handle!fixed_sp_owner_release
    <3> QED
      BY <3>1, <3>2, <2>3
  <2> HIDE DEF c
  <2>6. owners' \in [Handle!Processes -> [Handle!Counted -> Nat]]
    BY <1>1, <1>3, <1>6, <2>5
  <2>7. \A q \in Handle!Processes, k \in Handle!Counted :
            owners'[q][k] = IF q = p /\ k = c THEN owners[p][c] - 1 ELSE owners[q][k]
    BY <1>1, <1>3, <1>6, <2>5
  <2>8. \A q \in Handle!Processes, k \in Handle!Counted :
            owners'[q][k] = Cardinality(OwnersOf(q, k)')
    <3> SUFFICES ASSUME NEW q \in Handle!Processes, NEW k \in Handle!Counted
                 PROVE  owners'[q][k] = Cardinality(OwnersOf(q, k)')
      OBVIOUS
    <3>1. CASE q = p /\ k = c
      <4>1. OwnersOf(q, k)' = OwnersOf(p, c) \ {h}
        BY <1>4, <1>6, <3>1
      <4> QED
        BY <4>1, <3>1, <2>7, <2>2, <2>3
    <3>2. CASE ~(q = p /\ k = c)
      <4>1. OwnersOf(q, k)' = OwnersOf(q, k)
        BY <1>4, <3>2
      <4> QED
        BY <4>1, <3>2, <2>7, <1>2
    <3> QED
      BY <3>1, <3>2
  <2> QED
    BY <2>6, <2>8 DEF OwnersInv, Handle!Processes, Handle!Counted
<1> QED
  BY <1>5, <1>6

-----------------------------------------------------------------------------
(* The steps that let go of a pointer, or of nothing.                      *)

LEMMA PlainBuffers ==
    ASSUME HandlesInv, family # "matvec", UNCHANGED <<family, workspace, handleHeap, product>>
    PROVE  BufferTypes' /\ BuffersInv' /\ ProductInv'
<1>1. workspace = <<>> /\ product = Handle!Idle /\ BufferTypes /\ BuffersInv
  BY DEF HandlesInv, BufferTypes
<1>2. BufferTypes'
  BY <1>1 DEF BufferTypes
<1>3. BuffersInv'
  BY <1>1 DEF BuffersInv, Kept, InFlight
<1>4. ProductInv'
  BY <1>1 DEF ProductInv, Handle!Idle
<1> QED
  BY <1>2, <1>3, <1>4

(* Whatever way one pointer lets go, everything but the buffers is kept.   *)
LEMMA LetGo ==
    ASSUME HandlesInv, NEW p \in Handle!Processes, NEW h \in DOMAIN pointer[p],
           NEW r, Letting(p, h, r),
           Handle!Settle(p, [pointer[p] EXCEPT ![h] = r]),
           UNCHANGED <<object, family>>,
           product = Handle!Idle, product' = Handle!Idle,
           \/ owners' = owners /\ r.counted = pointer[p][h].counted
           \/ owners' = Handle!fixed_sp_owner_release(p, h) /\ ~r.counted
    PROVE  /\ HandleTypes' /\ ObjectsInv' /\ PointersInv' /\ LifeInv' /\ TornInv'
           /\ SlotsInv' /\ OwnersInv'
<1> DEFINE P == [pointer[p] EXCEPT ![h] = r]
<1>1. Lowered(p, P)
  BY LettingLowers
<1>2. /\ pointer' \in [Handle!Processes -> Seq(PointerRecord)]
      /\ handleLife' \in [Handle!Processes -> [DOMAIN object -> Lives]]
      /\ torn' \in [Handle!Processes -> [DOMAIN object -> Nat]]
      /\ lease' \in [Handle!Processes -> [DOMAIN object -> Nat]]
      /\ pointer'[p] = P
      /\ \A q \in Handle!Processes \ {p} : pointer'[q] = pointer[q]
  <2>1. P \in Seq(PointerRecord)
    BY <1>1 DEF Lowered
  <2> QED
    BY <2>1, SettleEffect
<1>3. ObjectsInv'
  BY ObjectsKept
<1>4. PointersInv'
  BY <1>1, SettlePointers
<1>5. LifeInv' /\ TornInv' /\ SlotsInv'
  BY <1>1, SettleLife
<1>6. \A g \in DOMAIN pointer[p] : P[g] = IF g = h THEN r ELSE pointer[p][g]
  OBVIOUS
<1>7. DOMAIN P = DOMAIN pointer[p]
  OBVIOUS
<1>8. r.counted \in BOOLEAN /\ \A q \in Handle!Processes : \A g \in DOMAIN pointer[q] :
          pointer[q][g].counted \in BOOLEAN
  <2>1. pointer \in [Handle!Processes -> Seq(PointerRecord)]
    BY DEF HandlesInv, HandleTypes
  <2>2. \A q \in Handle!Processes : \A g \in DOMAIN pointer[q] : pointer[q][g] \in PointerRecord
    BY <2>1
  <2> QED
    BY <2>2 DEF Letting, PointerRecord
<1> HIDE DEF P
<1>9. OwnersInv' /\ owners' \in [Handle!Processes -> [Handle!Counted -> Nat]]
  <2>1. CASE owners' = owners /\ r.counted = pointer[p][h].counted
    <3>1. \A q \in Handle!Processes :
              /\ DOMAIN pointer'[q] = DOMAIN pointer[q]
              /\ \A g \in DOMAIN pointer[q] :
                    /\ pointer'[q][g].kind = pointer[q][g].kind
                    /\ pointer'[q][g].counted = pointer[q][g].counted
      BY <2>1, <1>2, <1>6, <1>7 DEF Letting
    <3> QED
      BY <2>1, <3>1, OwnersUnchanged DEF HandlesInv, HandleTypes
  <2>2. CASE owners' = Handle!fixed_sp_owner_release(p, h) /\ ~r.counted
    <3>1. \A q \in Handle!Processes :
              /\ DOMAIN pointer'[q] = DOMAIN pointer[q]
              /\ \A g \in DOMAIN pointer[q] :
                    /\ pointer'[q][g].kind = pointer[q][g].kind
                    /\ pointer'[q][g].counted =
                          (pointer[q][g].counted /\ ~(q = p /\ g = h))
      <4> SUFFICES ASSUME NEW q \in Handle!Processes
                   PROVE  /\ DOMAIN pointer'[q] = DOMAIN pointer[q]
                          /\ \A g \in DOMAIN pointer[q] :
                                /\ pointer'[q][g].kind = pointer[q][g].kind
                                /\ pointer'[q][g].counted =
                                      (pointer[q][g].counted /\ ~(q = p /\ g = h))
        OBVIOUS
      <4>1. CASE q # p
        BY <4>1, <1>2, <1>8
      <4>2. CASE q = p
        BY <4>2, <2>2, <1>2, <1>6, <1>7, <1>8 DEF Letting
      <4> QED
        BY <4>1, <4>2
    <3> QED
      BY <2>2, <3>1, OwnersReleased
  <2> QED
    BY <2>1, <2>2
<1>10. HandleTypes'
  <2>1. object \in Seq([kind : Handle!Kinds, parent : Nat])
    BY DEF HandlesInv, HandleTypes
  <2> QED
    BY <1>2, <1>9, <2>1 DEF HandleTypes
<1> QED
  BY <1>3, <1>4, <1>5, <1>9, <1>10

(* The same for one of the pointers that do not hold a product.            *)
LEMMA LetGoPlain ==
    ASSUME HandlesInv, NEW p \in Handle!Processes, NEW h \in DOMAIN pointer[p],
           NEW r, Letting(p, h, r), pointer[p][h].kind # "matvec",
           Handle!Settle(p, [pointer[p] EXCEPT ![h] = r]), Handle!Keep,
           \/ owners' = owners /\ r.counted = pointer[p][h].counted
           \/ owners' = Handle!fixed_sp_owner_release(p, h) /\ ~r.counted
    PROVE  HandlesInv'
<1>1. family # "matvec"
  BY DEF HandlesInv, PointersInv, PointerInv
<1>2. /\ UNCHANGED <<family, object, workspace, handleHeap, product>>
      /\ product = Handle!Idle
  BY DEF Handle!Keep, Handle!NoProduct
<1>3. BufferTypes' /\ BuffersInv' /\ ProductInv'
  BY <1>1, <1>2, PlainBuffers
<1>4. /\ HandleTypes' /\ ObjectsInv' /\ PointersInv' /\ LifeInv' /\ TornInv'
      /\ SlotsInv' /\ OwnersInv'
  BY <1>2, LetGo
<1> QED
  BY <1>3, <1>4 DEF HandlesInv

LEMMA HandleUnchanged ==
    ASSUME HandlesInv, UNCHANGED <<family, object, handleLife, torn, lease, pointer,
                                  owners, workspace, handleHeap, product>>
    PROVE  HandlesInv'
<1>1. HandleTypes' /\ ObjectsInv' /\ OwnersInv'
  <2>1. HandleTypes'
    BY DEF HandlesInv, HandleTypes
  <2>2. ObjectsInv'
    BY ObjectsKept
  <2>3. OwnersInv'
    BY OwnersUnchanged
  <2> QED
    BY <2>1, <2>2, <2>3
<1>2. PointersInv' /\ TornInv' /\ SlotsInv'
  <2>1. PointersInv'
    BY DEF HandlesInv, PointersInv, PointerInv
  <2>2. TornInv'
    BY DEF HandlesInv, TornInv
  <2>3. SlotsInv'
    BY DEF HandlesInv, SlotsInv, Alive
  <2> QED
    BY <2>1, <2>2, <2>3
<1>3. LifeInv'
  BY DEF HandlesInv, LifeInv, Alive, Temporary, Handle!Shared, Handle!Lineage
<1>4. BufferTypes' /\ BuffersInv' /\ ProductInv'
  BY DEF HandlesInv, BufferTypes, BuffersInv, ProductInv, WorkspaceInv, Kept, Holds,
         BuffersOf, InFlight
<1> QED
  BY <1>1, <1>2, <1>3, <1>4 DEF HandlesInv

(* A close that fails half way.                                            *)
LEMMA TeardownStep ==
    ASSUME HandlesInv, NEW h \in DOMAIN pointer[1],
           pointer[1][h].kind \in {"runtime", "prepared"}, pointer[1][h].value # 0,
           handleLife' = [handleLife EXCEPT ![1][pointer[1][h].value] = "teardown"],
           UNCHANGED <<pointer, torn, lease, owners>>, Handle!Keep
    PROVE  HandlesInv'
<1> DEFINE o == pointer[1][h].value
<1>1. /\ family # "matvec" /\ o \in DOMAIN object
      /\ object[o].kind \in {"runtime", "prepared"} /\ pointer[1][h].holder
  BY DEF HandlesInv, PointersInv, PointerInv, Handle!Processes
<1>2. /\ UNCHANGED <<family, object, workspace, handleHeap, product>>
      /\ product = Handle!Idle
  BY DEF Handle!Keep, Handle!NoProduct
<1>3. BufferTypes' /\ BuffersInv' /\ ProductInv'
  BY <1>1, <1>2, PlainBuffers
<1>4. Handle!Shared(pointer[1], o)
  BY <1>1 DEF Handle!Shared, Handle!Lineage
<1>5. Alive(1, o)
  BY <1>1, <1>4 DEF HandlesInv, LifeInv, Handle!Processes
<1> HIDE DEF o
<1>6. /\ handleLife \in [Handle!Processes -> [DOMAIN object -> Lives]]
      /\ handleLife' = [handleLife EXCEPT ![1] = [handleLife[1] EXCEPT ![o] = "teardown"]]
  BY DEF HandlesInv, HandleTypes, o
<1>7. /\ handleLife' \in [Handle!Processes -> [DOMAIN object -> Lives]]
      /\ \A q \in Handle!Processes, x \in DOMAIN object :
            handleLife'[q][x] = IF q = 1 /\ x = o THEN "teardown" ELSE handleLife[q][x]
  <2> DEFINE f == [handleLife[1] EXCEPT ![o] = "teardown"]
  <2>1. f \in [DOMAIN object -> Lives]
    BY <1>1, <1>6 DEF Lives, Handle!Processes
  <2>2. \A x \in DOMAIN object : f[x] = IF x = o THEN "teardown" ELSE handleLife[1][x]
    BY <1>1, <1>6 DEF Handle!Processes
  <2>3. handleLife' = [handleLife EXCEPT ![1] = f]
    BY <1>6
  <2> HIDE DEF f
  <2>4. handleLife' \in [Handle!Processes -> [DOMAIN object -> Lives]]
    BY <1>6, <2>1, <2>3
  <2>5. handleLife'[1] = f
    BY <1>6, <2>3 DEF Handle!Processes
  <2>6. \A q \in Handle!Processes \ {1} : handleLife'[q] = handleLife[q]
    BY <1>6, <2>3
  <2> QED
    BY <2>2, <2>4, <2>5, <2>6
<1>8. \A q \in Handle!Processes, x \in DOMAIN object : Alive(q, x)' <=> Alive(q, x)
  BY <1>5, <1>7 DEF Alive
<1>9. HandleTypes' /\ ObjectsInv' /\ OwnersInv' /\ PointersInv'
  <2>1. HandleTypes'
    BY <1>2, <1>7 DEF HandlesInv, HandleTypes
  <2>2. ObjectsInv'
    BY <1>2, ObjectsKept
  <2>3. OwnersInv'
    BY OwnersUnchanged
  <2>4. PointersInv'
    BY <1>2 DEF HandlesInv, PointersInv, PointerInv
  <2> QED
    BY <2>1, <2>2, <2>3, <2>4
<1>10. LifeInv'
  <2> SUFFICES ASSUME NEW q \in Handle!Processes, NEW x \in DOMAIN object
               PROVE  /\ Alive(q, x)' <=> Handle!Shared(pointer[q], x)
                      /\ q = 1 => handleLife'[q][x] # "none"
                      /\ handleLife'[q][x] = "teardown" => object[x].kind \in {"runtime", "prepared"}
    BY <1>2, SharedPrime DEF LifeInv, Temporary, Handle!Idle, Handle!Processes
  <2>1. /\ Alive(q, x) <=> Handle!Shared(pointer[q], x)
        /\ q = 1 => handleLife[q][x] # "none"
        /\ handleLife[q][x] = "teardown" => object[x].kind \in {"runtime", "prepared"}
    BY <1>2 DEF HandlesInv, LifeInv, Temporary, Handle!Idle
  <2> QED
    BY <2>1, <1>1, <1>7, <1>8
<1>11. TornInv'
  <2>1. \A x \in DOMAIN object : handleLife'[1][x] = "freed" <=> handleLife[1][x] = "freed"
    BY <1>5, <1>7 DEF Alive, Handle!Processes
  <2> QED
    BY <2>1, <1>2 DEF HandlesInv, TornInv
<1>12. SlotsInv'
  <2> SUFFICES ASSUME NEW q \in Handle!Processes, NEW x \in DOMAIN object, lease[q][x] # 0
               PROVE  /\ lease[q][x] \in DOMAIN object
                      /\ object[lease[q][x]].kind \in {"residual", "mp_residual"}
                      /\ Alive(q, lease[q][x])'
    BY <1>2 DEF SlotsInv, Alive, Handle!Processes
  <2> QED
    BY <1>8 DEF HandlesInv, SlotsInv
<1> QED
  BY <1>3, <1>9, <1>10, <1>11, <1>12 DEF HandlesInv

LEMMA CloseStep ==
    ASSUME HandlesInv, NEW p \in Handle!Processes, NEW h \in DOMAIN pointer[p],
           pointer[p][h].kind \in {"runtime", "prepared"},
           Handle!Close(p, h), Handle!Keep
    PROVE  HandlesInv'
<1> DEFINE q == pointer[p][h]
           released == [q EXCEPT !.value = 0, !.counted = FALSE]
           reset == [q EXCEPT !.value = 0]
<1>1. /\ Handle!Reset(p, h) = [pointer[p] EXCEPT ![h] = reset]
      /\ [Handle!Reset(p, h) EXCEPT ![h].counted = FALSE] = [pointer[p] EXCEPT ![h] = released]
      /\ Letting(p, h, reset) /\ Letting(p, h, released)
  <2> SUFFICES ASSUME NEW z, z = pointer[p][h]
               PROVE  /\ Handle!Reset(p, h) = [pointer[p] EXCEPT ![h] = [z EXCEPT !.value = 0]]
                      /\ [Handle!Reset(p, h) EXCEPT ![h].counted = FALSE] =
                            [pointer[p] EXCEPT ![h] = [z EXCEPT !.value = 0, !.counted = FALSE]]
                      /\ Letting(p, h, [z EXCEPT !.value = 0])
                      /\ Letting(p, h, [z EXCEPT !.value = 0, !.counted = FALSE])
    OBVIOUS
  <2>1. z.kind # "matvec"
    OBVIOUS
  <2>2. z = pointer[p][h]
    OBVIOUS
  <2> HIDE DEF q, released, reset
  <2>3. Handle!Reset(p, h) = [pointer[p] EXCEPT ![h] = [z EXCEPT !.value = 0]]
    BY <2>2 DEF Handle!Reset
  <2>5. [Handle!Reset(p, h) EXCEPT ![h].counted = FALSE] =
              [pointer[p] EXCEPT ![h] = [z EXCEPT !.value = 0, !.counted = FALSE]]
    <3>1. pointer[p] \in Seq(PointerRecord) /\ z \in PointerRecord
      BY <2>2 DEF HandlesInv, HandleTypes
    <3> QED
      BY <3>1, <2>3 DEF PointerRecord
  <2>4. z.kind # "matvec" =>
           /\ Letting(p, h, [z EXCEPT !.value = 0])
           /\ Letting(p, h, [z EXCEPT !.value = 0, !.counted = FALSE])
    BY <2>2, LettingShapes
  <2> QED
    BY <2>1, <2>3, <2>4, <2>5
<1>2. q \in PointerRecord
  BY DEF HandlesInv, HandleTypes
<1>3. ~released.counted /\ reset.counted = q.counted
  BY <1>2 DEF PointerRecord
<1>4. /\ UNCHANGED <<family, object, workspace, handleHeap, product>>
  BY DEF Handle!Keep, Handle!NoProduct
<1> HIDE DEF released, reset
<1>5. CASE /\ Handle!Settle(p, [pointer[p] EXCEPT ![h] = released])
           /\ owners' = Handle!fixed_sp_owner_release(p, h)
  BY <1>1, <1>3, <1>5, LetGoPlain
<1>6. CASE UNCHANGED <<pointer, handleLife, torn, lease, owners>>
  BY <1>4, <1>6, HandleUnchanged
<1>7. CASE Handle!Settle(p, [pointer[p] EXCEPT ![h] = reset]) /\ owners' = owners
  BY <1>1, <1>3, <1>7, LetGoPlain
<1>8. CASE /\ p = 1 /\ q.value # 0
           /\ handleLife' = [handleLife EXCEPT ![p][q.value] = "teardown"]
           /\ UNCHANGED <<pointer, torn, lease, owners>>
  BY <1>8, TeardownStep
<1> QED
  BY <1>1, <1>5, <1>6, <1>7, <1>8 DEF Handle!Close, Handle!Value

LEMMA ResidualReleaseStep ==
    ASSUME HandlesInv, NEW p \in Handle!Processes, NEW v,
           lease' = Handle!Unleased(p, v), family # "matvec",
           UNCHANGED <<pointer, handleLife, torn, owners>>, Handle!Keep
    PROVE  HandlesInv'
<1>1. UNCHANGED <<family, object, workspace, handleHeap, product>>
  BY DEF Handle!Keep, Handle!NoProduct
<1>2. BufferTypes' /\ BuffersInv' /\ ProductInv'
  BY <1>1, PlainBuffers
<1>3. /\ lease \in [Handle!Processes -> [DOMAIN object -> Nat]]
      /\ lease' = [lease EXCEPT ![p] =
            [x \in DOMAIN object |-> IF lease[p][x] = v THEN 0 ELSE lease[p][x]]]
  BY DEF HandlesInv, HandleTypes, Handle!Unleased
<1>4. [x \in DOMAIN object |-> IF lease[p][x] = v THEN 0 ELSE lease[p][x]] \in [DOMAIN object -> Nat]
  BY <1>3
<1>5. /\ lease' \in [Handle!Processes -> [DOMAIN object -> Nat]]
      /\ \A q \in Handle!Processes, x \in DOMAIN object :
            lease'[q][x] = 0 \/ lease'[q][x] = lease[q][x]
  BY <1>3, <1>4
<1>6. HandleTypes' /\ ObjectsInv' /\ OwnersInv' /\ PointersInv' /\ LifeInv' /\ TornInv'
  <2>1. HandleTypes' /\ TornInv'
    BY <1>1, <1>5 DEF HandlesInv, HandleTypes, TornInv
  <2>2. ObjectsInv' /\ OwnersInv'
    BY <1>1, ObjectsKept, OwnersUnchanged
  <2>3. PointersInv' /\ LifeInv'
    BY <1>1 DEF HandlesInv, PointersInv, PointerInv, LifeInv, Alive, Temporary,
                Handle!Shared, Handle!Lineage
  <2> QED
    BY <2>1, <2>2, <2>3
<1>7. SlotsInv'
  <2> SUFFICES ASSUME NEW q \in Handle!Processes, NEW x \in DOMAIN object, lease'[q][x] # 0
               PROVE  /\ lease'[q][x] \in DOMAIN object
                      /\ object[lease'[q][x]].kind \in {"residual", "mp_residual"}
                      /\ Alive(q, lease'[q][x])
    BY <1>1 DEF SlotsInv, Alive, Handle!Processes
  <2>1. lease'[q][x] = lease[q][x]
    BY <1>5
  <2> QED
    BY <2>1 DEF HandlesInv, SlotsInv
<1> QED
  BY <1>2, <1>6, <1>7 DEF HandlesInv

LEMMA EmptiedStep ==
    ASSUME HandlesInv, NEW p \in Handle!Processes, NEW h \in DOMAIN pointer[p],
           pointer[p][h].kind # "matvec",
           Handle!Settle(p, Handle!Emptied(p, h)), Handle!Keep,
           \/ owners' = Handle!fixed_sp_owner_release(p, h)
           \/ owners' = owners /\ pointer[p][h].kind \notin Handle!Counted
    PROVE  HandlesInv'
<1> DEFINE r == Handle!Pointer(pointer[p][h].kind, 0)
<1>1. Letting(p, h, r)
  BY LettingShapes
<1>2. Handle!Emptied(p, h) = [pointer[p] EXCEPT ![h] = r]
  BY DEF Handle!Emptied
<1>3. r.counted = FALSE
  BY DEF Handle!Pointer
<1>4. pointer[p][h].kind \notin Handle!Counted => pointer[p][h].counted = FALSE
  <2>1. pointer[p][h] \in PointerRecord
    BY DEF HandlesInv, HandleTypes
  <2> QED
    BY <2>1 DEF HandlesInv, PointersInv, PointerInv, PointerRecord
<1> HIDE DEF r
<1> QED
  BY <1>1, <1>2, <1>3, <1>4, LetGoPlain

LEMMA MultiPenaltyFreeStep ==
    ASSUME HandlesInv, NEW p \in Handle!Processes, NEW h \in DOMAIN pointer[p],
           pointer[p][h].kind = "mp_prepared",
           Handle!Settle(p, Handle!Reset(p, h)), Handle!Keep, UNCHANGED owners
    PROVE  HandlesInv'
<1> DEFINE r == [pointer[p][h] EXCEPT !.value = 0]
<1>1. Letting(p, h, r)
  <2> SUFFICES ASSUME NEW z, z = pointer[p][h] PROVE Letting(p, h, [z EXCEPT !.value = 0])
    OBVIOUS
  <2>1. z.kind # "matvec"
    OBVIOUS
  <2> QED
    BY <2>1, LettingShapes
<1>2. Handle!Reset(p, h) = [pointer[p] EXCEPT ![h] = r]
  BY DEF Handle!Reset
<1>3. r.counted = pointer[p][h].counted
  <2>1. pointer[p][h] \in PointerRecord
    BY DEF HandlesInv, HandleTypes
  <2> QED
    BY <2>1 DEF PointerRecord
<1> HIDE DEF r
<1> QED
  BY <1>1, <1>2, <1>3, LetGoPlain

-----------------------------------------------------------------------------
(* Making objects.                                                         *)

Grown(S, n, f, v) ==
    /\ Append(f, v) \in [1 .. n + 1 -> S]
    /\ \A i \in 1 .. n : Append(f, v)[i] = f[i]
    /\ Append(f, v)[n + 1] = v

LEMMA AppendGrows ==
    ASSUME NEW S, NEW n \in Nat, NEW f \in [1 .. n -> S], NEW v \in S
    PROVE  Grown(S, n, f, v)
<1>1. f \in Seq(S) /\ Len(f) = n
  BY SeqDef
<1>2. /\ Append(f, v) \in Seq(S) /\ Len(Append(f, v)) = n + 1
      /\ \A i \in 1 .. n : Append(f, v)[i] = f[i]
      /\ Append(f, v)[n + 1] = v
  BY <1>1, AppendProperties
<1>3. Append(f, v) \in [1 .. n + 1 -> S]
  BY <1>2, LenProperties
<1> QED
  BY <1>2, <1>3 DEF Grown

LEMMA ObjectsGrow ==
    ASSUME HandlesInv, NEW kind \in Handle!Kinds, NEW parent \in Nat,
           object' = Append(object, [kind |-> kind, parent |-> parent])
    PROVE  /\ object' \in Seq([kind : Handle!Kinds, parent : Nat])
           /\ Len(object) \in Nat /\ DOMAIN object = 1 .. Len(object)
           /\ Len(object') = Len(object) + 1
           /\ DOMAIN object' = 1 .. (Len(object) + 1)
           /\ \A x \in DOMAIN object : object'[x] = object[x]
           /\ object'[Len(object) + 1].kind = kind
           /\ object'[Len(object) + 1].parent = parent
<1>1. object \in Seq([kind : Handle!Kinds, parent : Nat])
  BY DEF HandlesInv, HandleTypes
<1> QED
  BY <1>1

LEMMA LineageKept ==
    ASSUME HandlesInv, NEW kind \in Handle!Kinds, NEW parent \in Nat,
           object' = Append(object, [kind |-> kind, parent |-> parent]),
           NEW v \in DOMAIN object
    PROVE  /\ Handle!Lineage(v)' = Handle!Lineage(v)
           /\ Handle!Lineage(v) \subseteq DOMAIN object \cup {0}
<1>1. Made(v) /\ (object[v].parent \in DOMAIN object => Made(object[v].parent))
  BY DEF HandlesInv, ObjectsInv
<1>2. \A x \in DOMAIN object : object'[x] = object[x]
  BY ObjectsGrow
<1>3. object[v].parent # 0 =>
          /\ object[v].parent \in DOMAIN object
          /\ object[object[v].parent].parent \in DOMAIN object \cup {0}
  BY <1>1 DEF Made
<1> QED
  BY <1>2, <1>3 DEF Handle!Lineage

(* What a new object needs of its maker.                                   *)
Makes(kind, parent) ==
    LET From(maker) ==
            \E h \in DOMAIN pointer[1] :
                /\ pointer[1][h].holder /\ pointer[1][h].value = parent
                /\ parent # 0 /\ pointer[1][h].kind = maker
    IN  CASE kind = "prepared" -> From("runtime")
          [] kind = "residual" -> From("prepared")
          [] kind = "mp_residual" -> From("mp_prepared")
          [] OTHER -> parent = 0

LEMMA MakesObject ==
    ASSUME HandlesInv, NEW kind \in Handle!Kinds, NEW parent \in Nat, Makes(kind, parent),
           object' = Append(object, [kind |-> kind, parent |-> parent]),
           kind = "matvec" <=> family = "matvec", family' = family,
           NEW o, o = Len(object) + 1
    PROVE  /\ ObjectsInv'
           /\ \A x \in Handle!Lineage(o)' :
                 \/ x = o \/ x = 0
                 \/ x \in DOMAIN object /\ Handle!Shared(pointer[1], x)
<1>1. /\ Len(object) \in Nat /\ DOMAIN object = 1 .. Len(object)
      /\ DOMAIN object' = 1 .. o
      /\ \A x \in DOMAIN object : object'[x] = object[x]
      /\ object'[o].kind = kind /\ object'[o].parent = parent
  BY ObjectsGrow
<1>2. \A h \in DOMAIN pointer[1] : pointer[1][h].value # 0 =>
          /\ pointer[1][h].value \in DOMAIN object
          /\ object[pointer[1][h].value].kind = pointer[1][h].kind
  BY DEF HandlesInv, PointersInv, PointerInv, Handle!Processes
<1>3. parent # 0 => /\ parent \in DOMAIN object
                    /\ \E h \in DOMAIN pointer[1] :
                          pointer[1][h].holder /\ pointer[1][h].value = parent
  BY <1>2 DEF Makes
<1>4. Made(o)'
  BY <1>1, <1>2 DEF Makes, Made
<1>5. ObjectsInv'
  <2> SUFFICES ASSUME NEW x \in DOMAIN object'
               PROVE  Made(x)' /\ (object'[x].kind = "matvec" <=> family = "matvec")
    BY DEF ObjectsInv
  <2>1. CASE x = o
    BY <2>1, <1>1, <1>4
  <2>2. CASE x # o
    <3>1. x \in DOMAIN object /\ object'[x] = object[x]
      BY <2>2, <1>1
    <3>2. Made(x) /\ (object[x].kind = "matvec" <=> family = "matvec")
      BY <3>1 DEF HandlesInv, ObjectsInv
    <3>3. \A y \in DOMAIN object : y \in DOMAIN object' /\ object'[y] = object[y]
      BY <1>1
    <3> QED
      BY <3>1, <3>2, <3>3 DEF Made
  <2> QED
    BY <2>1, <2>2
<1>6. ASSUME NEW x \in Handle!Lineage(o)'
      PROVE  x = o \/ x = 0 \/ (x \in DOMAIN object /\ Handle!Shared(pointer[1], x))
  <2>1. CASE parent = 0
    BY <2>1, <1>1 DEF Handle!Lineage
  <2>2. CASE parent # 0
    <3>1. PICK h \in DOMAIN pointer[1] : pointer[1][h].holder /\ pointer[1][h].value = parent
      BY <2>2, <1>3
    <3>2. parent \in DOMAIN object /\ object'[parent] = object[parent]
      BY <2>2, <1>1, <1>3
    <3>3. x = o \/ x \in {parent, object[parent].parent}
      BY <1>1, <3>2, <2>2 DEF Handle!Lineage
    <3>4. x = o \/ x \in Handle!Lineage(parent)
      BY <3>3 DEF Handle!Lineage
    <3>5. x = o \/ Handle!Shared(pointer[1], x)
      BY <3>4, <3>1, <2>2 DEF Handle!Shared
    <3>6. Handle!Lineage(parent) \subseteq DOMAIN object \cup {0}
      BY <3>2, LineageKept
    <3> QED
      BY <3>4, <3>5, <3>6
  <2> QED
    BY <2>1, <2>2
<1> QED
  BY <1>5, <1>6

(* The pointer to a new object, and the pointers before and after it.      *)
LEMMA PointerShape ==
    ASSUME NEW kind \in Handle!Kinds, NEW o \in Nat
    PROVE  /\ Handle!Pointer(kind, o) \in PointerRecord
           /\ Handle!Pointer(kind, o).kind = kind /\ Handle!Pointer(kind, o).value = o
           /\ Handle!Pointer(kind, o).holder <=> o # 0
           /\ Handle!Pointer(kind, o).counted <=> o # 0 /\ kind \in Handle!Counted
<1> DEFINE b == o # 0 /\ kind \in Handle!Counted
           a == o # 0
<1>1. /\ a \in BOOLEAN /\ b \in BOOLEAN
      /\ b <=> o # 0 /\ kind \in Handle!Counted
      /\ a <=> o # 0
  OBVIOUS
<1>2. Handle!Pointer(kind, o) = [kind |-> kind, holder |-> a, value |-> o, counted |-> b]
  BY DEF Handle!Pointer
<1> HIDE DEF a, b
<1> QED
  BY <1>1, <1>2 DEF PointerRecord

(* Making an object shares that object and no other.                       *)
LEMMA SharedGrown ==
    ASSUME HandlesInv, NEW kind \in Handle!Kinds, NEW parent \in Nat, Makes(kind, parent),
           object' = Append(object, [kind |-> kind, parent |-> parent]),
           kind = "matvec" <=> family = "matvec", family' = family,
           NEW o, o = Len(object) + 1, NEW q \in Handle!Processes, NEW r \in PointerRecord,
           r.holder, r.value = o,
           pointer'[q] = pointer[q] \/ (q = 1 /\ pointer'[q] = Append(pointer[q], r))
    PROVE  /\ \A x \in DOMAIN object :
                 Handle!Shared(pointer[q], x)' <=> Handle!Shared(pointer[q], x)
           /\ pointer'[q] = pointer[q] => ~Handle!Shared(pointer[q], o)'
           /\ pointer'[q] # pointer[q] => Handle!Shared(pointer[q], o)'
<1>1. /\ Len(object) \in Nat /\ DOMAIN object = 1 .. Len(object)
      /\ DOMAIN object' = 1 .. o /\ o \notin DOMAIN object /\ o # 0
  BY ObjectsGrow
<1>2. \A h \in DOMAIN pointer[q] : pointer[q][h].value # 0 =>
          pointer[q][h].value \in DOMAIN object
  BY DEF HandlesInv, PointersInv, PointerInv
<1>3. \A v \in DOMAIN object :
          /\ Handle!Lineage(v)' = Handle!Lineage(v)
          /\ o \notin Handle!Lineage(v)
  BY <1>1, LineageKept
<1>4. o \in Handle!Lineage(o)' /\
      \A x \in Handle!Lineage(o)' :
          x = o \/ x = 0 \/ (x \in DOMAIN object /\ Handle!Shared(pointer[1], x))
  <2>1. o \in Handle!Lineage(o)'
    BY DEF Handle!Lineage
  <2> QED
    BY <2>1, MakesObject
<1>5. Handle!Shared(pointer[q], o) => FALSE
  BY <1>2, <1>3 DEF Handle!Shared
<1>6. \A x : Handle!Shared(pointer[q], x)' <=>
          \E h \in DOMAIN pointer'[q] : \E v :
              /\ pointer'[q][h].holder /\ pointer'[q][h].value = v /\ v # 0
              /\ x \in Handle!Lineage(v)'
  BY DEF Handle!Shared, Handle!Lineage
<1>7. \A x : Handle!Shared(pointer[q], x) <=>
          \E h \in DOMAIN pointer[q] : \E v :
              /\ pointer[q][h].holder /\ pointer[q][h].value = v /\ v # 0
              /\ x \in Handle!Lineage(v)
  BY DEF Handle!Shared
<1>8. CASE pointer'[q] = pointer[q]
  <2>1. \A x : Handle!Shared(pointer[q], x)' <=> Handle!Shared(pointer[q], x)
    BY <1>2, <1>3, <1>6, <1>7, <1>8
  <2> QED
    BY <2>1, <1>5, <1>8
<1>9. CASE q = 1 /\ pointer'[q] = Append(pointer[q], r)
  <2>1. pointer[q] \in Seq(PointerRecord)
    BY DEF HandlesInv, HandleTypes
  <2>2. /\ DOMAIN pointer[q] = 1 .. Len(pointer[q]) /\ Len(pointer[q]) \in Nat
        /\ DOMAIN pointer'[q] = 1 .. (Len(pointer[q]) + 1)
        /\ pointer'[q][Len(pointer[q]) + 1] = r
        /\ \A h \in DOMAIN pointer[q] : pointer'[q][h] = pointer[q][h]
    BY <2>1, <1>9
  <2>3. Handle!Shared(pointer[q], o)'
    BY <2>2, <1>1, <1>4, <1>6
  <2>4. pointer'[q] # pointer[q]
    BY <2>2
  <2>5. \A x : Handle!Shared(pointer[q], x) => Handle!Shared(pointer[q], x)'
    BY <2>2, <1>2, <1>3, <1>6, <1>7
  <2>6. ASSUME NEW x \in DOMAIN object, Handle!Shared(pointer[q], x)'
        PROVE  Handle!Shared(pointer[q], x)
    <3>1. PICK h \in DOMAIN pointer'[q] : \E v :
              /\ pointer'[q][h].holder /\ pointer'[q][h].value = v /\ v # 0
              /\ x \in Handle!Lineage(v)'
      BY <2>6, <1>6
    <3>2. CASE h \in DOMAIN pointer[q]
      BY <3>1, <3>2, <2>2, <1>2, <1>3, <1>7
    <3>3. CASE h = Len(pointer[q]) + 1
      <4>1. x \in Handle!Lineage(o)'
        BY <3>1, <3>3, <2>2
      <4> QED
        BY <4>1, <1>1, <1>4, <1>9
    <3> QED
      BY <3>2, <3>3, <2>2
  <2> QED
    BY <2>3, <2>4, <2>5, <2>6
<1> QED
  BY <1>8, <1>9

(* A value more for every process at the new object.                       *)
AllGrown(S, n, f, w, g) ==
    /\ g \in [Handle!Processes -> [1 .. n + 1 -> S]]
    /\ \A q \in Handle!Processes :
          /\ \A x \in 1 .. n : g[q][x] = f[q][x]
          /\ g[q][n + 1] = w[q]

LEMMA ProcessesGrow ==
    ASSUME NEW S, NEW n \in Nat, NEW f \in [Handle!Processes -> [1 .. n -> S]],
           NEW w \in [Handle!Processes -> S], NEW g,
           g = [p \in Handle!Processes |-> Append(f[p], w[p])]
    PROVE  AllGrown(S, n, f, w, g)
<1>1. ASSUME NEW q \in Handle!Processes
      PROVE  /\ g[q] \in [1 .. n + 1 -> S]
             /\ \A x \in 1 .. n : g[q][x] = f[q][x]
             /\ g[q][n + 1] = w[q]
  <2>1. f[q] \in [1 .. n -> S] /\ w[q] \in S
    OBVIOUS
  <2>2. Grown(S, n, f[q], w[q])
    BY <2>1, AppendGrows
  <2>3. g[q] = Append(f[q], w[q])
    OBVIOUS
  <2> QED
    BY <2>2, <2>3 DEF Grown
<1> QED
  BY <1>1 DEF AllGrown

Born(kind, parent) ==
    /\ object' = Append(object, [kind |-> kind, parent |-> parent])
    /\ handleLife' = [p \in Handle!Processes |->
           Append(handleLife[p], IF p = 1 THEN "usable" ELSE "none")]
    /\ torn' = [p \in Handle!Processes |-> Append(torn[p], 0)]

LEMMA BornMaps ==
    ASSUME HandlesInv, NEW kind \in Handle!Kinds, NEW parent \in Nat, Born(kind, parent)
    PROVE  /\ handleLife' \in [Handle!Processes -> [DOMAIN object' -> Lives]]
           /\ torn' \in [Handle!Processes -> [DOMAIN object' -> Nat]]
           /\ \A q \in Handle!Processes :
                 /\ \A x \in DOMAIN object :
                       handleLife'[q][x] = handleLife[q][x] /\ torn'[q][x] = torn[q][x]
                 /\ handleLife'[q][Len(object) + 1] = IF q = 1 THEN "usable" ELSE "none"
                 /\ torn'[q][Len(object) + 1] = 0
<1>1. /\ Len(object) \in Nat /\ DOMAIN object = 1 .. Len(object)
      /\ DOMAIN object' = 1 .. (Len(object) + 1)
  BY ObjectsGrow DEF Born
<1>2. /\ handleLife \in [Handle!Processes -> [1 .. Len(object) -> Lives]]
      /\ torn \in [Handle!Processes -> [1 .. Len(object) -> Nat]]
  BY <1>1 DEF HandlesInv, HandleTypes
<1> DEFINE made == [p \in Handle!Processes |-> IF p = 1 THEN "usable" ELSE "none"]
           whole == [p \in Handle!Processes |-> 0]
<1>3. /\ made \in [Handle!Processes -> Lives] /\ whole \in [Handle!Processes -> Nat]
      /\ \A p \in Handle!Processes :
            made[p] = (IF p = 1 THEN "usable" ELSE "none") /\ whole[p] = 0
  BY DEF Lives
<1>4. /\ handleLife' = [p \in Handle!Processes |-> Append(handleLife[p], made[p])]
      /\ torn' = [p \in Handle!Processes |-> Append(torn[p], whole[p])]
  BY DEF Born
<1> HIDE DEF made, whole
<1>5. AllGrown(Lives, Len(object), handleLife, made, handleLife')
  BY <1>1, <1>2, <1>3, <1>4, ProcessesGrow
<1>6. AllGrown(Nat, Len(object), torn, whole, torn')
  BY <1>1, <1>2, <1>3, <1>4, ProcessesGrow
<1> QED
  BY <1>1, <1>3, <1>5, <1>6 DEF AllGrown

(* The leases: a new residual has the slot of its setup.                   *)
Leased(kind) ==
    /\ lease' \in [Handle!Processes -> [DOMAIN object' -> Nat]]
    /\ \A q \in Handle!Processes :
          /\ lease'[q][Len(object) + 1] = 0
          /\ \A x \in DOMAIN object :
                \/ lease'[q][x] = lease[q][x]
                \/ /\ q = 1 /\ lease'[q][x] = Len(object) + 1
                   /\ kind \in {"residual", "mp_residual"}

(* The new object has a pointer, or is that of one solve.                  *)
Reached(kind) ==
    LET o == Len(object) + 1 IN
    /\ pointer'[2] = pointer[2]
    /\ \/ /\ pointer' = [pointer EXCEPT ![1] = Append(pointer[1], Handle!Pointer(kind, o))]
          /\ product' = Handle!Idle
       \/ /\ pointer' = pointer /\ product'.temporary /\ product'.object = o

(* The new object lives in the maker, and nowhere else.                    *)
LEMMA BornLife ==
    ASSUME HandlesInv, NEW kind \in Handle!Kinds, NEW parent \in Nat, Makes(kind, parent),
           Born(kind, parent), kind = "matvec" <=> family = "matvec", family' = family,
           Leased(kind), Reached(kind), product = Handle!Idle
    PROVE  LifeInv' /\ TornInv' /\ SlotsInv'
<1> SUFFICES ASSUME NEW o, o = Len(object) + 1 PROVE LifeInv' /\ TornInv' /\ SlotsInv'
  OBVIOUS
<1>1. /\ Len(object) \in Nat /\ DOMAIN object = 1 .. Len(object)
      /\ DOMAIN object' = 1 .. o /\ o \notin DOMAIN object /\ o # 0 /\ o \in Nat
      /\ \A x \in DOMAIN object : object'[x] = object[x]
      /\ object'[o].kind = kind
      /\ \A x \in DOMAIN object' : x = o \/ x \in DOMAIN object
  BY ObjectsGrow DEF Born
<1>2. \A q \in Handle!Processes :
          /\ \A x \in DOMAIN object :
                handleLife'[q][x] = handleLife[q][x] /\ torn'[q][x] = torn[q][x]
          /\ handleLife'[q][o] = IF q = 1 THEN "usable" ELSE "none"
          /\ torn'[q][o] = 0
  BY BornMaps
<1>3. \A q \in Handle!Processes :
          /\ lease'[q][o] = 0
          /\ \A x \in DOMAIN object :
                \/ lease'[q][x] = lease[q][x]
                \/ q = 1 /\ lease'[q][x] = o /\ kind \in {"residual", "mp_residual"}
  BY DEF Leased
<1>5. PICK r \in PointerRecord : r.holder /\ r.value = o /\ r = Handle!Pointer(kind, o)
  BY <1>1, PointerShape
<1>6. \A q \in Handle!Processes :
          \/ pointer'[q] = pointer[q]
          \/ q = 1 /\ pointer'[q] = Append(pointer[q], r)
  BY <1>5 DEF Reached, Handle!Processes, HandlesInv, HandleTypes
<1>7. \A q \in Handle!Processes :
          /\ \A x \in DOMAIN object :
                Handle!Shared(pointer[q], x)' <=> Handle!Shared(pointer[q], x)
          /\ pointer'[q] = pointer[q] => ~Handle!Shared(pointer[q], o)'
          /\ pointer'[q] # pointer[q] => Handle!Shared(pointer[q], o)'
  BY <1>5, <1>6, SharedGrown DEF Born
<1>8. /\ pointer' = pointer => product'.temporary /\ product'.object = o
      /\ pointer' # pointer => product' = Handle!Idle /\ pointer'[1] # pointer[1]
  BY DEF Reached, Handle!Processes, HandlesInv, HandleTypes
<1>9. \A q \in Handle!Processes :
          /\ Alive(q, o)' <=> q = 1
          /\ \A x \in DOMAIN object : Alive(q, x)' <=> Alive(q, x)
  BY <1>2 DEF Alive
<1>10. \A q \in Handle!Processes :
          /\ Temporary(q, o)' <=> q = 1 /\ pointer' = pointer
          /\ \A x \in DOMAIN object : ~Temporary(q, x)' /\ ~Temporary(q, x)
  BY <1>1, <1>8 DEF Temporary, Handle!Idle
<1>11. LifeInv'
  <2> SUFFICES ASSUME NEW q \in Handle!Processes, NEW x \in DOMAIN object'
               PROVE  /\ Alive(q, x)' <=> Handle!Shared(pointer[q], x)' \/ Temporary(q, x)'
                      /\ q = 1 => handleLife'[q][x] # "none"
                      /\ handleLife'[q][x] = "teardown" =>
                            object'[x].kind \in {"runtime", "prepared"}
    BY DEF LifeInv, Handle!Processes
  <2>1. CASE x = o
    <3>1. q = 1 => (pointer'[q] # pointer[q] <=> pointer' # pointer)
      BY <1>8
    <3>2. q # 1 => pointer'[q] = pointer[q]
      BY <1>6
    <3> QED
      BY <2>1, <3>1, <3>2, <1>2, <1>7, <1>9, <1>10
  <2>2. CASE x \in DOMAIN object
    BY <2>2, <1>1, <1>2, <1>7, <1>9, <1>10 DEF HandlesInv, LifeInv
  <2> QED
    BY <2>1, <2>2, <1>1
<1>12. TornInv'
  <2> SUFFICES ASSUME NEW x \in DOMAIN object'
               PROVE  /\ torn'[1][x] = IF handleLife'[1][x] = "freed" THEN 1 ELSE 0
                      /\ object'[x].kind \in Handle!Counted => torn'[2][x] = 0
    BY DEF TornInv, Handle!Counted
  <2>1. CASE x = o
    BY <2>1, <1>2 DEF Handle!Processes
  <2>2. CASE x \in DOMAIN object
    BY <2>2, <1>1, <1>2 DEF HandlesInv, TornInv, Handle!Processes
  <2> QED
    BY <2>1, <2>2, <1>1
<1>13. SlotsInv'
  <2> SUFFICES ASSUME NEW q \in Handle!Processes, NEW x \in DOMAIN object', lease'[q][x] # 0
               PROVE  /\ lease'[q][x] \in DOMAIN object'
                      /\ object'[lease'[q][x]].kind \in {"residual", "mp_residual"}
                      /\ handleLife'[q][lease'[q][x]] \in {"usable", "teardown"}
    BY DEF SlotsInv, Alive, Handle!Processes
  <2>1. x \in DOMAIN object
    BY <1>1, <1>3
  <2>2. CASE lease'[q][x] = lease[q][x]
    <3>1. /\ lease[q][x] \in DOMAIN object
          /\ object[lease[q][x]].kind \in {"residual", "mp_residual"}
          /\ Alive(q, lease[q][x])
      BY <2>1, <2>2 DEF HandlesInv, SlotsInv
    <3> QED
      BY <3>1, <2>2, <1>1, <1>2 DEF Alive
  <2>3. CASE q = 1 /\ lease'[q][x] = o /\ kind \in {"residual", "mp_residual"}
    BY <2>3, <1>1, <1>2
  <2> QED
    BY <2>1, <2>2, <2>3, <1>3
<1> QED
  BY <1>11, <1>12, <1>13

(* One pointer more in the maker.                                          *)
PointerLast(r) == pointer' = [pointer EXCEPT ![1] = Append(pointer[1], r)]

LEMMA PointerAdded ==
    ASSUME HandlesInv, NEW r \in PointerRecord, PointerLast(r), NEW g, g = Len(pointer[1]) + 1
    PROVE  /\ pointer' \in [Handle!Processes -> Seq(PointerRecord)]
           /\ pointer'[2] = pointer[2]
           /\ DOMAIN pointer'[1] = DOMAIN pointer[1] \cup {g} /\ g \notin DOMAIN pointer[1]
           /\ \A h \in DOMAIN pointer[1] : pointer'[1][h] = pointer[1][h]
           /\ pointer'[1][g] = r
<1>1. pointer \in [Handle!Processes -> Seq(PointerRecord)] /\ 1 \in Handle!Processes
  BY DEF HandlesInv, HandleTypes, Handle!Processes
<1>2. pointer[1] \in Seq(PointerRecord)
  BY <1>1
<1>3. Append(pointer[1], r) \in Seq(PointerRecord)
  BY <1>2
<1>4. /\ pointer' \in [Handle!Processes -> Seq(PointerRecord)]
      /\ pointer'[2] = pointer[2] /\ pointer'[1] = Append(pointer[1], r)
  BY <1>1, <1>3 DEF PointerLast, Handle!Processes
<1>5. /\ DOMAIN pointer[1] = 1 .. Len(pointer[1]) /\ Len(pointer[1]) \in Nat
      /\ DOMAIN pointer'[1] = 1 .. (Len(pointer[1]) + 1)
      /\ \A h \in DOMAIN pointer[1] : pointer'[1][h] = pointer[1][h]
      /\ pointer'[1][g] = r
  BY <1>2, <1>4
<1> QED
  BY <1>4, <1>5

LEMMA OwnersAdded ==
    ASSUME HandlesInv, NEW r \in PointerRecord, PointerLast(r),
           r.counted => r.kind \in Handle!Counted,
           owners' = IF r.counted THEN Handle!fixed_sp_owner_acquire(1, r.kind) ELSE owners
    PROVE  OwnersInv' /\ owners' \in [Handle!Processes -> [Handle!Counted -> Nat]]
<1> SUFFICES ASSUME NEW g, g = Len(pointer[1]) + 1, NEW c, c = r.kind
             PROVE  OwnersInv' /\ owners' \in [Handle!Processes -> [Handle!Counted -> Nat]]
  OBVIOUS
<1>1. /\ pointer'[2] = pointer[2]
      /\ DOMAIN pointer'[1] = DOMAIN pointer[1] \cup {g} /\ g \notin DOMAIN pointer[1]
      /\ \A h \in DOMAIN pointer[1] : pointer'[1][h] = pointer[1][h]
      /\ pointer'[1][g] = r
  BY PointerAdded
<1>2. owners \in [Handle!Processes -> [Handle!Counted -> Nat]]
  BY DEF HandlesInv, HandleTypes
<1>3. \A q \in Handle!Processes, k \in Handle!Counted :
          owners[q][k] = Cardinality(OwnersOf(q, k))
  BY DEF HandlesInv, OwnersInv
<1>4. \A k : /\ OwnersOf(2, k)' = OwnersOf(2, k)
             /\ OwnersOf(1, k)' = IF r.counted /\ k = c THEN OwnersOf(1, k) \cup {g}
                                  ELSE OwnersOf(1, k)
  BY <1>1 DEF OwnersOf
<1>5. CASE ~r.counted
  <2>1. owners' = owners
    BY <1>5
  <2>2. \A q \in Handle!Processes, k \in Handle!Counted :
            owners'[q][k] = Cardinality(OwnersOf(q, k)')
    BY <1>3, <1>4, <1>5, <2>1 DEF Handle!Processes
  <2> QED
    BY <1>2, <2>1, <2>2 DEF OwnersInv, Handle!Processes, Handle!Counted
<1>6. CASE r.counted
  <2>0. 1 \in Handle!Processes
    BY DEF Handle!Processes
  <2>1. IsFiniteSet(OwnersOf(1, c)) /\ g \notin OwnersOf(1, c)
    <3>1. IsFiniteSet(OwnersOf(1, c))
      BY <2>0, OwnersFinite
    <3> QED
      BY <3>1, <1>1 DEF OwnersOf
  <2>2. Cardinality(OwnersOf(1, c) \cup {g}) = Cardinality(OwnersOf(1, c)) + 1
    BY <2>1, FS_AddElement
  <2>3. owners' = [owners EXCEPT ![1][c] = owners[1][c] + 1] /\ c \in Handle!Counted
    BY <1>6 DEF Handle!fixed_sp_owner_acquire
  <2>4. owners[1][c] \in Nat
    BY <1>2, <2>3 DEF Handle!Processes
  <2>5. owners' \in [Handle!Processes -> [Handle!Counted -> Nat]]
    BY <1>2, <2>3, <2>4 DEF Handle!Processes
  <2>6. \A q \in Handle!Processes, k \in Handle!Counted :
            owners'[q][k] = IF q = 1 /\ k = c THEN owners[1][c] + 1 ELSE owners[q][k]
    BY <1>2, <2>3 DEF Handle!Processes
  <2>7. \A q \in Handle!Processes, k \in Handle!Counted :
            owners'[q][k] = Cardinality(OwnersOf(q, k)')
    <3> SUFFICES ASSUME NEW q \in Handle!Processes, NEW k \in Handle!Counted
                 PROVE  owners'[q][k] = Cardinality(OwnersOf(q, k)')
      OBVIOUS
    <3>1. CASE q = 1 /\ k = c
      <4>1. OwnersOf(q, k)' = OwnersOf(1, c) \cup {g}
        BY <1>4, <1>6, <3>1
      <4> QED
        BY <4>1, <3>1, <2>2, <2>6, <1>3
    <3>2. CASE ~(q = 1 /\ k = c)
      <4>1. OwnersOf(q, k)' = OwnersOf(q, k)
        BY <1>4, <3>2 DEF Handle!Processes
      <4> QED
        BY <4>1, <3>2, <2>6, <1>3
    <3> QED
      BY <3>1, <3>2
  <2> QED
    BY <2>5, <2>7 DEF OwnersInv, Handle!Processes, Handle!Counted
<1> QED
  BY <1>5, <1>6

(* Objects only grow, so the pointers there were still fit theirs.         *)
LEMMA PointersKept ==
    ASSUME HandlesInv, family' = family,
           DOMAIN object \subseteq DOMAIN object',
           \A x \in DOMAIN object : object'[x] = object[x],
           NEW q \in Handle!Processes, NEW h \in DOMAIN pointer[q],
           h \in DOMAIN pointer'[q], pointer'[q][h] = pointer[q][h]
    PROVE  PointerInv(q, h)' /\ PointerInv(q, h)
<1>1. PointerInv(q, h)
  BY DEF HandlesInv, PointersInv
<1> QED
  BY <1>1 DEF PointerInv

(* A pointer more fits when its value is a new object, or none.            *)
LEMMA PointersAdded ==
    ASSUME HandlesInv, family' = family,
           DOMAIN object \subseteq DOMAIN object',
           \A x \in DOMAIN object : object'[x] = object[x],
           NEW r \in PointerRecord, PointerLast(r),
           r.counted => r.holder /\ r.kind \in Handle!Counted,
           r.value # 0 => /\ r.holder /\ r.value \in DOMAIN object' \ DOMAIN object
                          /\ object'[r.value].kind = r.kind
                          /\ r.kind \in Handle!Counted => r.counted,
           r.kind = "matvec" <=> family = "matvec",
           r.kind = "matvec" /\ r.holder => r.value # 0
    PROVE  PointersInv'
<1> SUFFICES ASSUME NEW g, g = Len(pointer[1]) + 1 PROVE PointersInv'
  OBVIOUS
<1>1. /\ pointer'[2] = pointer[2]
      /\ DOMAIN pointer'[1] = DOMAIN pointer[1] \cup {g} /\ g \notin DOMAIN pointer[1]
      /\ \A h \in DOMAIN pointer[1] : pointer'[1][h] = pointer[1][h]
      /\ pointer'[1][g] = r
  BY PointerAdded
<1>2. \A q \in Handle!Processes : \A h \in DOMAIN pointer[q] :
          /\ h \in DOMAIN pointer'[q] /\ pointer'[q][h] = pointer[q][h]
  BY <1>1 DEF Handle!Processes
<1>3. \A q \in Handle!Processes : \A h \in DOMAIN pointer[q] :
          PointerInv(q, h)' /\ PointerInv(q, h)
  BY <1>2, PointersKept
<1>4. \A q \in Handle!Processes : \A h \in DOMAIN pointer'[q] :
          h \in DOMAIN pointer[q] \/ (q = 1 /\ h = g)
  BY <1>1 DEF Handle!Processes
<1>5. PointerInv(1, g)'
  BY <1>1 DEF PointerInv
<1>6. \A q \in Handle!Processes : \A h \in DOMAIN pointer[q] :
          pointer[q][h].value # 0 => pointer[q][h].value # r.value
  BY <1>3 DEF PointerInv
<1>7. ASSUME NEW q \in Handle!Processes, NEW h \in DOMAIN pointer'[q],
             NEW x \in DOMAIN pointer'[q], pointer'[q][x].value = pointer'[q][h].value
      PROVE  x = h \/ pointer'[q][h].value = 0
  <2>1. CASE h \in DOMAIN pointer[q] /\ x \in DOMAIN pointer[q]
    BY <2>1, <1>2, <1>7 DEF HandlesInv, PointersInv
  <2>2. CASE q = 1 /\ h = g /\ x \in DOMAIN pointer[q]
    BY <2>2, <1>1, <1>6, <1>7
  <2>3. CASE q = 1 /\ x = g /\ h \in DOMAIN pointer[q]
    BY <2>3, <1>1, <1>6, <1>7
  <2> QED
    BY <2>1, <2>2, <2>3, <1>4
<1> QED
  BY <1>3, <1>4, <1>5, <1>7 DEF PointersInv, Handle!Processes

LEMMA MakeLeased ==
    ASSUME HandlesInv, NEW kind \in Handle!Kinds, NEW parent \in Nat, Handle!Make(kind, parent)
    PROVE  Leased(kind)
<1> SUFFICES ASSUME NEW n, n = Len(object), NEW slots,
                    slots = [x \in DOMAIN lease[1] |->
                                IF x = parent /\ kind \in {"residual", "mp_residual"}
                                THEN n + 1 ELSE lease[1][x]]
             PROVE  Leased(kind)
  OBVIOUS
<1>1. n \in Nat /\ DOMAIN object = 1 .. n /\ DOMAIN object' = 1 .. n + 1
  BY ObjectsGrow DEF Handle!Make
<1>2. lease \in [Handle!Processes -> [1 .. n -> Nat]]
  BY <1>1 DEF HandlesInv, HandleTypes
<1>3. lease' = [lease EXCEPT ![1] = Append(slots, 0), ![2] = Append(lease[2], 0)]
  BY <1>2 DEF Handle!Make, Handle!Processes
<1>4. slots \in [1 .. n -> Nat] /\ lease[2] \in [1 .. n -> Nat]
  BY <1>1, <1>2 DEF Handle!Processes
<1>5. Grown(Nat, n, slots, 0) /\ Grown(Nat, n, lease[2], 0)
  BY <1>1, <1>4, AppendGrows
<1>6. lease'[1] = Append(slots, 0) /\ lease'[2] = Append(lease[2], 0)
  BY <1>2, <1>3 DEF Handle!Processes
<1>7. lease' \in [Handle!Processes -> [1 .. n + 1 -> Nat]]
  BY <1>2, <1>3, <1>5 DEF Grown, Handle!Processes
<1>8. \A x \in 1 .. n :
          \/ slots[x] = lease[1][x]
          \/ slots[x] = n + 1 /\ kind \in {"residual", "mp_residual"}
  BY <1>2 DEF Handle!Processes
<1> HIDE DEF Grown
<1>9. /\ \A x \in 1 .. n : lease'[1][x] = slots[x] /\ lease'[2][x] = lease[2][x]
      /\ lease'[1][n + 1] = 0 /\ lease'[2][n + 1] = 0
  BY <1>5, <1>6 DEF Grown
<1>10. ASSUME NEW q \in Handle!Processes, NEW x \in 1 .. n
       PROVE  \/ lease'[q][x] = lease[q][x]
              \/ q = 1 /\ lease'[q][x] = n + 1 /\ kind \in {"residual", "mp_residual"}
  <2>1. CASE q = 1
    <3>1. lease'[q][x] = slots[x]
      BY <2>1, <1>9
    <3> QED
      BY <2>1, <3>1, <1>8
  <2>2. CASE q = 2
    BY <2>2, <1>9
  <2> QED
    BY <2>1, <2>2 DEF Handle!Processes
<1>11. \A q \in Handle!Processes : lease'[q][n + 1] = 0
  BY <1>9 DEF Handle!Processes
<1> QED
  BY <1>1, <1>7, <1>10, <1>11 DEF Leased

(* A call that makes an object.                                            *)
LEMMA MakeStep ==
    ASSUME HandlesInv, NEW kind \in Handle!Kinds, NEW parent \in Nat,
           Handle!Make(kind, parent), Makes(kind, parent),
           kind # "matvec", family # "matvec"
    PROVE  HandlesInv'
<1> SUFFICES ASSUME NEW o, o = Len(object) + 1, NEW r, r = Handle!Pointer(kind, o)
             PROVE  HandlesInv'
  OBVIOUS
<1>1. /\ object' \in Seq([kind : Handle!Kinds, parent : Nat])
      /\ o \in Nat /\ o # 0 /\ DOMAIN object' = 1 .. o /\ DOMAIN object = 1 .. (o - 1)
      /\ DOMAIN object \subseteq DOMAIN object' /\ o \in DOMAIN object' \ DOMAIN object
      /\ \A x \in DOMAIN object : object'[x] = object[x]
      /\ object'[o].kind = kind
  <2>1. object' = Append(object, [kind |-> kind, parent |-> parent])
    BY DEF Handle!Make
  <2>2. /\ object' \in Seq([kind : Handle!Kinds, parent : Nat])
        /\ Len(object) \in Nat /\ DOMAIN object = 1 .. Len(object)
        /\ DOMAIN object' = 1 .. (Len(object) + 1)
        /\ \A x \in DOMAIN object : object'[x] = object[x]
        /\ object'[Len(object) + 1].kind = kind
    BY <2>1, ObjectsGrow
  <2> QED
    BY <2>2
<1>2. /\ r \in PointerRecord /\ r.kind = kind /\ r.value = o /\ r.holder
      /\ r.counted <=> kind \in Handle!Counted
  BY <1>1, PointerShape
<1>3. Born(kind, parent) /\ Leased(kind)
  BY MakeLeased DEF Born, Handle!Make
<1>4. /\ PointerLast(r) /\ UNCHANGED <<family, workspace, handleHeap, product>>
      /\ product = Handle!Idle /\ product' = Handle!Idle
      /\ owners' = IF kind \in Handle!Counted THEN Handle!fixed_sp_owner_acquire(1, kind)
                   ELSE owners
  BY DEF Handle!Make, Handle!NoProduct, PointerLast
<1>5. pointer' \in [Handle!Processes -> Seq(PointerRecord)] /\ pointer'[2] = pointer[2]
  BY <1>2, <1>4, PointerAdded
<1>6. Reached(kind)
  BY <1>4, <1>5 DEF Reached, PointerLast
<1>7. LifeInv' /\ TornInv' /\ SlotsInv'
  BY <1>3, <1>4, <1>6, BornLife
<1>8. PointersInv'
  BY <1>1, <1>2, <1>4, PointersAdded
<1>9. OwnersInv' /\ owners' \in [Handle!Processes -> [Handle!Counted -> Nat]]
  BY <1>2, <1>4, OwnersAdded
<1>10. ObjectsInv'
  BY <1>4, MakesObject DEF Handle!Make
<1>11. HandleTypes'
  BY <1>1, <1>3, <1>5, <1>9, BornMaps DEF HandleTypes, Leased
<1>12. BufferTypes' /\ BuffersInv' /\ ProductInv'
  BY <1>4, PlainBuffers
<1> QED
  BY <1>7, <1>8, <1>9, <1>10, <1>11, <1>12 DEF HandlesInv

(* A batch that made no residual leaves an empty pointer.                  *)
LEMMA EmptyPointerStep ==
    ASSUME HandlesInv, family # "matvec", PointerLast(Handle!Pointer("residual", 0)),
           UNCHANGED <<handleLife, torn, lease, owners>>, Handle!Keep
    PROVE  HandlesInv'
<1> SUFFICES ASSUME NEW r, r = Handle!Pointer("residual", 0) PROVE HandlesInv'
  OBVIOUS
<1>1. "residual" \in Handle!Kinds /\ 0 \in Nat
  BY DEF Handle!Kinds
<1>2. r \in PointerRecord /\ r.kind = "residual" /\ r.value = 0 /\ ~r.holder /\ ~r.counted
  BY <1>1, PointerShape
<1>3. /\ UNCHANGED <<family, object, workspace, handleHeap, product>>
      /\ product = Handle!Idle
  BY DEF Handle!Keep, Handle!NoProduct
<1>4. /\ pointer' \in [Handle!Processes -> Seq(PointerRecord)]
      /\ pointer'[2] = pointer[2]
      /\ \A h \in DOMAIN pointer[1] : h \in DOMAIN pointer'[1] /\ pointer'[1][h] = pointer[1][h]
      /\ \A h \in DOMAIN pointer'[1] : h \in DOMAIN pointer[1] \/ pointer'[1][h] = r
  <2>1. PointerLast(r)
    OBVIOUS
  <2> QED
    BY <1>2, <2>1, PointerAdded
<1>5. PointersInv'
  <2>1. /\ ~r.counted /\ r.value = 0 /\ r.kind = "residual" /\ PointerLast(r)
    BY <1>2
  <2> QED
    BY <1>2, <1>3, <2>1, PointersAdded
<1>6. OwnersInv' /\ owners' \in [Handle!Processes -> [Handle!Counted -> Nat]]
  <2>1. ~r.counted /\ PointerLast(r)
    BY <1>2
  <2> QED
    BY <1>2, <2>1, OwnersAdded
<1>7. \A q \in Handle!Processes : \A o : Handle!Shared(pointer[q], o)' <=> Handle!Shared(pointer[q], o)
  <2> SUFFICES ASSUME NEW q \in Handle!Processes, NEW o
               PROVE  Handle!Shared(pointer'[q], o) <=> Handle!Shared(pointer[q], o)
    BY <1>3, SharedPrime
  <2>1. CASE q = 2
    BY <1>4, <2>1
  <2>2. CASE q = 1
    <3>1. Handle!Shared(pointer[1], o) => Handle!Shared(pointer'[1], o)
      BY <1>4 DEF Handle!Shared
    <3>2. \A h \in DOMAIN pointer'[1] : pointer'[1][h].holder =>
              h \in DOMAIN pointer[1] /\ pointer'[1][h] = pointer[1][h]
      BY <1>2, <1>4
    <3>3. Handle!Shared(pointer'[1], o) => Handle!Shared(pointer[1], o)
      BY <3>2 DEF Handle!Shared
    <3> QED
      BY <2>2, <3>1, <3>3
  <2> QED
    BY <2>1, <2>2 DEF Handle!Processes
<1>8. LifeInv'
  <2>1. \A q \in Handle!Processes, o \in DOMAIN object :
            /\ Alive(q, o)' <=> Alive(q, o)
            /\ ~Temporary(q, o) /\ ~Temporary(q, o)'
    BY <1>3 DEF Alive, Temporary, Handle!Idle
  <2> QED
    BY <1>3, <1>7, <2>1 DEF HandlesInv, LifeInv
<1>9. HandleTypes' /\ ObjectsInv' /\ TornInv' /\ SlotsInv'
  <2>1. HandleTypes'
    BY <1>3, <1>4, <1>6 DEF HandlesInv, HandleTypes
  <2>2. ObjectsInv'
    BY <1>3, ObjectsKept
  <2>3. TornInv' /\ SlotsInv'
    BY <1>3 DEF HandlesInv, TornInv, SlotsInv, Alive
  <2> QED
    BY <2>1, <2>2, <2>3
<1>10. BufferTypes' /\ BuffersInv' /\ ProductInv'
  BY <1>3, PlainBuffers
<1> QED
  BY <1>5, <1>6, <1>8, <1>9, <1>10 DEF HandlesInv

-----------------------------------------------------------------------------
(* Products.                                                               *)

LEMMA MatvecWorkspaces ==
    ASSUME HandlesInv, family = "matvec"
    PROVE  /\ workspace \in Seq(Workspace) /\ handleHeap \in Seq(Nat)
           /\ Len(object) \in Nat /\ Len(workspace) = Len(object)
           /\ DOMAIN object = 1 .. Len(object) /\ DOMAIN workspace = DOMAIN object
           /\ DOMAIN handleHeap = 1 .. Len(handleHeap) /\ Len(handleHeap) \in Nat
           /\ \A x \in DOMAIN workspace : workspace[x] \in Workspace
           /\ \A b \in DOMAIN handleHeap : handleHeap[b] \in Nat
           /\ \A x \in DOMAIN object : object[x].kind = "matvec" /\ object[x].parent = 0
<1>1. /\ workspace \in Seq(Workspace) /\ handleHeap \in Seq(Nat)
      /\ Len(workspace) = Len(object) /\ object \in Seq([kind : Handle!Kinds, parent : Nat])
  BY DEF HandlesInv, BufferTypes, HandleTypes
<1>2. \A x \in DOMAIN object : object[x].kind = "matvec" /\ object[x].parent = 0
  BY DEF HandlesInv, ObjectsInv, Made
<1> QED
  BY <1>1, <1>2

(* A product is only under way with the products' own family.              *)
LEMMA ProductFamily ==
    ASSUME HandlesInv, product.phase # "idle" PROVE family = "matvec"
BY DEF HandlesInv, BufferTypes, Handle!Idle

(* Steps of a product that leave the objects as they are.                  *)
LEMMA SameObjectsKept ==
    ASSUME HandlesInv, Handle!SameObjects, Handle!StepProduct,
           product'.temporary = product.temporary,
           product.temporary => product'.object = product.object
    PROVE  /\ HandleTypes' /\ ObjectsInv' /\ PointersInv' /\ LifeInv' /\ TornInv'
           /\ SlotsInv' /\ OwnersInv'
<1>1. UNCHANGED <<family, object, handleLife, torn, lease, pointer, owners>>
  BY DEF Handle!SameObjects, Handle!StepProduct
<1>2. HandleTypes' /\ ObjectsInv' /\ OwnersInv'
  <2>1. HandleTypes'
    BY <1>1 DEF HandlesInv, HandleTypes
  <2>2. ObjectsInv'
    BY <1>1, ObjectsKept
  <2>3. OwnersInv'
    BY <1>1, OwnersUnchanged
  <2> QED
    BY <2>1, <2>2, <2>3
<1>3. PointersInv' /\ TornInv' /\ SlotsInv'
  <2>1. PointersInv'
    BY <1>1 DEF HandlesInv, PointersInv, PointerInv
  <2>2. TornInv'
    BY <1>1 DEF HandlesInv, TornInv
  <2>3. SlotsInv'
    BY <1>1 DEF HandlesInv, SlotsInv, Alive
  <2> QED
    BY <2>1, <2>2, <2>3
<1>4. \A p \in Handle!Processes, o \in DOMAIN object :
          /\ Alive(p, o)' <=> Alive(p, o)
          /\ Temporary(p, o)' <=> Temporary(p, o)
          /\ Handle!Shared(pointer[p], o)' <=> Handle!Shared(pointer[p], o)
  BY <1>1 DEF Alive, Temporary, Handle!Shared, Handle!Lineage
<1>5. LifeInv'
  BY <1>1, <1>4 DEF HandlesInv, LifeInv
<1> QED
  BY <1>2, <1>3, <1>5

(* Freeing buffers: those of a call that is given up, those of a handle    *)
(* that goes, or both.                                                     *)
Clears(C) ==
    handleHeap' = [b \in DOMAIN handleHeap |-> IF b \in C THEN 0 ELSE handleHeap[b]]

(* What is freed is what the product had, and what the handle had that goes.*)
LEMMA BuffersCleared ==
    ASSUME HandlesInv, family = "matvec", UNCHANGED <<family, object, workspace>>,
           product' = Handle!Idle, NEW C, Clears(C), NEW o,
           \/ (\A x : Kept(x)' <=> Kept(x)) /\ C \ {0} = InFlight
           \/ /\ Kept(o) /\ C \ {0} = InFlight \cup BuffersOf(o)
              /\ \A x : Kept(x)' <=> Kept(x) /\ x # o
    PROVE  BufferTypes' /\ BuffersInv' /\ ProductInv'
<1>1. /\ workspace \in Seq(Workspace) /\ Len(workspace) = Len(object)
      /\ DOMAIN handleHeap = 1 .. Len(handleHeap) /\ handleHeap \in Seq(Nat)
  BY MatvecWorkspaces
<1>2. /\ handleHeap' \in Seq(Nat) /\ DOMAIN handleHeap' = DOMAIN handleHeap
      /\ \A b \in DOMAIN handleHeap :
            handleHeap'[b] = IF b \in C THEN 0 ELSE handleHeap[b]
  BY <1>1 DEF Clears
<1>3. /\ product'.rhs = 0 /\ product'.output = 0 /\ product'.phase = "idle"
      /\ ~product'.temporary /\ InFlight' = {}
  BY DEF Handle!Idle, InFlight
<1>4. BufferTypes'
  BY <1>1, <1>2 DEF BufferTypes, Handle!Idle
<1>5. ProductInv'
  BY <1>3 DEF ProductInv
<1>6. \A x : Kept(x)' => Kept(x)
  OBVIOUS
<1>7. \A x : Kept(x) => WorkspaceInv(x)
  BY DEF HandlesInv, BuffersInv
<1>8. ASSUME NEW x, Kept(x)' PROVE BuffersOf(x) \cap (C \ {0}) = {}
  <2>1. Kept(x) /\ WorkspaceInv(x)
    BY <1>6, <1>7, <1>8
  <2>2. BuffersOf(x) \cap InFlight = {} /\ (Kept(o) /\ o # x => BuffersOf(x) \cap BuffersOf(o) = {})
    BY <2>1 DEF WorkspaceInv
  <2> QED
    BY <1>8, <2>1, <2>2
<1>9. ASSUME NEW x, Kept(x)' PROVE WorkspaceInv(x)'
  <2>1. WorkspaceInv(x) /\ BuffersOf(x) \cap (C \ {0}) = {}
    BY <1>6, <1>7, <1>8, <1>9
  <2>2. \A y : Kept(y)' /\ y # x => BuffersOf(x) \cap BuffersOf(y) = {}
    BY <2>1, <1>6 DEF WorkspaceInv
  <2>3. ASSUME NEW b \in DOMAIN handleHeap, NEW width, Holds(b, width), b \in BuffersOf(x)
        PROVE  Holds(b, width)'
    BY <2>1, <2>3, <1>2 DEF Holds, BuffersOf
  <2>4. /\ workspace' = workspace /\ InFlight' = {}
        /\ \A y : BuffersOf(y)' = BuffersOf(y)
    BY <1>3 DEF BuffersOf
  <2>5. workspace[x].size # 0 =>
            Holds(workspace[x].rhs, workspace[x].size)' /\ Holds(workspace[x].output, workspace[x].size)'
    <3> SUFFICES ASSUME NEW s, s = workspace[x].size, s # 0, NEW r, r = workspace[x].rhs,
                        NEW t, t = workspace[x].output
                 PROVE  Holds(r, s)' /\ Holds(t, s)'
      BY <2>4 DEF Holds
    <3>1. Holds(r, s) /\ Holds(t, s)
      BY <2>1 DEF WorkspaceInv
    <3>2. r \in DOMAIN handleHeap /\ t \in DOMAIN handleHeap /\ r # 0 /\ t # 0
      BY <3>1, <1>1 DEF Holds
    <3>3. r \in BuffersOf(x) /\ t \in BuffersOf(x)
      BY <3>2 DEF BuffersOf
    <3> QED
      BY <3>1, <3>2, <3>3, <2>3
  <2> QED
    BY <2>1, <2>2, <2>4, <2>5 DEF WorkspaceInv, Holds
<1>10. ASSUME NEW b \in DOMAIN handleHeap', handleHeap'[b] # 0
       PROVE  \E x : Kept(x)' /\ b \in BuffersOf(x)
  <2>1. b \in DOMAIN handleHeap /\ b \notin C /\ handleHeap[b] # 0 /\ b # 0
    BY <1>1, <1>2, <1>10
  <2>2. b \in InFlight \/ \E x : Kept(x) /\ b \in BuffersOf(x)
    BY <2>1 DEF HandlesInv, BuffersInv
  <2> QED
    BY <2>1, <2>2
<1>11. BuffersInv'
  <2>1. \A x : BuffersOf(x)' = BuffersOf(x)
    BY DEF BuffersOf
  <2> QED
    BY <2>1, <1>9, <1>10 DEF BuffersInv
<1> QED
  BY <1>4, <1>5, <1>11

(* The handle of one solve goes with the solve.                            *)
LEMMA TemporaryFreed ==
    ASSUME HandlesInv, product.temporary, NEW o, o = product.object,
           UNCHANGED <<family, object, lease, pointer, owners>>,
           handleLife' = [handleLife EXCEPT ![1][o] = "freed"],
           torn' = [torn EXCEPT ![1][o] = torn[1][o] + 1],
           product' = Handle!Idle
    PROVE  /\ HandleTypes' /\ ObjectsInv' /\ PointersInv' /\ LifeInv' /\ TornInv'
           /\ SlotsInv' /\ OwnersInv'
           /\ Kept(o) /\ (workspace' = workspace => \A x : Kept(x)' <=> Kept(x) /\ x # o)
<1>1. /\ product.phase # "idle" /\ o \in DOMAIN object /\ handleLife[1][o] = "usable"
      /\ \A h \in DOMAIN pointer[1] : pointer[1][h].value # o
  BY DEF HandlesInv, ProductInv, Handle!Idle
<1>2. family = "matvec" /\ DOMAIN workspace = DOMAIN object
      /\ \A x \in DOMAIN object : object[x].kind = "matvec" /\ object[x].parent = 0
      /\ o # 0
  BY <1>1, ProductFamily, MatvecWorkspaces
<1>3. /\ handleLife \in [Handle!Processes -> [DOMAIN object -> Lives]]
      /\ torn \in [Handle!Processes -> [DOMAIN object -> Nat]] /\ "freed" \in Lives
  BY DEF HandlesInv, HandleTypes, Lives
<1>4. /\ handleLife' \in [Handle!Processes -> [DOMAIN object -> Lives]]
      /\ \A q \in Handle!Processes, x \in DOMAIN object :
            handleLife'[q][x] = IF q = 1 /\ x = o THEN "freed" ELSE handleLife[q][x]
  BY <1>1, <1>3 DEF Handle!Processes
<1>5. /\ torn' \in [Handle!Processes -> [DOMAIN object -> Nat]]
      /\ \A q \in Handle!Processes, x \in DOMAIN object :
            torn'[q][x] = IF q = 1 /\ x = o THEN torn[1][o] + 1 ELSE torn[q][x]
  <2>1. torn[1][o] + 1 \in Nat
    BY <1>1, <1>3 DEF Handle!Processes
  <2> QED
    BY <1>1, <1>3, <2>1 DEF Handle!Processes
<1>6. HandleTypes' /\ ObjectsInv' /\ OwnersInv'
  <2>1. HandleTypes'
    BY <1>4, <1>5 DEF HandlesInv, HandleTypes
  <2>2. ObjectsInv' /\ OwnersInv'
    BY ObjectsKept, OwnersUnchanged
  <2> QED
    BY <2>1, <2>2
<1>7. PointersInv'
  BY DEF HandlesInv, PointersInv, PointerInv
<1>8. \A v \in DOMAIN object : Handle!Lineage(v) = {v, 0}
  BY <1>2 DEF Handle!Lineage
<1>9. ~Handle!Shared(pointer[1], o)
  <2>1. \A h \in DOMAIN pointer[1] : pointer[1][h].value # 0 =>
            pointer[1][h].value \in DOMAIN object
    BY DEF HandlesInv, PointersInv, PointerInv, Handle!Processes
  <2> QED
    BY <1>1, <1>2, <1>8, <2>1 DEF Handle!Shared
<1>10. LifeInv'
  <2> SUFFICES ASSUME NEW q \in Handle!Processes, NEW x \in DOMAIN object
               PROVE  /\ Alive(q, x)' <=> Handle!Shared(pointer[q], x)
                      /\ q = 1 => handleLife'[q][x] # "none"
                      /\ handleLife'[q][x] # "teardown"
    BY SharedPrime DEF LifeInv, Temporary, Handle!Idle, Handle!Processes
  <2>1. /\ Alive(q, x) <=> Handle!Shared(pointer[q], x) \/ Temporary(q, x)
        /\ q = 1 => handleLife[q][x] # "none"
        /\ handleLife[q][x] # "teardown"
    BY <1>2 DEF HandlesInv, LifeInv
  <2>2. CASE q = 1 /\ x = o
    BY <2>2, <1>4, <1>9 DEF Alive
  <2>3. CASE ~(q = 1 /\ x = o)
    BY <2>1, <2>3, <1>4 DEF Alive, Temporary
  <2> QED
    BY <2>2, <2>3
<1>11. TornInv'
  <2> SUFFICES ASSUME NEW x \in DOMAIN object
               PROVE  torn'[1][x] = IF handleLife'[1][x] = "freed" THEN 1 ELSE 0
    BY <1>2 DEF TornInv, Handle!Counted
  <2>1. torn[1][x] = IF handleLife[1][x] = "freed" THEN 1 ELSE 0
    BY DEF HandlesInv, TornInv
  <2> QED
    BY <2>1, <1>1, <1>4, <1>5 DEF Handle!Processes
<1>12. SlotsInv'
  <2> SUFFICES ASSUME NEW q \in Handle!Processes, NEW x \in DOMAIN object, lease[q][x] # 0
               PROVE  FALSE
    BY DEF SlotsInv, Handle!Processes
  <2> QED
    BY <1>2 DEF HandlesInv, SlotsInv
<1>13. Kept(o) /\ (workspace' = workspace => \A x : Kept(x)' <=> Kept(x) /\ x # o)
  BY <1>1, <1>2, <1>4 DEF Kept, Handle!Processes
<1> QED
  BY <1>6, <1>7, <1>10, <1>11, <1>12, <1>13

(* A product that fails, and the end of a solve.                           *)
LEMMA AbandonStep ==
    ASSUME HandlesInv, product.phase # "idle", NEW B, B \ {0} = InFlight, Handle!Abandon(B)
    PROVE  HandlesInv'
<1> SUFFICES ASSUME NEW o, o = product.object PROVE HandlesInv'
  OBVIOUS
<1>1. /\ family = "matvec" /\ product' = Handle!Idle /\ workspace' = workspace
      /\ UNCHANGED <<family, owners>>
  BY ProductFamily DEF Handle!Abandon, Handle!StepProduct
<1>2. CASE product.temporary
  <2>1. /\ handleLife' = [handleLife EXCEPT ![1][o] = "freed"]
        /\ torn' = [torn EXCEPT ![1][o] = torn[1][o] + 1]
        /\ UNCHANGED <<object, lease, pointer>>
        /\ Clears(B \cup {workspace[o].rhs, workspace[o].output})
    BY <1>2 DEF Handle!Abandon, Handle!Freed, Clears, HandlesInv, HandleTypes, Handle!Processes
  <2>2. /\ HandleTypes' /\ ObjectsInv' /\ PointersInv' /\ LifeInv' /\ TornInv'
        /\ SlotsInv' /\ OwnersInv'
        /\ Kept(o) /\ \A x : Kept(x)' <=> Kept(x) /\ x # o
    BY <1>1, <1>2, <2>1, TemporaryFreed
  <2>3. (B \cup {workspace[o].rhs, workspace[o].output}) \ {0} = InFlight \cup BuffersOf(o)
    BY DEF BuffersOf
  <2>4. BufferTypes' /\ BuffersInv' /\ ProductInv'
    BY <1>1, <2>1, <2>2, <2>3, BuffersCleared
  <2> QED
    BY <2>2, <2>4 DEF HandlesInv
<1>3. CASE ~product.temporary
  <2>1. Clears(B) /\ Handle!SameObjects /\ Handle!StepProduct
    BY <1>3 DEF Handle!Abandon, Handle!Freed, Clears
  <2>2. product'.temporary = product.temporary
    BY <1>1, <1>3 DEF HandlesInv, BufferTypes, Handle!Idle
  <2>3. /\ HandleTypes' /\ ObjectsInv' /\ PointersInv' /\ LifeInv' /\ TornInv'
        /\ SlotsInv' /\ OwnersInv'
    BY <1>3, <2>1, <2>2, SameObjectsKept
  <2>4. \A x : Kept(x)' <=> Kept(x)
    BY <1>1, <2>1 DEF Kept, Handle!SameObjects
  <2>5. BufferTypes' /\ BuffersInv' /\ ProductInv'
    BY <1>1, <2>1, <2>4, BuffersCleared DEF Handle!SameObjects
  <2> QED
    BY <2>3, <2>5 DEF HandlesInv
<1> QED
  BY <1>2, <1>3

(* A buffer is allocated at an address no workspace has.                   *)
LEMMA BufferAdded ==
    ASSUME HandlesInv, family = "matvec", UNCHANGED <<handleLife, workspace>>,
           NEW b, b = Handle!Address, NEW width \in Nat, Handle!Buffer(width),
           InFlight' = InFlight \cup {b}
    PROVE  /\ handleHeap' \in Seq(Nat) /\ BuffersInv' /\ b # 0 /\ b \in Nat
           /\ Holds(b, width)'
           /\ \A c, s : Holds(c, s) => Holds(c, s)'
<1>1. /\ handleHeap \in Seq(Nat) /\ DOMAIN handleHeap = 1 .. Len(handleHeap)
      /\ Len(handleHeap) \in Nat
  BY MatvecWorkspaces
<1>2. handleHeap' = Append(handleHeap, width) /\ b = Len(handleHeap) + 1
  BY DEF Handle!Buffer, Handle!Address
<1>3. /\ handleHeap' \in Seq(Nat) /\ b \in Nat /\ b # 0
      /\ DOMAIN handleHeap' = 1 .. b /\ b \notin DOMAIN handleHeap
      /\ \A c \in DOMAIN handleHeap' : c \in DOMAIN handleHeap \/ c = b
      /\ \A c \in DOMAIN handleHeap : c \in DOMAIN handleHeap' /\ handleHeap'[c] = handleHeap[c]
      /\ b \in DOMAIN handleHeap' /\ handleHeap'[b] = width
  BY <1>1, <1>2
<1>4. Holds(b, width)' /\ \A c, s : Holds(c, s) => Holds(c, s)'
  BY <1>3 DEF Holds
<1>5. /\ \A x : Kept(x)' <=> Kept(x)
      /\ \A x : BuffersOf(x)' = BuffersOf(x)
  BY DEF Kept, BuffersOf
<1>6. \A x : Kept(x) => WorkspaceInv(x) /\ b \notin BuffersOf(x)
  <2> SUFFICES ASSUME NEW x, Kept(x) PROVE WorkspaceInv(x) /\ b \notin BuffersOf(x)
    OBVIOUS
  <2>1. WorkspaceInv(x)
    BY DEF HandlesInv, BuffersInv
  <2> QED
    BY <2>1, <1>3 DEF WorkspaceInv, Holds, BuffersOf
<1>7. ASSUME NEW x, Kept(x)' PROVE WorkspaceInv(x)'
  <2>1. WorkspaceInv(x) /\ b \notin BuffersOf(x) /\ Kept(x)
    BY <1>5, <1>6, <1>7
  <2>2. BuffersOf(x) \cap InFlight' = {} /\ \A y : Kept(y)' /\ y # x => BuffersOf(x) \cap BuffersOf(y) = {}
    BY <2>1, <1>5 DEF WorkspaceInv
  <2>3. workspace[x].size # 0 =>
            Holds(workspace[x].rhs, workspace[x].size)' /\ Holds(workspace[x].output, workspace[x].size)'
    <3> SUFFICES ASSUME NEW s, s = workspace[x].size, s # 0, NEW r, r = workspace[x].rhs,
                        NEW t, t = workspace[x].output
                 PROVE  Holds(r, s)' /\ Holds(t, s)'
      BY DEF Holds
    <3>1. Holds(r, s) /\ Holds(t, s)
      BY <2>1 DEF WorkspaceInv
    <3> QED
      BY <3>1, <1>4
  <2> QED
    BY <2>1, <2>2, <2>3, <1>5 DEF WorkspaceInv, Holds
<1>8. ASSUME NEW c \in DOMAIN handleHeap', handleHeap'[c] # 0
      PROVE  c \in InFlight' \/ \E x : Kept(x)' /\ c \in BuffersOf(x)
  <2>1. c = b \/ (c \in DOMAIN handleHeap /\ handleHeap[c] # 0)
    BY <1>3, <1>8
  <2> QED
    BY <2>1, <1>5 DEF HandlesInv, BuffersInv
<1>9. BuffersInv'
  BY <1>5, <1>7, <1>8 DEF BuffersInv
<1> QED
  BY <1>3, <1>4, <1>9

(* A product that goes on without touching the buffers.                    *)
LEMMA BuffersUntouched ==
    ASSUME HandlesInv, UNCHANGED <<handleLife, workspace, handleHeap>>, InFlight' = InFlight
    PROVE  BuffersInv'
<1>1. BuffersInv
  BY DEF HandlesInv
<1> QED
  BY <1>1 DEF BuffersInv, WorkspaceInv, Kept, Holds, BuffersOf

LEMMA ProductRecord ==
    ASSUME HandlesInv
    PROVE  /\ product \in [phase : {"idle", "solve", "grow", "multiply"}, object : Nat,
                           size : Nat, rhs : Nat, output : Nat, temporary : BOOLEAN]
           /\ InFlight = {} => product.rhs = 0 /\ product.output = 0
<1>1. product \in [phase : {"idle", "solve", "grow", "multiply"}, object : Nat,
                   size : Nat, rhs : Nat, output : Nat, temporary : BOOLEAN]
  BY DEF HandlesInv, BufferTypes
<1> QED
  BY <1>1 DEF InFlight

LEMMA StartProductStep ==
    ASSUME HandlesInv, NEW o \in DOMAIN object, NEW width \in Handle!Sizes,
           Handle!StartProduct(o, width)
    PROVE  HandlesInv'
<1>1. /\ product' = [product EXCEPT
             !.phase = IF workspace[o].size < width THEN "grow" ELSE "multiply",
             !.object = o, !.size = width]
      /\ UNCHANGED <<workspace, handleHeap>> /\ Handle!StepProduct /\ Handle!SameObjects
  BY DEF Handle!StartProduct
<1>2. UNCHANGED <<family, object, handleLife, torn, lease, pointer, owners>>
  BY <1>1 DEF Handle!StepProduct, Handle!SameObjects
<1>3. /\ family = "matvec" /\ InFlight = {} /\ handleLife[1][o] = "usable"
      /\ product.temporary => o = product.object
  <2>1. CASE product.phase = "solve" /\ o = product.object
    BY <2>1, ProductFamily DEF HandlesInv, ProductInv
  <2>2. CASE product.phase = "idle"
    <3>1. product = Handle!Idle
      BY <2>2 DEF HandlesInv, ProductInv
    <3>2. PICK h \in DOMAIN pointer[1] :
              /\ pointer[1][h].kind = "matvec" /\ pointer[1][h].holder
              /\ pointer[1][h].value = o /\ o # 0
      BY <2>2, <3>1 DEF Handle!StartProduct, Handle!ProductIn, Handle!Live, Handle!Held,
                   Handle!Value, Handle!Idle
    <3>3. family = "matvec" /\ object[o].kind = "matvec"
      BY <3>2 DEF HandlesInv, PointersInv, PointerInv, Handle!Processes
    <3>4. Handle!Shared(pointer[1], o)
      BY <3>2 DEF Handle!Shared, Handle!Lineage
    <3>5. handleLife[1][o] = "usable"
      BY <3>3, <3>4 DEF HandlesInv, LifeInv, Alive, Handle!Processes
    <3> QED
      BY <3>1, <3>3, <3>5 DEF Handle!Idle, InFlight
  <2> QED
    BY <2>1, <2>2 DEF Handle!StartProduct, Handle!ProductIn
<1>4. /\ product'.phase = (IF workspace[o].size < width THEN "grow" ELSE "multiply")
      /\ product'.object = o /\ product'.size = width
      /\ product'.rhs = product.rhs /\ product'.output = product.output
      /\ product'.temporary = product.temporary
      /\ product' \in [phase : {"idle", "solve", "grow", "multiply"}, object : Nat,
                       size : Nat, rhs : Nat, output : Nat, temporary : BOOLEAN]
  <2>1. o \in Nat /\ width \in Nat
    BY <1>3, MatvecWorkspaces DEF Handle!Sizes
  <2> QED
    BY <1>1, <2>1, ProductRecord
<1>5. InFlight' = InFlight
  BY <1>4 DEF InFlight
<1>6. /\ HandleTypes' /\ ObjectsInv' /\ PointersInv' /\ LifeInv' /\ TornInv'
      /\ SlotsInv' /\ OwnersInv'
  BY <1>1, <1>3, <1>4, SameObjectsKept
<1>7. BuffersInv'
  BY <1>1, <1>2, <1>5, BuffersUntouched
<1>8. BufferTypes'
  BY <1>1, <1>2, <1>3, <1>4 DEF HandlesInv, BufferTypes
<1>9. workspace[o].size \in Nat /\ width \in Nat
  BY <1>3, MatvecWorkspaces DEF Workspace, Handle!Sizes
<1>10. product.temporary => \A h \in DOMAIN pointer[1] : pointer[1][h].value # o
  BY <1>3 DEF HandlesInv, ProductInv
<1>11. ProductInv'
  BY <1>2, <1>3, <1>4, <1>5, <1>9, <1>10, <1>1, ProductRecord DEF ProductInv
<1> QED
  BY <1>6, <1>7, <1>8, <1>11 DEF HandlesInv

(* A new buffer is there for the product being computed.                   *)
LEMMA GrownStep ==
    ASSUME HandlesInv, product.phase = "grow", NEW b, b = Handle!Address,
           Handle!Buffer(product.size),
           \/ product.rhs = 0 /\ product' = [product EXCEPT !.rhs = b]
           \/ /\ product.rhs # 0 /\ product.output = 0
              /\ product' = [product EXCEPT !.output = b],
           UNCHANGED workspace, Handle!StepProduct, Handle!SameObjects
    PROVE  HandlesInv'
<1>1. UNCHANGED <<family, object, handleLife, torn, lease, pointer, owners, workspace>>
  BY DEF Handle!StepProduct, Handle!SameObjects
<1>2. /\ family = "matvec" /\ product.size \in Handle!Sizes /\ product.size \in Nat
      /\ product.object \in DOMAIN object /\ handleLife[1][product.object] = "usable"
      /\ product.output # 0 => product.rhs # 0
      /\ \A c \in InFlight : Holds(c, product.size)
  BY ProductFamily DEF HandlesInv, ProductInv, Handle!Sizes
<1>3. b \in Nat /\ b # 0
  BY <1>2, MatvecWorkspaces DEF Handle!Address
<1>4. /\ product'.phase = "grow" /\ product'.object = product.object
      /\ product'.size = product.size /\ product'.temporary = product.temporary
      /\ product' \in [phase : {"idle", "solve", "grow", "multiply"}, object : Nat,
                       size : Nat, rhs : Nat, output : Nat, temporary : BOOLEAN]
      /\ \/ product.rhs = 0 /\ product'.rhs = b /\ product'.output = product.output
         \/ /\ product.rhs # 0 /\ product.output = 0
            /\ product'.rhs = product.rhs /\ product'.output = b
  BY <1>3, ProductRecord
<1>5. InFlight' = InFlight \cup {b}
  BY <1>2, <1>3, <1>4 DEF InFlight
<1>6. /\ handleHeap' \in Seq(Nat) /\ BuffersInv' /\ Holds(b, product.size)'
      /\ \A c, s : Holds(c, s) => Holds(c, s)'
  <2> SUFFICES ASSUME NEW width, width = product.size
               PROVE  /\ handleHeap' \in Seq(Nat) /\ BuffersInv' /\ Holds(b, width)'
                      /\ \A c, s : Holds(c, s) => Holds(c, s)'
    BY <1>4 DEF Holds
  <2>1. width \in Nat /\ Handle!Buffer(width) /\ UNCHANGED <<handleLife, workspace>>
    BY <1>1, <1>2
  <2> QED
    BY <1>2, <1>5, <2>1, BufferAdded
<1>7. /\ HandleTypes' /\ ObjectsInv' /\ PointersInv' /\ LifeInv' /\ TornInv'
      /\ SlotsInv' /\ OwnersInv'
  BY <1>4, SameObjectsKept
<1>8. BufferTypes'
  BY <1>1, <1>2, <1>4, <1>6 DEF HandlesInv, BufferTypes
<1>9. \A c \in InFlight' : Holds(c, product.size)'
  <2> SUFFICES ASSUME NEW width, width = product.size, NEW c \in InFlight' PROVE Holds(c, width)'
    BY <1>4 DEF Holds
  <2>1. \A d, s : Holds(d, s) => Holds(d, s)'
    BY <1>6
  <2>2. Holds(b, width)'
    BY <1>6, <1>4 DEF Holds
  <2>3. c \in InFlight => Holds(c, width)
    BY <1>2
  <2> QED
    BY <1>5, <2>1, <2>2, <2>3
<1>10. product.temporary =>
           \A h \in DOMAIN pointer[1] : pointer[1][h].value # product.object
  BY DEF HandlesInv, ProductInv
<1>11. ProductInv'
  <2>1. \A c \in InFlight' : Holds(c, product.size)' /\ product'.phase = "grow"
    BY <1>9, <1>4
  <2>2. product'.output # 0 => product'.rhs # 0
    BY <1>2, <1>3, <1>4
  <2>3. \A c : Holds(c, product.size)' = (c \in DOMAIN handleHeap' /\ handleHeap'[c] = product'.size)
    BY DEF Holds
  <2> QED
    BY <1>1, <1>2, <1>4, <1>10, <2>1, <2>2, <2>3 DEF ProductInv, Holds
<1> QED
  BY <1>6, <1>7, <1>8, <1>11 DEF HandlesInv

LEMMA GrowStep ==
    ASSUME HandlesInv, Handle!GrowRhs \/ Handle!GrowOutput PROVE HandlesInv'
<1>1. product.phase = "grow" /\ (product.output # 0 => product.rhs # 0)
  BY DEF HandlesInv, ProductInv, Handle!GrowRhs, Handle!GrowOutput, Handle!ProductIn
<1> SUFFICES ASSUME NEW b, b = Handle!Address PROVE HandlesInv'
  OBVIOUS
<1>2. CASE Handle!GrowRhs
  <2>1. product.rhs = 0 /\ {} \ {0} = InFlight
    BY <1>1, <1>2 DEF Handle!GrowRhs, InFlight
  <2>2. CASE Handle!Abandon({})
    BY <1>1, <2>1, <2>2, AbandonStep
  <2>3. CASE ~Handle!Abandon({})
    BY <1>1, <1>2, <2>3, GrownStep DEF Handle!GrowRhs
  <2> QED
    BY <2>2, <2>3
<1>3. CASE Handle!GrowOutput
  <2>1. /\ product.rhs # 0 /\ product.output = 0 /\ {product.rhs} \ {0} = InFlight
    BY <1>3 DEF Handle!GrowOutput, InFlight
  <2>2. CASE Handle!Abandon({product.rhs})
    BY <1>1, <2>1, <2>2, AbandonStep
  <2>3. CASE ~Handle!Abandon({product.rhs})
    BY <1>1, <1>3, <2>3, GrownStep DEF Handle!GrowOutput
  <2> QED
    BY <2>2, <2>3
<1> QED
  BY <1>2, <1>3

LEMMA MultiplyStep ==
    ASSUME HandlesInv, Handle!Multiply PROVE HandlesInv'
<1>1. /\ product.phase = "multiply" /\ InFlight = {} /\ {} \ {0} = InFlight
      /\ product.object \in DOMAIN object /\ handleLife[1][product.object] = "usable"
      /\ product.temporary =>
            \A h \in DOMAIN pointer[1] : pointer[1][h].value # product.object
      /\ family = "matvec" /\ product.rhs = 0 /\ product.output = 0
  BY ProductFamily, ProductRecord DEF HandlesInv, ProductInv, Handle!Multiply, Handle!ProductIn
<1>2. CASE Handle!Abandon({})
  BY <1>1, <1>2, AbandonStep
<1>3. CASE ~Handle!Abandon({})
  <2>1. /\ product' = [product EXCEPT
               !.phase = IF product.temporary THEN "solve" ELSE "idle",
               !.object = IF product.temporary THEN product.object ELSE 0, !.size = 0]
        /\ UNCHANGED <<workspace, handleHeap>> /\ Handle!StepProduct /\ Handle!SameObjects
    BY <1>3, ProductRecord DEF Handle!Multiply
  <2>2. UNCHANGED <<family, object, handleLife, torn, lease, pointer, owners>>
    BY <2>1 DEF Handle!StepProduct, Handle!SameObjects
  <2>3. /\ product'.temporary = product.temporary
        /\ product.temporary => product'.phase = "solve" /\ product'.object = product.object
        /\ ~product.temporary => product' = Handle!Idle
        /\ product'.rhs = 0 /\ product'.output = 0
        /\ product' \in [phase : {"idle", "solve", "grow", "multiply"}, object : Nat,
                         size : Nat, rhs : Nat, output : Nat, temporary : BOOLEAN]
    <3>1. product \in [phase : {"idle", "solve", "grow", "multiply"}, object : Nat,
                       size : Nat, rhs : Nat, output : Nat, temporary : BOOLEAN]
      BY ProductRecord
    <3>2. CASE product.temporary
      BY <3>1, <3>2, <2>1, <1>1
    <3>3. CASE ~product.temporary
      BY <3>1, <3>3, <2>1, <1>1 DEF Handle!Idle
    <3> QED
      BY <3>2, <3>3
  <2>4. InFlight' = {}
    BY <2>3 DEF InFlight
  <2>5. /\ HandleTypes' /\ ObjectsInv' /\ PointersInv' /\ LifeInv' /\ TornInv'
        /\ SlotsInv' /\ OwnersInv'
    BY <2>1, <2>3, SameObjectsKept
  <2>6. BuffersInv'
    BY <1>1, <2>1, <2>2, <2>4, BuffersUntouched
  <2>7. BufferTypes'
    BY <1>1, <2>1, <2>2, <2>3 DEF HandlesInv, BufferTypes
  <2>8. ProductInv'
    <3>1. CASE product.temporary
      BY <3>1, <1>1, <2>2, <2>3, <2>4 DEF ProductInv
    <3>2. CASE ~product.temporary
      BY <3>2, <2>3 DEF ProductInv, Handle!Idle
    <3> QED
      BY <3>1, <3>2
  <2> QED
    BY <2>5, <2>6, <2>7, <2>8 DEF HandlesInv
<1> QED
  BY <1>2, <1>3

LEMMA EndSolveStep ==
    ASSUME HandlesInv, Handle!EndSolve PROVE HandlesInv'
<1>1. product.phase = "solve" /\ {} \ {0} = InFlight /\ Handle!Abandon({})
  BY DEF HandlesInv, ProductInv, Handle!EndSolve, Handle!ProductIn
<1> QED
  BY <1>1, AbandonStep

(* The new buffers take the place of the old ones.                         *)
LEMMA ReplaceStep ==
    ASSUME HandlesInv, Handle!Replace PROVE HandlesInv'
<1> SUFFICES ASSUME NEW o, o = product.object, NEW r, r = product.rhs,
                    NEW t, t = product.output, NEW s, s = product.size
             PROVE  HandlesInv'
  OBVIOUS
<1> DEFINE new == [rhs |-> r, output |-> t, size |-> s]
<1>1. /\ product.phase = "grow" /\ t # 0 /\ r # 0 /\ o \in DOMAIN object
      /\ handleLife[1][o] = "usable" /\ s \in Handle!Sizes /\ s \in Nat /\ s # 0
      /\ family = "matvec" /\ r \in Nat /\ t \in Nat
      /\ Holds(r, s) /\ Holds(t, s) /\ InFlight = {r, t}
      /\ product.temporary => \A h \in DOMAIN pointer[1] : pointer[1][h].value # o
  <2>1. product.phase = "grow" /\ t # 0
    BY DEF Handle!Replace, Handle!ProductIn
  <2>2. /\ r # 0 /\ o \in DOMAIN object /\ handleLife[1][o] = "usable" /\ s \in Handle!Sizes
        /\ \A b \in InFlight : Holds(b, s)
        /\ product.temporary => \A h \in DOMAIN pointer[1] : pointer[1][h].value # o
    BY <2>1 DEF HandlesInv, ProductInv
  <2>3. r \in Nat /\ t \in Nat /\ InFlight = {r, t}
    BY <2>1, <2>2, ProductRecord DEF InFlight
  <2> QED
    BY <2>1, <2>2, <2>3, ProductFamily DEF Handle!Sizes
<1>2. /\ Clears({workspace[o].rhs, workspace[o].output})
      /\ workspace' = [workspace EXCEPT ![o] = new]
      /\ product' = [product EXCEPT !.phase = "multiply", !.rhs = 0, !.output = 0]
      /\ Handle!StepProduct /\ Handle!SameObjects
  BY DEF Handle!Replace, Handle!Freed, Clears
<1>3. UNCHANGED <<family, object, handleLife, torn, lease, pointer, owners>>
  BY <1>2 DEF Handle!StepProduct, Handle!SameObjects
<1>4. /\ product'.phase = "multiply" /\ product'.object = o /\ product'.size = s
      /\ product'.rhs = 0 /\ product'.output = 0 /\ product'.temporary = product.temporary
      /\ product' \in [phase : {"idle", "solve", "grow", "multiply"}, object : Nat,
                       size : Nat, rhs : Nat, output : Nat, temporary : BOOLEAN]
  BY <1>2, ProductRecord
<1>5. InFlight' = {}
  BY <1>4 DEF InFlight
<1>6. /\ workspace \in Seq(Workspace) /\ DOMAIN workspace = DOMAIN object
      /\ Len(workspace) = Len(object) /\ handleHeap \in Seq(Nat)
      /\ DOMAIN handleHeap = 1 .. Len(handleHeap)
  BY <1>1, MatvecWorkspaces
<1>7. /\ workspace' \in Seq(Workspace) /\ Len(workspace') = Len(workspace)
      /\ DOMAIN workspace' = DOMAIN workspace
      /\ workspace'[o] = new
      /\ \A x \in DOMAIN workspace : x # o => workspace'[x] = workspace[x]
  <2>1. new \in Workspace /\ o \in DOMAIN workspace
    BY <1>1, <1>6 DEF Workspace
  <2> HIDE DEF new
  <2> QED
    BY <1>2, <1>6, <2>1
<1>8. /\ handleHeap' \in Seq(Nat) /\ DOMAIN handleHeap' = DOMAIN handleHeap
      /\ \A b \in DOMAIN handleHeap :
            handleHeap'[b] = IF b \in BuffersOf(o) THEN 0 ELSE handleHeap[b]
  BY <1>2, <1>6 DEF Clears, BuffersOf
<1>9. /\ \A x : Kept(x)' <=> Kept(x)
      /\ Kept(o)
      /\ BuffersOf(o)' = {r, t}
      /\ \A x \in DOMAIN workspace : x # o => BuffersOf(x)' = BuffersOf(x)
  <2>1. /\ \A x : Kept(x)' <=> Kept(x)
        /\ Kept(o)
    BY <1>1, <1>3, <1>6, <1>7 DEF Kept
  <2>2. BuffersOf(o)' = {r, t}
    <3>1. new.rhs = r /\ new.output = t
      OBVIOUS
    <3> QED
      BY <1>1, <1>7, <3>1 DEF BuffersOf
  <2>3. \A x \in DOMAIN workspace : x # o => BuffersOf(x)' = BuffersOf(x)
    BY <1>7 DEF BuffersOf
  <2> QED
    BY <2>1, <2>2, <2>3
<1> HIDE DEF new
<1>10. \A x : Kept(x) => /\ x \in DOMAIN workspace /\ WorkspaceInv(x)
                         /\ BuffersOf(x) \cap {r, t} = {}
  BY <1>1 DEF HandlesInv, BuffersInv, WorkspaceInv, Kept
<1>11. \A x : Kept(x) /\ x # o => BuffersOf(x) \cap BuffersOf(o) = {}
  BY <1>9, <1>10 DEF WorkspaceInv
<1>12. \A b, z : Holds(b, z) /\ b \notin BuffersOf(o) => Holds(b, z)'
  BY <1>8 DEF Holds
<1>13. WorkspaceInv(o)'
  <2>1. Holds(r, s)' /\ Holds(t, s)'
    BY <1>1, <1>9, <1>10, <1>12
  <2>2. \A x : Kept(x)' /\ x # o => BuffersOf(o)' \cap BuffersOf(x)' = {}
    BY <1>9, <1>10
  <2>3. new.rhs = r /\ new.output = t /\ new.size = s
    BY DEF new
  <2>4. /\ workspace'[o].size # 0
        /\ Holds(workspace[o].rhs, workspace[o].size)'
        /\ Holds(workspace[o].output, workspace[o].size)'
    BY <1>1, <1>7, <2>1, <2>3 DEF Holds
  <2>5. \A x : Kept(x)' /\ x # o => (BuffersOf(o) \cap BuffersOf(x))' = {}
    BY <2>2
  <2> QED
    BY <1>5, <2>4, <2>5 DEF WorkspaceInv
<1>14. ASSUME NEW x, Kept(x)', x # o PROVE WorkspaceInv(x)'
  <2>1. /\ WorkspaceInv(x) /\ x \in DOMAIN workspace /\ BuffersOf(x) \cap {r, t} = {}
        /\ BuffersOf(x) \cap BuffersOf(o) = {} /\ workspace'[x] = workspace[x]
        /\ BuffersOf(x)' = BuffersOf(x)
    BY <1>7, <1>9, <1>10, <1>11, <1>14
  <2>2. \A y : Kept(y)' /\ y # x => BuffersOf(x)' \cap BuffersOf(y)' = {}
    <3> SUFFICES ASSUME NEW y, Kept(y)', y # x PROVE BuffersOf(x)' \cap BuffersOf(y)' = {}
      OBVIOUS
    <3>1. CASE y = o
      BY <2>1, <3>1, <1>9
    <3>2. CASE y # o
      <4>1. Kept(y) /\ y \in DOMAIN workspace /\ BuffersOf(y)' = BuffersOf(y)
        BY <3>2, <1>9, <1>10
      <4> QED
        BY <4>1, <2>1 DEF WorkspaceInv
    <3> QED
      BY <3>1, <3>2
  <2>3. workspace[x].size # 0 =>
            Holds(workspace[x].rhs, workspace[x].size)' /\ Holds(workspace[x].output, workspace[x].size)'
    <3> SUFFICES ASSUME NEW z, z = workspace[x].size, z # 0, NEW a, a = workspace[x].rhs,
                        NEW c, c = workspace[x].output
                 PROVE  Holds(a, z)' /\ Holds(c, z)'
      BY <2>1 DEF Holds
    <3>1. Holds(a, z) /\ Holds(c, z)
      BY <2>1 DEF WorkspaceInv
    <3>2. a \in BuffersOf(x) /\ c \in BuffersOf(x)
      BY <3>1, <1>6 DEF Holds, BuffersOf
    <3> QED
      BY <3>1, <3>2, <2>1, <1>12
  <2>4. \A y : Kept(y)' /\ y # x => (BuffersOf(x) \cap BuffersOf(y))' = {}
    BY <2>2
  <2> QED
    BY <1>5, <2>1, <2>3, <2>4 DEF WorkspaceInv, Holds
<1>15. ASSUME NEW b \in DOMAIN handleHeap', handleHeap'[b] # 0
       PROVE  \E x : Kept(x)' /\ b \in BuffersOf(x)'
  <2>1. b \in DOMAIN handleHeap /\ b \notin BuffersOf(o) /\ handleHeap[b] # 0
    BY <1>8, <1>15
  <2>2. b \in {r, t} \/ \E x : Kept(x) /\ b \in BuffersOf(x)
    BY <1>1, <2>1 DEF HandlesInv, BuffersInv
  <2> QED
    BY <2>1, <2>2, <1>9, <1>10
<1>16. BuffersInv'
  BY <1>13, <1>14, <1>15 DEF BuffersInv
<1>17. /\ HandleTypes' /\ ObjectsInv' /\ PointersInv' /\ LifeInv' /\ TornInv'
       /\ SlotsInv' /\ OwnersInv'
  BY <1>2, <1>4, SameObjectsKept
<1>18. BufferTypes'
  BY <1>1, <1>3, <1>4, <1>6, <1>7, <1>8 DEF HandlesInv, BufferTypes
<1>19. ProductInv'
  <2>1. workspace'[o].size = s /\ s >= s
    <3>1. new.size = s
      BY DEF new
    <3> QED
      BY <1>1, <1>7, <3>1 DEF Handle!Sizes
  <2> QED
    BY <1>1, <1>3, <1>4, <1>5, <2>1 DEF ProductInv
<1> QED
  BY <1>16, <1>17, <1>18, <1>19 DEF HandlesInv

(* A handle for products, R's or that of one solve.                        *)
LEMMA HandleCreateStep ==
    ASSUME HandlesInv, NEW temporary \in BOOLEAN,
           Handle!legacy_dcov_spectra_matvec_cuda_handle_create(temporary)
    PROVE  HandlesInv'
<1> SUFFICES ASSUME NEW o, o = Len(object) + 1, NEW r, r = Handle!Pointer("matvec", o),
                    NEW new, new = [rhs |-> 0, output |-> 0, size |-> 0]
             PROVE  HandlesInv'
  OBVIOUS
<1>1. /\ family = "matvec" /\ product = Handle!Idle
      /\ object' = Append(object, [kind |-> "matvec", parent |-> 0])
      /\ lease' = [p \in Handle!Processes |-> Append(lease[p], 0)]
      /\ pointer' = [pointer EXCEPT ![1] = IF temporary THEN pointer[1] ELSE Append(pointer[1], r)]
      /\ workspace' = Append(workspace, new)
      /\ product' = IF temporary THEN [Handle!Idle EXCEPT !.phase = "solve", !.object = o,
                                                          !.temporary = TRUE]
                    ELSE Handle!Idle
      /\ UNCHANGED <<family, owners, handleHeap>> /\ Born("matvec", 0)
  BY DEF Handle!legacy_dcov_spectra_matvec_cuda_handle_create, Handle!StepProduct, Born
<1>2. "matvec" \in Handle!Kinds /\ "matvec" \notin Handle!Counted /\ 0 \in Nat
      /\ Makes("matvec", 0)
  BY DEF Handle!Kinds, Handle!Counted, Makes
<1>3. /\ object' \in Seq([kind : Handle!Kinds, parent : Nat])
      /\ Len(object) \in Nat /\ DOMAIN object = 1 .. Len(object)
      /\ DOMAIN object' = 1 .. (Len(object) + 1)
      /\ Len(object') = Len(object) + 1
      /\ \A x \in DOMAIN object : object'[x] = object[x]
      /\ object'[Len(object) + 1].kind = "matvec"
  BY <1>1, <1>2, ObjectsGrow
<1>4. /\ o \in Nat /\ o # 0 /\ DOMAIN object \subseteq DOMAIN object'
      /\ o \in DOMAIN object' \ DOMAIN object
      /\ \A x \in DOMAIN object' : x = o \/ x \in DOMAIN object
  BY <1>3
<1>5. Leased("matvec")
  <2> DEFINE none == [p \in Handle!Processes |-> 0]
  <2>1. none \in [Handle!Processes -> Nat] /\ \A p \in Handle!Processes : none[p] = 0
    OBVIOUS
  <2>2. lease' = [p \in Handle!Processes |-> Append(lease[p], none[p])]
    BY <1>1
  <2>3. lease \in [Handle!Processes -> [1 .. Len(object) -> Nat]]
    BY <1>3 DEF HandlesInv, HandleTypes
  <2> HIDE DEF none
  <2>4. AllGrown(Nat, Len(object), lease, none, lease')
    BY <1>3, <2>1, <2>2, <2>3, ProcessesGrow
  <2> QED
    BY <1>3, <2>1, <2>4 DEF AllGrown, Leased
<1>6. /\ r \in PointerRecord /\ r.kind = "matvec" /\ r.value = o /\ r.holder /\ ~r.counted
  BY <1>2, <1>4, PointerShape
<1>7. /\ pointer \in [Handle!Processes -> Seq(PointerRecord)]
      /\ temporary => pointer' = pointer
      /\ ~temporary => PointerLast(r)
  BY <1>1 DEF HandlesInv, HandleTypes, PointerLast, Handle!Processes
<1>8. /\ pointer' \in [Handle!Processes -> Seq(PointerRecord)] /\ pointer'[2] = pointer[2]
  BY <1>6, <1>7, PointerAdded
<1>9. Reached("matvec")
  <2>1. CASE temporary
    BY <2>1, <1>1, <1>7 DEF Reached, Handle!Idle
  <2>2. CASE ~temporary
    BY <2>2, <1>1, <1>8 DEF Reached
  <2> QED
    BY <2>1, <2>2
<1>10. LifeInv' /\ TornInv' /\ SlotsInv'
  BY <1>1, <1>2, <1>5, <1>9, BornLife
<1>11. PointersInv'
  <2>1. CASE temporary
    <3>1. \A q \in Handle!Processes : \A h \in DOMAIN pointer[q] : PointerInv(q, h)'
      BY <2>1, <1>1, <1>3, <1>4, <1>7, PointersKept
    <3> QED
      BY <2>1, <3>1, <1>7 DEF HandlesInv, PointersInv, Handle!Processes
  <2>2. CASE ~temporary
    BY <2>2, <1>1, <1>2, <1>3, <1>4, <1>6, <1>7, PointersAdded
  <2> QED
    BY <2>1, <2>2
<1>12. OwnersInv' /\ owners' \in [Handle!Processes -> [Handle!Counted -> Nat]]
  <2>1. CASE temporary
    BY <2>1, <1>1, <1>7, OwnersUnchanged DEF HandlesInv, HandleTypes
  <2>2. CASE ~temporary
    BY <2>2, <1>1, <1>6, <1>7, OwnersAdded
  <2> QED
    BY <2>1, <2>2
<1>13. ObjectsInv'
  BY <1>1, <1>2, MakesObject
<1>14. HandleTypes'
  BY <1>1, <1>2, <1>3, <1>5, <1>8, <1>12, BornMaps DEF HandleTypes, Leased
<1>15. /\ workspace \in Seq(Workspace) /\ Len(workspace) = Len(object)
       /\ DOMAIN workspace = DOMAIN object /\ handleHeap \in Seq(Nat)
  BY <1>1, MatvecWorkspaces
<1>16. /\ workspace' \in Seq(Workspace) /\ Len(workspace') = Len(object')
       /\ DOMAIN workspace' = DOMAIN object'
       /\ \A x \in DOMAIN workspace : workspace'[x] = workspace[x]
       /\ workspace'[o] = new
  <2>1. new \in Workspace
    BY DEF Workspace
  <2> QED
    BY <2>1, <1>1, <1>3, <1>15
<1>17. /\ product' \in [phase : {"idle", "solve", "grow", "multiply"}, object : Nat,
                        size : Nat, rhs : Nat, output : Nat, temporary : BOOLEAN]
       /\ product'.rhs = 0 /\ product'.output = 0 /\ InFlight' = {} /\ InFlight = {}
       /\ temporary => product'.phase = "solve" /\ product'.object = o
       /\ temporary <=> product'.temporary
  <2>1. CASE temporary
    BY <2>1, <1>1, <1>4 DEF Handle!Idle, InFlight
  <2>2. CASE ~temporary
    BY <2>2, <1>1 DEF Handle!Idle, InFlight
  <2> QED
    BY <2>1, <2>2
<1>18. BufferTypes'
  BY <1>1, <1>15, <1>16, <1>17 DEF BufferTypes
<1>19. \A x \in DOMAIN object : handleLife'[1][x] = handleLife[1][x]
  BY <1>1, <1>2, BornMaps DEF Handle!Processes
<1>20. handleLife'[1][o] = "usable"
  BY <1>1, <1>2, BornMaps DEF Handle!Processes
<1>21. /\ \A x : Kept(x)' <=> Kept(x) \/ x = o
       /\ BuffersOf(o)' = {}
       /\ \A x \in DOMAIN workspace : BuffersOf(x)' = BuffersOf(x)
       /\ \A b, s : Holds(b, s)' <=> Holds(b, s)
  <2>1. BuffersOf(o)' = {}
    BY <1>16 DEF BuffersOf
  <2>2. \A x \in DOMAIN workspace : BuffersOf(x)' = BuffersOf(x)
    BY <1>16 DEF BuffersOf
  <2>3. \A b, s : Holds(b, s)' <=> Holds(b, s)
    BY <1>1 DEF Holds
  <2>4. \A x : Kept(x)' <=> Kept(x) \/ x = o
    BY <1>4, <1>15, <1>16, <1>19, <1>20 DEF Kept
  <2> QED
    BY <2>1, <2>2, <2>3, <2>4
<1>22. \A x : Kept(x) => x \in DOMAIN workspace /\ WorkspaceInv(x) /\ x # o
  BY <1>4, <1>15 DEF HandlesInv, BuffersInv, Kept
<1>23. ASSUME NEW x, Kept(x)' PROVE WorkspaceInv(x)'
  <2>1. CASE x = o
    <3>1. workspace'[o].size = 0 /\ workspace'[o].rhs = 0 /\ workspace'[o].output = 0
      BY <1>16
    <3> QED
      BY <2>1, <3>1, <1>21 DEF WorkspaceInv
  <2>2. CASE x # o
    <3>1. /\ Kept(x) /\ WorkspaceInv(x) /\ workspace'[x] = workspace[x]
          /\ BuffersOf(x)' = BuffersOf(x)
      BY <2>2, <1>16, <1>21, <1>22, <1>23
    <3>2. \A y : Kept(y)' /\ y # x => BuffersOf(x)' \cap BuffersOf(y)' = {}
      BY <3>1, <1>21, <1>22 DEF WorkspaceInv
    <3>3. workspace'[x].size # 0 =>
              Holds(workspace[x].rhs, workspace[x].size)' /\ Holds(workspace[x].output, workspace[x].size)'
      BY <3>1, <1>1 DEF Holds, WorkspaceInv
    <3>4. \A y : Kept(y)' /\ y # x => (BuffersOf(x) \cap BuffersOf(y))' = {}
      BY <3>2
    <3> QED
      BY <3>1, <3>3, <3>4, <1>17 DEF WorkspaceInv
  <2> QED
    BY <2>1, <2>2
<1>24. BuffersInv'
  <2>1. ASSUME NEW b \in DOMAIN handleHeap, handleHeap[b] # 0
        PROVE  \E x : Kept(x)' /\ b \in BuffersOf(x)'
    <3>1. \E x : Kept(x) /\ b \in BuffersOf(x)
      BY <2>1, <1>17 DEF HandlesInv, BuffersInv
    <3> QED
      BY <3>1, <1>21, <1>22
  <2> QED
    BY <2>1, <1>1, <1>23 DEF BuffersInv
<1>25. ProductInv'
  <2>1. CASE temporary
    <3>1. \A h \in DOMAIN pointer[1] : pointer[1][h].value # o
      BY <1>4 DEF HandlesInv, PointersInv, PointerInv, Handle!Processes
    <3> QED
      BY <2>1, <3>1, <1>4, <1>7, <1>17, <1>20 DEF ProductInv
  <2>2. CASE ~temporary
    BY <2>2, <1>1 DEF ProductInv, Handle!Idle
  <2> QED
    BY <2>1, <2>2
<1> QED
  BY <1>10, <1>11, <1>12, <1>13, <1>14, <1>18, <1>24, <1>25 DEF HandlesInv

-----------------------------------------------------------------------------
(* The fork, and R's finalizers.                                           *)

(* The child starts with the maker's pointers, lives and counters.         *)
LEMMA ForkStep ==
    ASSUME HandlesInv, Handle!Fork PROVE HandlesInv'
<1>1. /\ pointer' = [pointer EXCEPT ![2] = pointer[1]]
      /\ handleLife' = [handleLife EXCEPT ![2] = handleLife[1]]
      /\ lease' = [lease EXCEPT ![2] = lease[1]]
      /\ owners' = [owners EXCEPT ![2] = owners[1]]
      /\ UNCHANGED <<family, object, torn, workspace, handleHeap, product>>
      /\ product = Handle!Idle
  BY DEF Handle!Fork, Handle!NoProduct
<1>2. /\ handleLife \in [Handle!Processes -> [DOMAIN object -> Lives]]
      /\ lease \in [Handle!Processes -> [DOMAIN object -> Nat]]
      /\ pointer \in [Handle!Processes -> Seq(PointerRecord)]
      /\ owners \in [Handle!Processes -> [Handle!Counted -> Nat]]
  BY DEF HandlesInv, HandleTypes
<1>3. /\ pointer' \in [Handle!Processes -> Seq(PointerRecord)]
      /\ \A q \in Handle!Processes : pointer'[q] = pointer[1]
  BY <1>1, <1>2 DEF Handle!Processes
<1>4. /\ handleLife' \in [Handle!Processes -> [DOMAIN object -> Lives]]
      /\ \A q \in Handle!Processes : handleLife'[q] = handleLife[1]
  BY <1>1, <1>2 DEF Handle!Processes
<1>5. /\ lease' \in [Handle!Processes -> [DOMAIN object -> Nat]]
      /\ \A q \in Handle!Processes : lease'[q] = lease[1]
  BY <1>1, <1>2 DEF Handle!Processes
<1>6. /\ owners' \in [Handle!Processes -> [Handle!Counted -> Nat]]
      /\ \A q \in Handle!Processes : owners'[q] = owners[1]
  BY <1>1, <1>2 DEF Handle!Processes
<1>7. 1 \in Handle!Processes
  BY DEF Handle!Processes
<1>8. HandleTypes'
  BY <1>1, <1>3, <1>4, <1>5, <1>6 DEF HandlesInv, HandleTypes
<1>9. ObjectsInv'
  BY <1>1, ObjectsKept
<1>10. PointersInv'
  <2>1. \A h \in DOMAIN pointer[1] :
            /\ PointerInv(1, h)
            /\ \A g \in DOMAIN pointer[1] :
                  pointer[1][g].value = pointer[1][h].value
                  => g = h \/ pointer[1][h].value = 0
    BY <1>7 DEF HandlesInv, PointersInv
  <2>2. \A q \in Handle!Processes : \A h \in DOMAIN pointer[1] : PointerInv(q, h)'
    BY <2>1, <1>1, <1>3 DEF PointerInv
  <2> QED
    BY <2>1, <2>2, <1>3 DEF PointersInv, Handle!Processes
<1>11. LifeInv'
  <2> SUFFICES ASSUME NEW q \in Handle!Processes, NEW x \in DOMAIN object
               PROVE  /\ Alive(q, x)' <=> Handle!Shared(pointer'[q], x)
                      /\ handleLife'[q][x] # "none"
                      /\ handleLife'[q][x] = "teardown" => object[x].kind \in {"runtime", "prepared"}
    BY <1>1, SharedPrime DEF LifeInv, Temporary, Handle!Idle, Handle!Processes
  <2>1. /\ Alive(1, x) <=> Handle!Shared(pointer[1], x)
        /\ handleLife[1][x] # "none"
        /\ handleLife[1][x] = "teardown" => object[x].kind \in {"runtime", "prepared"}
    BY <1>1, <1>7 DEF HandlesInv, LifeInv, Temporary, Handle!Idle
  <2> QED
    BY <2>1, <1>3, <1>4 DEF Alive
<1>12. TornInv'
  BY <1>1, <1>4, <1>7 DEF HandlesInv, TornInv
<1>13. SlotsInv'
  <2> SUFFICES ASSUME NEW q \in Handle!Processes, NEW x \in DOMAIN object, lease'[q][x] # 0
               PROVE  /\ lease'[q][x] \in DOMAIN object
                      /\ object[lease'[q][x]].kind \in {"residual", "mp_residual"}
                      /\ handleLife'[q][lease'[q][x]] \in {"usable", "teardown"}
    BY <1>1 DEF SlotsInv, Alive, Handle!Processes
  <2>1. lease[1][x] # 0 =>
            /\ lease[1][x] \in DOMAIN object
            /\ object[lease[1][x]].kind \in {"residual", "mp_residual"}
            /\ handleLife[1][lease[1][x]] \in {"usable", "teardown"}
    BY <1>7 DEF HandlesInv, SlotsInv, Alive
  <2> QED
    BY <2>1, <1>4, <1>5
<1>14. OwnersInv'
  <2>1. \A k \in Handle!Counted : owners[1][k] = Cardinality(OwnersOf(1, k))
    BY <1>7 DEF HandlesInv, OwnersInv
  <2>2. \A q \in Handle!Processes : \A k : OwnersOf(q, k)' = OwnersOf(1, k)
    BY <1>3 DEF OwnersOf
  <2>3. \A q \in Handle!Processes : \A k \in Handle!Counted :
            owners'[q][k] = Cardinality(OwnersOf(q, k)')
    BY <2>1, <2>2, <1>6
  <2> QED
    BY <2>3 DEF OwnersInv, Handle!Processes, Handle!Counted
<1>15. BufferTypes' /\ BuffersInv' /\ ProductInv'
  <2>1. BufferTypes'
    BY <1>1 DEF HandlesInv, BufferTypes
  <2>2. ProductInv'
    BY <1>1 DEF ProductInv, Handle!Idle
  <2>3. BuffersInv'
    <3>1. handleLife'[1] = handleLife[1] /\ BuffersInv
      BY <1>4, <1>7 DEF HandlesInv
    <3>2. /\ \A x : Kept(x)' <=> Kept(x)
          /\ \A x : BuffersOf(x)' = BuffersOf(x)
          /\ InFlight' = InFlight
      BY <3>1, <1>1 DEF Kept, BuffersOf, InFlight
    <3>3. ASSUME NEW x, WorkspaceInv(x) PROVE WorkspaceInv(x)'
      BY <3>2, <3>3, <1>1 DEF WorkspaceInv, Holds
    <3> QED
      BY <3>1, <3>2, <3>3, <1>1 DEF BuffersInv
  <2> QED
    BY <2>1, <2>2, <2>3
<1> QED
  BY <1>8, <1>9, <1>10, <1>11, <1>12, <1>13, <1>14, <1>15 DEF HandlesInv

(* The finalizer of a product's handle destroys it, and nothing else.      *)
LEMMA MatvecDying ==
    ASSUME HandlesInv, family = "matvec", product = Handle!Idle, NEW h \in DOMAIN pointer[1],
           NEW o, o = pointer[1][h].value, o # 0, NEW r, Letting(1, h, r), NEW P,
           P = [pointer[1] EXCEPT ![h] = r]
    PROVE  /\ o \in DOMAIN object /\ Alive(1, o) /\ Handle!Dying(1, P) = {o}
<1>1. /\ DOMAIN workspace = DOMAIN object
      /\ \A x \in DOMAIN object : object[x].kind = "matvec" /\ object[x].parent = 0
      /\ \A x \in DOMAIN object : x # 0
  BY MatvecWorkspaces
<1>2. \A v \in DOMAIN object : Handle!Lineage(v) = {v, 0}
  BY <1>1 DEF Handle!Lineage
<1>3. \A g \in DOMAIN pointer[1] :
          /\ pointer[1][g].value # 0 => pointer[1][g].value \in DOMAIN object /\ pointer[1][g].holder
          /\ pointer[1][g].value = o => g = h
  BY DEF HandlesInv, PointersInv, PointerInv, Handle!Processes
<1>4. \A x \in DOMAIN object : Alive(1, x) <=> Handle!Shared(pointer[1], x)
  BY DEF HandlesInv, LifeInv, Temporary, Handle!Idle, Handle!Processes
<1>5. \A x \in DOMAIN object :
          Handle!Shared(pointer[1], x) <=> \E g \in DOMAIN pointer[1] : pointer[1][g].value = x
  BY <1>1, <1>2, <1>3 DEF Handle!Shared
<1>6. /\ DOMAIN P = DOMAIN pointer[1]
      /\ \A g \in DOMAIN P : P[g] = IF g = h THEN r ELSE pointer[1][g]
      /\ r.value = 0
  BY DEF Letting
<1>7. \A x \in DOMAIN object :
          Handle!Shared(P, x) <=> \E g \in DOMAIN pointer[1] : g # h /\ pointer[1][g].value = x
  BY <1>1, <1>2, <1>3, <1>6 DEF Handle!Shared
<1>8. o \in DOMAIN object /\ Alive(1, o)
  BY <1>3, <1>4, <1>5
<1>9. \A x \in DOMAIN object : Alive(1, x) /\ ~Handle!Shared(P, x) <=> x = o
  BY <1>3, <1>4, <1>5, <1>7, <1>8
<1> QED
  BY <1>8, <1>9 DEF Handle!Dying, Alive

LEMMA FinalizeStep ==
    ASSUME HandlesInv, NEW p \in Handle!Processes, NEW h \in DOMAIN pointer[p],
           Handle!Finalize(p, h)
    PROVE  HandlesInv'
<1>1. /\ pointer[p][h].holder /\ owners' = Handle!fixed_sp_owner_release(p, h)
      /\ Handle!Settle(p, Handle!Emptied(p, h))
      /\ UNCHANGED <<family, object, forked>> /\ product = Handle!Idle
      /\ product' = Handle!Idle /\ UNCHANGED workspace
  BY DEF Handle!Finalize
<1>2. CASE pointer[p][h].kind # "matvec"
  <2>1. Handle!Keep
    BY <1>1, <1>2 DEF Handle!Finalize, Handle!Keep, Handle!NoProduct
  <2> QED
    BY <1>1, <1>2, <2>1, EmptiedStep
<1>3. CASE pointer[p][h].kind = "matvec"
  <2> SUFFICES ASSUME NEW o, o = pointer[p][h].value, NEW r,
                      r = Handle!Pointer(pointer[p][h].kind, 0)
               PROVE  HandlesInv'
    OBVIOUS
  <2>1. Letting(p, h, r)
    BY LettingShapes
  <2>2. /\ Handle!Emptied(p, h) = [pointer[p] EXCEPT ![h] = r]
        /\ ~r.counted
    <3>1. ~r.counted
      BY DEF Handle!Pointer
    <3> QED
      BY <3>1 DEF Handle!Emptied
  <2>3. family = "matvec" /\ o # 0
    BY <1>1, <1>3 DEF HandlesInv, PointersInv, PointerInv
  <2>4. /\ HandleTypes' /\ ObjectsInv' /\ PointersInv' /\ LifeInv' /\ TornInv'
        /\ SlotsInv' /\ OwnersInv'
    BY <1>1, <2>1, <2>2, LetGo
  <2>5. [pointer[p] EXCEPT ![h] = r] \in Seq(PointerRecord)
    BY <2>1, LettingLowers DEF Lowered
  <2>6. InFlight = {}
    BY <1>1 DEF Handle!Idle, InFlight
  <2>7. CASE p = 1
    <3> SUFFICES ASSUME NEW P, P = [pointer[1] EXCEPT ![h] = r] PROVE HandlesInv'
      OBVIOUS
    <3>1. o \in DOMAIN object /\ Alive(1, o) /\ Handle!Dying(1, P) = {o}
      BY <2>1, <2>3, <2>7, <1>1, MatvecDying
    <3>2. \A x \in DOMAIN object :
              handleLife'[1][x] = IF x = o THEN "freed" ELSE handleLife[1][x]
      <4>1. Handle!Settle(1, P) /\ P \in Seq(PointerRecord) /\ 1 \in Handle!Processes
        BY <1>1, <2>2, <2>5, <2>7
      <4>2. \A x \in DOMAIN object : handleLife'[1][x] =
                IF x \in Handle!Dying(1, P) THEN "freed" ELSE handleLife[1][x]
        BY <4>1, SettleEffect
      <4> QED
        BY <3>1, <4>2
    <3>3. Kept(o) /\ \A x : Kept(x)' <=> Kept(x) /\ x # o
      BY <1>1, <2>3, <3>1, <3>2, MatvecWorkspaces DEF Kept, Alive
    <3>4. Clears({workspace[o].rhs, workspace[o].output})
      BY <1>1, <1>3, <2>7 DEF Handle!Finalize, Handle!Value, Clears
    <3>5. {workspace[o].rhs, workspace[o].output} \ {0} = InFlight \cup BuffersOf(o)
      BY <2>6 DEF BuffersOf
    <3>6. BufferTypes' /\ BuffersInv' /\ ProductInv'
      BY <1>1, <2>3, <3>3, <3>4, <3>5, BuffersCleared
    <3> QED
      BY <2>4, <3>6 DEF HandlesInv
  <2>8. CASE p = 2
    <3>1. UNCHANGED handleHeap
      BY <2>8 DEF Handle!Finalize
    <3>2. handleLife'[1] = handleLife[1]
      <4>1. Handle!Settle(p, [pointer[p] EXCEPT ![h] = r])
        BY <1>1, <2>2
      <4>2. 1 \in Handle!Processes \ {p}
        BY <2>8 DEF Handle!Processes
      <4> QED
        BY <4>1, <4>2, <2>5, SettleEffect
    <3>3. \A x : Kept(x)' <=> Kept(x)
      BY <1>1, <3>2 DEF Kept
    <3>4. Clears({})
      <4>1. handleHeap \in Seq(Nat)
        BY <2>3, MatvecWorkspaces
      <4>2. handleHeap = [b \in DOMAIN handleHeap |-> handleHeap[b]]
        BY <4>1
      <4>3. [b \in DOMAIN handleHeap |-> handleHeap[b]] =
                [b \in DOMAIN handleHeap |-> IF b \in {} THEN 0 ELSE handleHeap[b]]
        OBVIOUS
      <4> QED
        BY <3>1, <4>2, <4>3 DEF Clears
    <3>5. {} \ {0} = InFlight
      BY <2>6
    <3>6. BufferTypes' /\ BuffersInv' /\ ProductInv'
      BY <1>1, <2>3, <3>3, <3>4, <3>5, BuffersCleared
    <3> QED
      BY <2>4, <3>6 DEF HandlesInv
  <2> QED
    BY <2>7, <2>8 DEF Handle!Processes
<1> QED
  BY <1>2, <1>3

-----------------------------------------------------------------------------
LEMMA BatchStep ==
    ASSUME HandlesInv, NEW h \in DOMAIN pointer[1],
           \/ Handle!C_fixed_sp_cuda_prepared_create(h)
           \/ Handle!fixed_sp_cuda_submit_batch(h)
           \/ Handle!multi_penalty_batch(h)
    PROVE  HandlesInv'
<1> SUFFICES ASSUME NEW v, v = pointer[1][h].value PROVE HandlesInv'
  OBVIOUS
<1>1. /\ pointer[1][h].kind \in {"runtime", "prepared", "mp_prepared"}
      /\ pointer[1][h].holder /\ v # 0
  BY DEF Handle!C_fixed_sp_cuda_prepared_create, Handle!fixed_sp_cuda_submit_batch,
         Handle!multi_penalty_batch, Handle!Live, Handle!Held
<1>2. family # "matvec" /\ v \in Nat
  <2>1. pointer[1] \in Seq(PointerRecord) /\ PointerInv(1, h)
    BY DEF HandlesInv, HandleTypes, PointersInv, Handle!Processes
  <2>2. pointer[1][h] \in PointerRecord
    BY <2>1
  <2> QED
    BY <1>1, <2>1, <2>2 DEF PointerInv, PointerRecord
<1>3. /\ "prepared" \in Handle!Kinds /\ "residual" \in Handle!Kinds
      /\ "mp_residual" \in Handle!Kinds
  BY DEF Handle!Kinds
<1>4. CASE Handle!C_fixed_sp_cuda_prepared_create(h)
  <2>1. pointer[1][h].kind = "runtime" /\ Handle!Make("prepared", v)
    BY <1>4 DEF Handle!C_fixed_sp_cuda_prepared_create, Handle!Live, Handle!Held, Handle!Value
  <2>2. Makes("prepared", v)
    BY <1>1, <2>1 DEF Makes
  <2> QED
    BY <1>2, <1>3, <2>1, <2>2, MakeStep
<1>5. CASE Handle!fixed_sp_cuda_submit_batch(h)
  <2>1. pointer[1][h].kind = "prepared"
    BY <1>5 DEF Handle!fixed_sp_cuda_submit_batch, Handle!Live, Handle!Held
  <2>2. CASE Handle!Make("residual", v)
    <3>1. Makes("residual", v)
      BY <1>1, <2>1 DEF Makes
    <3> QED
      BY <1>2, <1>3, <2>2, <3>1, MakeStep
  <2>3. CASE ~Handle!Make("residual", v)
    <3>1. /\ PointerLast(Handle!Pointer("residual", 0))
          /\ UNCHANGED <<handleLife, torn, lease, owners>> /\ Handle!Keep
      BY <1>5, <2>3 DEF Handle!fixed_sp_cuda_submit_batch, Handle!Value, PointerLast
    <3> QED
      BY <1>2, <3>1, EmptyPointerStep
  <2> QED
    BY <2>2, <2>3
<1>6. CASE Handle!multi_penalty_batch(h)
  <2>1. pointer[1][h].kind = "mp_prepared" /\ Handle!Make("mp_residual", v)
    BY <1>6 DEF Handle!multi_penalty_batch, Handle!Live, Handle!Held, Handle!Value
  <2>2. Makes("mp_residual", v)
    BY <1>1, <2>1 DEF Makes
  <2> QED
    BY <1>2, <1>3, <2>1, <2>2, MakeStep
<1> QED
  BY <1>4, <1>5, <1>6

LEMMA PointerStep ==
    ASSUME HandlesInv, NEW p \in Handle!Processes, NEW h \in DOMAIN pointer[p],
           \/ Handle!C_fixed_sp_cuda_runtime_free(p, h)
           \/ Handle!C_fixed_sp_cuda_prepared_free(p, h)
           \/ Handle!C_fixed_sp_cuda_residual_release(p, h)
           \/ Handle!C_fixed_sp_cuda_residual_free(p, h)
           \/ Handle!C_full_cuda_ci_multi_penalty_gcv_prepared_free(p, h)
           \/ Handle!C_full_cuda_ci_multi_penalty_gcv_residual_release(p, h)
           \/ Handle!C_full_cuda_ci_multi_penalty_gcv_residual_free(p, h)
           \/ Handle!Finalize(p, h)
    PROVE  HandlesInv'
<1>1. CASE Handle!C_fixed_sp_cuda_runtime_free(p, h)
  BY <1>1, CloseStep DEF Handle!C_fixed_sp_cuda_runtime_free, Handle!Held
<1>2. CASE Handle!C_fixed_sp_cuda_prepared_free(p, h)
  BY <1>2, CloseStep DEF Handle!C_fixed_sp_cuda_prepared_free, Handle!Held
<1>3. pointer[p][h].kind # "matvec" => family # "matvec"
  BY DEF HandlesInv, PointersInv, PointerInv
<1>4. CASE Handle!C_fixed_sp_cuda_residual_release(p, h)
  <2>1. /\ pointer[p][h].kind = "residual" /\ UNCHANGED <<pointer, handleLife, torn, owners>>
        /\ Handle!Keep /\ (lease' = Handle!Unleased(p, Handle!Value(p, h)) \/ lease' = lease)
    BY <1>4 DEF Handle!C_fixed_sp_cuda_residual_release, Handle!Live, Handle!Held
  <2>2. CASE lease' = Handle!Unleased(p, Handle!Value(p, h))
    BY <1>3, <2>1, <2>2, ResidualReleaseStep
  <2>3. CASE lease' = lease
    BY <2>1, <2>3, HandleUnchanged DEF Handle!Keep, Handle!NoProduct
  <2> QED
    BY <2>1, <2>2, <2>3
<1>5. CASE Handle!C_fixed_sp_cuda_residual_free(p, h)
  <2>1. pointer[p][h].kind = "residual" /\ Handle!Keep
    BY <1>5 DEF Handle!C_fixed_sp_cuda_residual_free, Handle!Held
  <2>2. CASE /\ Handle!Settle(p, Handle!Emptied(p, h))
             /\ owners' = Handle!fixed_sp_owner_release(p, h)
    BY <2>1, <2>2, EmptiedStep
  <2>3. CASE UNCHANGED <<pointer, handleLife, torn, lease, owners>>
    BY <2>1, <2>3, HandleUnchanged DEF Handle!Keep, Handle!NoProduct
  <2> QED
    BY <1>5, <2>2, <2>3 DEF Handle!C_fixed_sp_cuda_residual_free
<1>6. CASE Handle!C_full_cuda_ci_multi_penalty_gcv_prepared_free(p, h)
  BY <1>6, MultiPenaltyFreeStep
     DEF Handle!C_full_cuda_ci_multi_penalty_gcv_prepared_free, Handle!Held
<1>7. CASE Handle!C_full_cuda_ci_multi_penalty_gcv_residual_release(p, h)
  BY <1>3, <1>7, ResidualReleaseStep
     DEF Handle!C_full_cuda_ci_multi_penalty_gcv_residual_release, Handle!Live, Handle!Held
<1>8. CASE Handle!C_full_cuda_ci_multi_penalty_gcv_residual_free(p, h)
  <2>1. "mp_residual" \notin Handle!Counted
    BY DEF Handle!Counted
  <2> QED
    BY <1>8, <2>1, EmptiedStep
       DEF Handle!C_full_cuda_ci_multi_penalty_gcv_residual_free, Handle!Held
<1>9. CASE Handle!Finalize(p, h)
  BY <1>9, FinalizeStep
<1> QED
  BY <1>1, <1>2, <1>4, <1>5, <1>6, <1>7, <1>8, <1>9

(* Every step keeps the invariant.                                         *)
LEMMA HandleStep ==
    HandlesInv /\ [Handle!Next]_handleVars => HandlesInv'
<1> SUFFICES ASSUME HandlesInv, [Handle!Next]_handleVars PROVE HandlesInv'
  OBVIOUS
<1>1. CASE UNCHANGED handleVars
  BY <1>1, HandleUnchanged DEF handleVars
<1>2. CASE Handle!C_fixed_sp_cuda_runtime_create
  <2>1. family # "matvec" /\ Handle!Make("runtime", 0)
    BY <1>2 DEF Handle!C_fixed_sp_cuda_runtime_create
  <2>2. "runtime" \in Handle!Kinds /\ 0 \in Nat /\ Makes("runtime", 0)
    BY DEF Handle!Kinds, Makes
  <2> QED
    BY <2>1, <2>2, MakeStep
<1>3. CASE Handle!C_full_cuda_ci_multi_penalty_gcv_prepared_create
  <2>1. family # "matvec" /\ Handle!Make("mp_prepared", 0)
    BY <1>3 DEF Handle!C_full_cuda_ci_multi_penalty_gcv_prepared_create
  <2>2. "mp_prepared" \in Handle!Kinds /\ 0 \in Nat /\ Makes("mp_prepared", 0)
    BY DEF Handle!Kinds, Makes
  <2> QED
    BY <2>1, <2>2, MakeStep
<1>4. CASE \E h \in DOMAIN pointer[1] :
               \/ Handle!C_fixed_sp_cuda_prepared_create(h)
               \/ Handle!fixed_sp_cuda_submit_batch(h)
               \/ Handle!multi_penalty_batch(h)
  BY <1>4, BatchStep
<1>5. CASE \E p \in Handle!Processes : \E h \in DOMAIN pointer[p] :
               \/ Handle!C_fixed_sp_cuda_runtime_free(p, h)
               \/ Handle!C_fixed_sp_cuda_prepared_free(p, h)
               \/ Handle!C_fixed_sp_cuda_residual_release(p, h)
               \/ Handle!C_fixed_sp_cuda_residual_free(p, h)
               \/ Handle!C_full_cuda_ci_multi_penalty_gcv_prepared_free(p, h)
               \/ Handle!C_full_cuda_ci_multi_penalty_gcv_residual_release(p, h)
               \/ Handle!C_full_cuda_ci_multi_penalty_gcv_residual_free(p, h)
               \/ Handle!Finalize(p, h)
  BY <1>5, PointerStep
<1>6. CASE Handle!Fork
  BY <1>6, ForkStep
<1>7. CASE \E temporary \in BOOLEAN :
               Handle!legacy_dcov_spectra_matvec_cuda_handle_create(temporary)
  BY <1>7, HandleCreateStep
<1>8. CASE \E o \in DOMAIN object, width \in Handle!Sizes : Handle!StartProduct(o, width)
  BY <1>8, StartProductStep
<1>9. CASE Handle!GrowRhs \/ Handle!GrowOutput
  BY <1>9, GrowStep
<1>10. CASE Handle!Replace
  BY <1>10, ReplaceStep
<1>11. CASE Handle!Multiply
  BY <1>11, MultiplyStep
<1>12. CASE Handle!EndSolve
  BY <1>12, EndSolveStep
<1> QED
  BY <1>1, <1>2, <1>3, <1>4, <1>5, <1>6, <1>7, <1>8, <1>9, <1>10, <1>11, <1>12
     DEF Handle!Next

(* The inductive invariant of R's pointers: types; objects made from the   *)
(* objects they need; pointers that are the only ones to their value; lives,*)
(* destructions, leases and owner counts that follow from the pointers; and*)
(* buffers that belong to one workspace or to the product under way.       *)
THEOREM HandlesInvariant == Handle!Spec => []HandlesInv
<1>1. Handle!Init => HandlesInv
  BY HandleInit
<1>2. HandlesInv /\ [Handle!Next]_Handle!vars => HandlesInv'
  BY HandleStep DEF Handle!vars, handleVars
<1> QED
  BY <1>1, <1>2, PTL DEF Handle!Spec

(* In every behaviour, for any number of pointers, products and failing    *)
(* calls: owners are counted, device resources destroyed once and by their *)
(* maker, output slots given back, readers reach what exists, and the      *)
(* buffers allocated between calls are those of the handles that exist.    *)
THEOREM HandlesAreSound == Handle!Spec => []HandlesSound
<1>1. HandlesInv => HandlesSound
  BY HandlesInvSound
<1> QED
  BY <1>1, HandlesInvariant, PTL
=============================================================================
