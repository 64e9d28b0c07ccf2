--------------------------- MODULE ComponentWave ---------------------------
(***************************************************************************)
(* The dcc.gamma route of the strict one-call engine over several calls:   *)
(* which CI results, optimizer states and eigen-components a group finds   *)
(* cached, and the positive-miss wave policy, which admits a second group  *)
(* into a wave only if it predicts component misses for both and requires  *)
(* the execution to confirm each prediction.                               *)
(*                                                                         *)
(* The result and state caches outlive a call; the component cache (fixed  *)
(* slots, no eviction) is created by each call.  A residual key is a       *)
(* function of the conditioning set and the target, since the optimizer    *)
(* is deterministic.  Any group may fail in CUDA; the call then ends, and  *)
(* the states it has inserted stay cached.  SkeletonFrontier has the order *)
(* of buckets; here any ready bucket may be next.                          *)
(***************************************************************************)
EXTENDS Naturals, Sequences, SequencesExt, FiniteSets, FiniteSetsExt, TLC

CONSTANTS
    Datasets,
    Plan,               \* per level, the tasks <<S, x, y>> of the full graph
    MultiPenalty,       \* conditioning sets with more than one penalty
    ResultCapacities, StateCapacities,  \* what cache control may configure
    ComponentCapacity,  \* slots of the component cache
    MaxCalls            \* bound on calls

CapacityAssumption ==
    /\ ResultCapacities \cup StateCapacities \subseteq Nat \ {0}
    /\ ComponentCapacity \in Nat \ {0}
PlanAssumption ==
    \A l \in DOMAIN Plan : \A t \in Plan[l] : Cardinality(t[1]) = l - 1

VARIABLES
    results, states,    \* the semantic caches
    call,               \* number of the call
    opts,               \* dataset, positive (the policy), fresh, and what
                        \* the caches' counts and capacity were at the start
    level, deleted,     \* the level (from 1) and the edges deleted so far
    todo,               \* tasks of the level not selected or dropped
    wave,               \* groups selected and not executed
    components, slots,  \* component cache: committed keys, next_slot_
    phase,
    refused             \* the guard that ended the last call, or "no"

vars == <<results, states, call, opts, level, deleted, todo, wave, components,
          slots, phase, refused>>

-----------------------------------------------------------------------------
(* The two process-wide caches of the engine, compact CI results and       *)
(* optimizer target states: least-recently-used maps under a mutex that    *)
(* outlive a call, so a call may start on a warm cache.                    *)
(*                                                                         *)
(* A key is a tuple whose first element is its dataset.  A cache is a      *)
(* record: the keys from most to least recently used, the ordinal of each  *)
(* key's insertion, the capacity and the number of insertions so far.  The *)
(* call that inserted a key is kept beside it, for the properties only.    *)

Has(c) == ToSet(c.order)
EmptyCacheOf(capacity) ==
    [order |-> <<>>, ordinal |-> <<>>, born |-> <<>>, capacity |-> capacity,
     inserts |-> 0]

MoveToFront(order, k) == <<k>> \o SelectSeq(order, LAMBDA x : x # k)
KeepOnly(f, keys) == [k \in DOMAIN f \cap keys |-> f[k]]

(* A hit moves the key to the front; a miss changes only counters that     *)
(* nothing reads.                                                          *)
ResultLookup(c, k) ==
    IF k \in Has(c) THEN [c EXCEPT !.order = MoveToFront(@, k)] ELSE c
StateLookup(c, k) ==
    IF k \in Has(c) THEN [c EXCEPT !.order = MoveToFront(@, k)] ELSE c

(* peek reports a state without touching its place in the order.           *)
StatePeek(c, k) == k \in Has(c)

Evicted(c, size) ==
    LET kept == SubSeq(c.order, 1, size)
    IN  IF Len(c.order) <= size THEN c
        ELSE [c EXCEPT !.order = kept,
                       !.ordinal = KeepOnly(@, ToSet(kept)),
                       !.born = KeepOnly(@, ToSet(kept))]

Inserted(c, k, by) ==
    LET room == Evicted(c, c.capacity - 1)
    IN  [room EXCEPT !.order = <<k>> \o @,
                     !.inserts = @ + 1,
                     !.ordinal = (k :> c.inserts + 1) @@ @,
                     !.born = (k :> by) @@ @]

(* A present key is overwritten in place and keeps its ordinal.            *)
ResultInsert(c, k, by) ==
    IF k \in Has(c) THEN [c EXCEPT !.order = MoveToFront(@, k)]
                    ELSE Inserted(c, k, by)
StateInsert(c, k, by) ==
    IF k \in Has(c) THEN [c EXCEPT !.order = MoveToFront(@, k)]
                    ELSE Inserted(c, k, by)

ResultConfigure(c, capacity) ==
    Evicted([c EXCEPT !.capacity = capacity], capacity)
StateConfigure(c, capacity) ==
    Evicted([c EXCEPT !.capacity = capacity], capacity)

ResultReset(c) == EmptyCacheOf(c.capacity)
StateReset(c) == EmptyCacheOf(c.capacity)

(* snapshot(dataset): how many entries the dataset has.                    *)
ResultEntries(c, d) == Len(SelectSeq(c.order, LAMBDA k : k[1] = d))
StateEntries(c, d) == Len(SelectSeq(c.order, LAMBDA k : k[1] = d))

-----------------------------------------------------------------------------
(* A call.                                                                 *)

Edge(t) == {t[2], t[3]}
Units(ts) == UNION {{<<t[1], x>> : x \in Edge(t)} : t \in ts}
Direct(S) == S = {}
ByTarget(units) == SetToSortSeq(units, LAMBDA a, b : a[2] < b[2])
ByPair(ts) ==
    SetToSortSeq(ts, LAMBDA a, b : \/ a[2] < b[2]
                                   \/ a[2] = b[2] /\ a[3] < b[3])
StateKey(u) == <<opts.dataset>> \o u
ResultKey(t) == <<opts.dataset>> \o t

Init ==
    /\ results = EmptyCacheOf(Max(ResultCapacities))
    /\ states = EmptyCacheOf(Max(StateCapacities))
    /\ call = 0
    /\ opts = [dataset |-> CHOOSE d \in Datasets : TRUE, positive |-> FALSE,
               fresh |-> TRUE, results |-> 0, states |-> 0,
               room |-> Max(StateCapacities)]
    /\ level = 0 /\ deleted = {} /\ todo = {} /\ wave = <<>>
    /\ components = {} /\ slots = 0
    /\ phase = "idle" /\ refused = "no"

-----------------------------------------------------------------------------
(* Cache control, between calls.                                           *)

NoCall == UNCHANGED <<call, opts, level, deleted, todo, wave, components,
                      slots, phase, refused>>

CacheControl ==
    /\ phase = "idle" /\ call < MaxCalls
    /\ \/ results' = ResultReset(results) /\ states' = StateReset(states)
       \/ \E n \in ResultCapacities :
             results' = ResultConfigure(results, n) /\ UNCHANGED states
       \/ \E n \in StateCapacities :
             states' = StateConfigure(states, n) /\ UNCHANGED results
    /\ NoCall

-----------------------------------------------------------------------------
(* A call and its levels.                                                  *)

Plannable(t) ==
    /\ Edge(t) \notin deleted
    /\ \E v \in Edge(t) : \A s \in t[1] : {v, s} \notin deleted

BeginCall(d, positive) ==
    /\ phase = "idle" /\ call < MaxCalls
    /\ call' = call + 1
    /\ opts' = [dataset |-> d, positive |-> positive,
                fresh |-> /\ ResultEntries(results, d) = 0
                          /\ StateEntries(states, d) = 0,
                results |-> results.inserts, states |-> states.inserts,
                room |-> states.capacity]
    /\ level' = 0 /\ deleted' = {} /\ todo' = {} /\ wave' = <<>>
    /\ components' = {} /\ slots' = 0
    /\ phase' = "plan" /\ refused' = "no"
    /\ UNCHANGED <<results, states>>

(* The levels end with the last one of the plan, or when no task is left   *)
(* to open another.                                                        *)
NextLevel ==
    /\ phase = "plan" /\ level < Len(Plan)
    /\ level' = level + 1
    /\ todo' = {t \in Plan[level + 1] : Plannable(t)}
    /\ phase' = "prefill"
    /\ UNCHANGED <<results, states, call, opts, deleted, wave, components,
                   slots, refused>>

EndCall ==
    /\ phase = "plan"
    /\ level > 0
    /\ phase' = "idle"
    /\ level' = 0 /\ deleted' = {} /\ components' = {} /\ slots' = 0
    /\ UNCHANGED <<results, states, call, opts, todo, wave, refused>>

(* A call that began on caches without an entry of its dataset optimizes   *)
(* every target of a level beforehand; PrefillPipeline has the windows.    *)
PrefillKeys ==
    LET sets == SetToSeq({t[1] : t \in todo} \ {{}})
    IN  FlattenSeq([i \in 1..Len(sets) |->
                     ByTarget(Units({t \in todo : t[1] = sets[i]}))])

MutPrefill ==
    /\ phase = "prefill"
    /\ states' = IF opts.fresh /\ level > 2
                 THEN FoldLeft(LAMBDA c, u : StateInsert(c, StateKey(u), call),
                               states, PrefillKeys)
                 ELSE states
    /\ phase' = "select"
    /\ UNCHANGED <<results, call, opts, level, deleted, todo, wave, components,
                   slots, refused>>

Prefill ==
    /\ phase = "prefill"
    /\ states' = IF opts.fresh
                 THEN FoldLeft(LAMBDA c, u : StateInsert(c, StateKey(u), call),
                               states, PrefillKeys)
                 ELSE states
    /\ phase' = "select"
    /\ UNCHANGED <<results, call, opts, level, deleted, todo, wave, components,
                   slots, refused>>

-----------------------------------------------------------------------------
(* Selecting the groups of a wave.                                         *)

Ready ==
    {t \in todo : \A i \in DOMAIN wave : \A u \in wave[i].tasks : Edge(u) # Edge(t)}
Buckets == {t[1] : t \in Ready}
Bucket(S) == {t \in Ready : t[1] = S}

(* predict_legacy_component_wave_group.  A group whose results are all     *)
(* cached has no context, so its prediction is incomplete.                 *)
predict_legacy_component_wave_group(ts) ==
    LET units == Units(ts)
        known == \A u \in units : Direct(u[1]) \/ StatePeek(states, StateKey(u))
    IN  [complete |-> ts # {} /\ known,
         missing |-> IF ts # {} /\ known THEN units \ components ELSE {}]

NoPrediction == [complete |-> FALSE, missing |-> {}]

Work(ts, prediction) ==
    LET group == {t \in ts : ResultKey(t) \notin Has(results)}
    IN  [tasks |-> ts, group |-> group, prediction |-> prediction]

Touched(ts) ==
    FoldLeft(LAMBDA c, t : ResultLookup(c, ResultKey(t)), results, ByPair(ts))

Refuse(guard) == phase' = "idle" /\ refused' = guard

SelectFirst(ts) ==
    /\ phase = "select" /\ wave = <<>>
    /\ LET plain == Work(ts, NoPrediction)
       IN  wave' = << [plain EXCEPT !.prediction =
                         IF opts.positive
                         THEN predict_legacy_component_wave_group(plain.group)
                         ELSE NoPrediction] >>
    /\ results' = Touched(ts)
    /\ todo' = todo \ ts
    /\ UNCHANGED <<states, call, opts, level, deleted, components, slots, phase,
                   refused>>

(* What ends a positive-miss wave at its first group.                      *)
FirstStops == ~wave[1].prediction.complete \/ wave[1].prediction.missing = {}
Admissible(prediction) ==
    /\ prediction.complete /\ prediction.missing # {}
    /\ prediction.missing \cap wave[1].prediction.missing = {}

SelectSecond(ts) ==
    /\ phase = "select" /\ Len(wave) = 1
    /\ LET prediction == predict_legacy_component_wave_group(ts)
           second == Work(ts, prediction)
       IN  /\ opts.positive => ~FirstStops /\ Admissible(prediction)
           /\ IF opts.positive /\ second.group # ts
              THEN Refuse("result hit") /\ UNCHANGED wave
              ELSE wave' = Append(wave, second) /\ UNCHANGED <<phase, refused>>
    /\ results' = Touched(ts)
    /\ todo' = todo \ ts
    /\ UNCHANGED <<states, call, opts, level, deleted, components, slots>>

WaveSelected ==
    /\ phase = "select" /\ wave # <<>>
    /\ phase' = "execute"
    /\ UNCHANGED <<results, states, call, opts, level, deleted, todo, wave,
                   components, slots, refused>>

(* The candidate bucket is refused, or the wave is full, or nothing is     *)
(* ready, or the wave capacity is one.                                     *)
StopSelecting ==
    /\ \/ ~opts.positive
       \/ Len(wave) = 2
       \/ Ready = {}
       \/ Len(wave) = 1 /\ FirstStops
       \/ /\ Len(wave) = 1
          /\ \E S \in Buckets : \E ts \in SUBSET Bucket(S) \ {{}} :
                ~Admissible(predict_legacy_component_wave_group(ts))
    /\ WaveSelected

-----------------------------------------------------------------------------
(* Executing a group: optimizer states, components, results.               *)

(* States absent from the cache are optimized; a single absent state of a  *)
(* multi-penalty set is optimized together with a cached one, whose state  *)
(* is stored again.                                                        *)
Optimized(S, units) ==
    LET absent == SelectSeq(ByTarget(units),
                            LAMBDA u : StateKey(u) \notin Has(states))
        others == SelectSeq(ByTarget(units),
                            LAMBDA u : StateKey(u) \in Has(states))
    IN  IF S \in MultiPenalty /\ Len(absent) = 1 /\ others # <<>>
        THEN Append(absent, Head(others)) ELSE absent

StatesAfter(S, units) ==
    LET looked == FoldLeft(LAMBDA c, u : StateLookup(c, StateKey(u)), states,
                           ByTarget(units))
    IN  IF Direct(S) THEN states
        ELSE FoldLeft(LAMBDA c, u : StateInsert(c, StateKey(u), call), looked,
                      Optimized(S, units))

(* Misses reserve the slots that are left and are committed with the batch.*)
Reserved(missed) ==
    LET room == ComponentCapacity - slots
    IN  {u \in missed : Cardinality({v \in missed : v[2] < u[2]}) < room}

ResultsAfter(ts) ==
    FoldLeft(LAMBDA c, t : ResultInsert(c, ResultKey(t), call), results,
             ByPair(ts))

(* The engine's check of the prediction after the group has run.           *)
Confirmed(work) ==
    opts.positive =>
        /\ work.prediction.complete
        /\ Cardinality(Units(work.group) \ components) =
               Cardinality(work.prediction.missing)

Execute ==
    /\ phase = "execute" /\ wave # <<>>
    /\ LET work == Head(wave)
           S == (CHOOSE t \in work.tasks : TRUE)[1]
           units == Units(work.group)
           missed == units \ components
       IN  /\ states' = IF work.group = {} THEN states
                        ELSE StatesAfter(S, units)
           /\ components' = components \cup Reserved(missed)
           /\ slots' = slots + Cardinality(Reserved(missed))
           /\ results' = ResultsAfter(work.group)
           /\ IF Confirmed(work)
              THEN /\ \E gone \in SUBSET {Edge(t) : t \in work.tasks} :
                        /\ deleted' = deleted \cup gone
                        /\ todo' = {t \in todo : Edge(t) \notin gone}
                   /\ wave' = Tail(wave)
                   /\ phase' = IF Tail(wave) # <<>> THEN "execute"
                               ELSE IF todo' = {} THEN "plan" ELSE "select"
                   /\ UNCHANGED refused
              ELSE Refuse("prediction") /\ UNCHANGED <<deleted, todo, wave>>
    /\ UNCHANGED <<call, opts, level>>

(* A CUDA failure inside the group, before or after its states are stored. *)
ExecuteFails ==
    /\ phase = "execute" /\ wave # <<>> /\ Head(wave).group # {}
    /\ LET S == (CHOOSE t \in Head(wave).tasks : TRUE)[1]
       IN  states' \in {states, StatesAfter(S, Units(Head(wave).group))}
    /\ Refuse("cuda")
    /\ UNCHANGED <<results, call, opts, level, deleted, todo, wave, components,
                   slots>>

NothingPlanned ==
    /\ phase = "select" /\ wave = <<>> /\ todo = {}
    /\ phase' = "plan"
    /\ UNCHANGED <<results, states, call, opts, level, deleted, todo, wave,
                   components, slots, refused>>

Next ==
    \/ CacheControl
    \/ \E d \in Datasets, positive \in BOOLEAN : BeginCall(d, positive)
    \/ NextLevel \/ EndCall \/ Prefill \/ NothingPlanned
    \/ \E S \in Buckets : \E ts \in SUBSET Bucket(S) \ {{}} :
          SelectFirst(ts) \/ SelectSecond(ts)
    \/ StopSelecting \/ Execute \/ ExecuteFails

Spec == Init /\ [][Next]_vars

-----------------------------------------------------------------------------
(* A prefilled level whose states all fit is never refused: neither the    *)
(* prediction check nor the refusal of cached results can fire.  It fails  *)
(* if a level is searched before its states are stored, or if anything     *)
(* between prediction and execution changes which components are missing.  *)
PrefilledNeverRefused ==
    refused \in {"prediction", "result hit"} =>
        \/ ~opts.fresh
        \/ opts.room < Max({Cardinality(Units(Plan[l])) : l \in DOMAIN Plan})

(* The cache hits counted as preexisting are exactly those of entries that *)
(* an earlier call stored: an entry's ordinal is at most the count taken   *)
(* when the call began if and only if the entry is older than the call,    *)
(* whatever evictions, overwrites and resets came between.                 *)
PreexistingExact ==
    phase # "idle" =>
        /\ \A k \in Has(results) :
              results.ordinal[k] <= opts.results <=> results.born[k] < call
        /\ \A k \in Has(states) :
              states.ordinal[k] <= opts.states <=> states.born[k] < call

(* What the engine's own check says of the policy: a group's prediction is *)
(* complete and the execution finds the misses it names.                   *)
PredictionHolds == refused # "prediction"
=============================================================================
