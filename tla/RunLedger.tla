----------------------------- MODULE RunLedger -----------------------------
(***************************************************************************)
(* The work a one-call skeleton run pays for and books                     *)
(* (full_cuda_ci_one_call_skeleton_method): which levels are prefilled,    *)
(* which groups run on the device and which are answered by the result     *)
(* cache, what each route adds to the ledger, and the verdict of the final *)
(* gates (module LedgerGates).  The result and target-state caches belong  *)
(* to the process and outlive a call, refused and failed ones included;    *)
(* the caches of components and residuals belong to the call.              *)
(*                                                                         *)
(* The layer plan is a constant: for every level, the conditioning sets of *)
(* each edge in test order.  A residual key is the pair of a conditioning  *)
(* set and a target; its optimizer state has the same key.                 *)
(***************************************************************************)
EXTENDS LedgerGates, Sequences

CONSTANTS Plan,         \* level -> edge -> the conditioning sets of its tests
          OptionSets,      \* the option records a call may be started with
          Calls         \* bound on the calls of the process

Levels == DOMAIN Plan
Edges == UNION {DOMAIN Plan[l] : l \in Levels}
Deepest == CHOOSE l \in Levels : \A k \in Levels : k <= l

PlanAssumption ==
    /\ Levels = 0..Deepest /\ Calls \in Nat
    /\ \A l \in Levels : \A edge \in DOMAIN Plan[l] :
           /\ Cardinality(edge) = 2 /\ Len(Plan[l][edge]) > 0
           /\ l = 0 => Plan[l][edge] = <<"">>

VARIABLES o,            \* the options of the calls
          call,         \* the number of calls started
          results,      \* the compact result cache: tasks
          states,       \* the target-state cache: keys of optimizer states
          fresh,        \* whether both were empty when the call started
          replay,       \* whether the call before it returned
          level,
          next,         \* edge -> index of its next test, 0 for none
          gone,         \* edges deleted by this call
          wave,         \* the groups selected and not yet run
          comps,        \* component cache of the call: keys
          pending,      \* those whose Gram vector is not yet built
          mres, mcomp,  \* residual and component cache of the method batch
          arena,        \* keys in the coefficient arena of the level
          seen,         \* the key sets of the diagnostics
          skipped, ran, \* groups answered by the cache, groups executed
          d, n,         \* the ledger
          pc

process == <<results, states>>
frontier == <<level, next, gone, wave>>
caches == <<comps, pending, mres, mcomp, arena>>
ledger == <<seen, skipped, ran, d, n>>
vars == <<o, call, fresh, replay, pc, process, frontier, caches, ledger>>

NothingSeen == [residuals |-> {}, prepared |-> {}, physical |-> {},
                produced |-> {}, asked |-> {}, prefilled |-> {}]

-----------------------------------------------------------------------------
\* What a combination of options must satisfy before the call does any work.

LevelRoutes(x) ==
    /\ x.l2 => x.level /\ x.structured
    /\ x.structured => x.level
    /\ x.level => x.method = "dcc.gamma"

ReuseRoutes(x) ==
    /\ x.keys \/ x.reuse \/ x.parity => x.exact
    /\ x.parity => x.reuse
    /\ x.exact => x.method = "dcc.gamma"

MethodRoutes(x) ==
    /\ x.method \notin Gamma => x.gammaRoute = "stable-svd"
    /\ x.method \in Permutation \/ x.drawRoute = "stable-svd"
    /\ x.pipeline \/ x.delay = 0
    /\ x.overlap => x.method \in Permutation
    /\ x.inline => x.method = "hsic.perm"
    /\ x.wait => x.method # "dcc.gamma"

Qualified(x) == x.method = "dcc.gamma" /\ x.l2 /\ x.reuse /\ ~x.pipeline
                /\ x.traced = 0 /\ x.statusWait
SlotRoutes(x) ==
    /\ 3 \in x.slots => {4, 5, 6} \subseteq x.slots /\ x.properties
    /\ 6 \in x.slots => {4, 5} \subseteq x.slots /\ x.properties
    /\ 4 \in x.slots => x.workers
    /\ x.workers \/ x.slots # {} => Qualified(x)

FreshRoutes(x, unused) == x.level => unused /\ x.reuse /\ ~x.parity

ComponentRoutes(x) ==
    /\ x.bypass \/ x.lanes > 0 => x.cache
    /\ x.positive => x.wave = 2 /\ x.cache /\ x.lanes > 0
    /\ x.level => /\ x.cache /\ x.bypass /\ x.lanes = 8
                  /\ x.wave = 1 /\ ~x.positive

Admitted(x, unused) ==
    /\ LevelRoutes(x) /\ ReuseRoutes(x) /\ MethodRoutes(x) /\ SlotRoutes(x)
    /\ FreshRoutes(x, unused) /\ ComponentRoutes(x)

-----------------------------------------------------------------------------
Dcc == o.method = "dcc.gamma"
Random == o.method \in Permutation
Multi(l) == l >= 3
Top == IF call = 1 THEN o.first ELSE Deepest
PrefillsComponents(l) == o.level /\ (l >= 3 \/ (l = 2 /\ o.l2))

Live == DOMAIN Plan[level] \ gone
S(edge) == Plan[level][edge][next[edge]]
Ready == {edge \in Edges : next[edge] # 0}
Buckets(ready) == {{edge \in ready : S(edge) = s} : s \in {S(f) : f \in ready}}
Task(edge) == <<level, S(edge), edge>>
Keys(group) == {<<S(edge), t>> : edge \in group, t \in UNION group}
GroupKeys(s, edges) == {<<s, t>> : t \in UNION edges}
Planned(s) == {edge \in Live : \E k \in DOMAIN Plan[level][edge] :
                                    Plan[level][edge][k] = s}
PlannedSets == UNION {{Plan[level][edge][k] : k \in DOMAIN Plan[level][edge]} :
                         edge \in Live}
PlannedKeys == UNION {GroupKeys(s, Planned(s)) : s \in PlannedSets}

\* The keys that belong to a level.
LevelKeys(l) ==
    UNION {{<<Plan[l][edge][k], t>> : k \in DOMAIN Plan[l][edge], t \in edge} :
              edge \in DOMAIN Plan[l]}

Least(a, b) == IF a < b THEN a ELSE b

\* The cache after the keys new were inserted: the oldest entries go first.
Kept(old, new, capacity) ==
    IF Cardinality(old \cup new) <= capacity THEN {old \cup new}
    ELSE IF Cardinality(new) >= capacity THEN kSubset(capacity, new)
    ELSE {new \cup rest :
            rest \in kSubset(capacity - Cardinality(new), old \ new)}

Init ==
    /\ o \in OptionSets /\ call = 0 /\ results = {} /\ states = {}
    /\ fresh = TRUE /\ replay = FALSE /\ level = 0 /\ next = [edge \in Edges |-> 0]
    /\ gone = {} /\ wave = <<>>
    /\ comps = {} /\ pending = {} /\ mres = {} /\ mcomp = {} /\ arena = {}
    /\ seen = NothingSeen /\ skipped = 0 /\ ran = 0
    /\ d = Zero /\ n = [l \in Levels |-> ZeroRow] /\ pc = "returned"

Start ==
    /\ pc \in {"returned", "refused", "failed", "rejected"} /\ call < Calls
    /\ replay' = (call > 0 /\ pc = "returned")
    /\ call' = call + 1 /\ fresh' = (results = {} /\ states = {})
    /\ level' = 0 /\ next' = [edge \in Edges |-> 0] /\ gone' = {}
    /\ wave' = <<>> /\ comps' = {} /\ pending' = {} /\ mres' = {}
    /\ mcomp' = {} /\ arena' = {} /\ seen' = NothingSeen
    /\ skipped' = 0 /\ ran' = 0
    /\ d' = Zero /\ n' = [l \in Levels |-> ZeroRow]
    /\ pc' = IF Admitted(o, fresh') THEN "level" ELSE "rejected"
    /\ UNCHANGED <<o, process>>

-----------------------------------------------------------------------------
\* What an optimizer's diagnostics add to the ledger.

merge_decomposition(x, b) ==
    Plus(x, [dtBatches |-> b.batches, dtRequests |-> b.requests,
             dtStored |-> b.stored, dtOverflow |-> b.requests - b.stored,
             dtUnique |-> b.unique, dtReuse |-> b.stored - b.unique])

\* The optimizer of a target decomposes twice with one key, and its trace
\* has room for o.traced of them.
accumulate_decomposition(x, groups, size) ==
    IF o.traced = 0 THEN x
    ELSE merge_decomposition(x,
           [batches |-> groups, requests |-> 2 * size,
            stored |-> Least(2, o.traced) * size, unique |-> size])

accumulate_multi_penalty(x, groups, size) ==
    accumulate_decomposition(
        Plus(x, [exactTargets |-> (IF o.exact THEN size ELSE 0)]),
        groups, size)

\* The prefill of a level, in one window.

SinglePrefill(x, keys) ==
    Plus(x, [singleTargets |-> Cardinality(keys), hostBoundaries |-> 1,
             prefillBoundaries |-> 1, prefillSingle |-> Cardinality(keys),
             nativeSetups |-> Cardinality(PlannedSets)])

\* At level 2 the component prefill evaluates the residuals of every group
\* on a handle of its own.
L2Components(x, keys) ==
    LET size == Cardinality(keys) sets == Cardinality(PlannedSets)
    IN Plus(x, [built |-> sets, released |-> sets, finalized |-> size,
                l2Targets |-> size, evaluatorTargets |-> size,
                evaluatorSvd |-> size, fits |-> size])

MultiPrefill(x, keys) ==
    LET size == Cardinality(keys) sets == Cardinality(PlannedSets)
        slot == level \in o.slots
    IN Plus(accumulate_multi_penalty(x, sets, size),
               [multiTargets |-> size, hostBoundaries |-> 1,
                prefillBoundaries |-> 1, prefillMulti |-> size,
                nativeSetups |-> sets,
                built |-> (IF slot THEN 0 ELSE sets),
                released |-> (IF slot THEN 0 ELSE sets),
                stored |-> (IF o.reuse THEN size ELSE 0)])

\* Stage A: the coefficients of the window are gathered again and finalized
\* into residuals, on slot 0 when the level runs on slots.
StageA(x, keys) ==
    LET size == Cardinality(keys)
    IN Plus(x, [finalized |-> size, fits |-> size, gathers |-> size])

SlotWindow(x) ==
    LET sets == Cardinality(PlannedSets)
        slots == IF sets < 32 THEN sets ELSE 32
    IN Plus(x, [created |-> slots, destroyed |-> slots, binds |-> sets,
                detached |-> sets, stageA |-> sets])

Prefilled(x, keys) ==
    LET one == SinglePrefill(x, keys)
        many == MultiPrefill(x, keys)
        slotted == IF level \in o.slots THEN SlotWindow(many) ELSE many
    IN IF PrefillsComponents(level)
       THEN IF Multi(level) THEN StageA(slotted, keys) ELSE L2Components(one, keys)
       ELSE IF Multi(level) THEN slotted ELSE one

ProducedKeys(row, keys) ==
    IF o.keys /\ Multi(level) THEN Plus(row, [keys |-> Cardinality(keys)])
    ELSE row

\* Opening a component level discards what is cached; building it caches
\* every planned key with its Gram vector pending.
BuiltRow(row, keys) ==
    LET size == Cardinality(keys)
    IN Plus(row, [began |-> 1, targets |-> size, residuals |-> size,
                  produced |-> size])

BeginLevel ==
    LET keys == PlannedKeys
        prefill == fresh /\ level >= 1 /\ keys # {}
        build == prefill /\ PrefillsComponents(level)
        paid == IF prefill THEN Prefilled(d, keys) ELSE d
        tasks == MapThenSumSet(LAMBDA edge : Len(Plan[level][edge]), Live)
        row == Plus(n[level], [planned |-> tasks])
    IN /\ pc = "level"
       /\ next' = [edge \in Edges |-> IF edge \in Live THEN 1 ELSE 0]
       /\ \E kept \in IF prefill THEN Kept(states, keys, o.capacity)
                      ELSE {states} : states' = kept
       /\ arena' = IF prefill /\ o.reuse /\ Multi(level) THEN keys ELSE {}
       /\ d' = IF build THEN Plus(paid, [infoInserts |-> Cardinality(keys),
                                         infoDiscarded |-> Cardinality(comps)])
               ELSE paid
       /\ IF build THEN comps' = keys /\ pending' = keys
          ELSE UNCHANGED <<comps, pending>>
       /\ LET produced == IF prefill THEN ProducedKeys(row, keys) ELSE row
          IN n' = [n EXCEPT ![level] = IF build THEN BuiltRow(produced, keys)
                                       ELSE produced]
       /\ seen' = IF prefill
                  THEN [seen EXCEPT
                          !.physical = @ \cup PlannedSets,
                          !.prefilled = @ \cup keys,
                          !.produced = IF o.keys /\ Multi(level)
                                       THEN @ \cup keys ELSE @]
                  ELSE seen
       /\ pc' = "wave"
       /\ UNCHANGED <<o, call, fresh, replay, results, level, gone, wave, mres, mcomp,
                      skipped, ran>>

-----------------------------------------------------------------------------
\* The selection of a wave.

Unanswered(group) ==
    IF Random THEN group ELSE {edge \in group : Task(edge) \notin results}

\* What the positive-miss mode predicts for the tests run of a group:
\* nothing without a context, or when a target has no optimizer state.
Prediction(group, run) ==
    IF run = {} \/ (level > 0 /\ ~(Keys(run) \subseteq states))
    THEN [complete |-> FALSE, missing |-> {}]
    ELSE [complete |-> TRUE, missing |-> Keys(run) \ comps]

Work(group) == [group |-> group, run |-> Unanswered(group),
                guess |-> Prediction(group, Unanswered(group))]

\* Whether the positive-miss mode ends the wave after its first group, and
\* what it books when it asks.
StopsAtFirst(first) ==
    o.positive /\ (~first.guess.complete \/ first.guess.missing = {})
FirstBooked(x, first) ==
    IF ~o.positive THEN x
    ELSE Plus(x, [predictions |-> 1,
                  incomplete |-> (IF first.guess.complete THEN 0 ELSE 1)])
\* A candidate is predicted with all its tests, those already answered too.
Guess(group) == Prediction(group, group)
TakesSecond(first, group) ==
    o.positive => /\ Guess(group).complete /\ Guess(group).missing # {}
                  /\ Guess(group).missing \cap first.guess.missing = {}
SecondBooked(x, first, group) ==
    IF ~o.positive THEN x
    ELSE Plus(x,
        [predictions |-> 1,
         incomplete |-> (IF Guess(group).complete THEN 0 ELSE 1),
         zeroMiss |-> (IF Guess(group).complete /\ Guess(group).missing = {}
                       THEN 1 ELSE 0),
         overlap |-> (IF Guess(group).missing \cap first.guess.missing # {}
                      THEN 1 ELSE 0),
         selective |-> (IF TakesSecond(first, group) THEN 1 ELSE 0)])
ZeroMissBooked(x, first) ==
    IF o.positive /\ first.guess.complete /\ first.guess.missing = {}
    THEN Plus(x, [zeroMiss |-> 1]) ELSE x

\* The first group of a wave: a bucket, or one test of R's stream.
Firsts == IF Random THEN {{edge} : edge \in Ready} ELSE Buckets(Ready)

ReadyBooked(x) ==
    LET size == Cardinality(Buckets(Ready))
    IN Raise(Plus(x, [readySum |-> size,
                      ge2 |-> (IF size >= 2 THEN 1 ELSE 0),
                      ge4 |-> (IF size >= 4 THEN 1 ELSE 0),
                      ge8 |-> (IF size >= 8 THEN 1 ELSE 0)]),
             [readyPeak |-> size])

\* Selecting a group counts as a round whether or not it will be executed.
Selected(x, works, sets) ==
    LET size == Len(works)
    IN Raise(Plus(x, [frontier |-> size, waves |-> 1, groups |-> size,
                      nativeSetups |-> Cardinality(sets \ seen.physical)]),
             [peakGroups |-> size])

\* The conditioning sets whose setups were fetched for the tests given.
Sets(edges) == IF level = 0 THEN {} ELSE {S(edge) : edge \in edges}

Select(works, edges, booked) ==
    /\ wave' = works /\ d' = Selected(booked, works, Sets(edges))
    /\ seen' = [seen EXCEPT !.physical = @ \cup Sets(edges)]

\* A second group of the positive mode must not hold a cached result.
SelectSecond(first, second, booked) ==
    LET work == Work(second)
    IN IF ~TakesSecond(first, second)
       THEN Select(<<first>>, first.run \cup second, booked) /\ UNCHANGED pc
       ELSE IF o.positive
       THEN /\ Select(<<first, [work EXCEPT !.guess = Guess(second)]>>,
                      first.run \cup second, booked)
            /\ pc' = IF work.run = second THEN pc ELSE "failed"
       ELSE Select(<<first, work>>, first.run \cup work.run, booked)
            /\ UNCHANGED pc

SelectWave ==
    /\ pc = "wave" /\ wave = <<>> /\ Ready # {}
    /\ \E group \in Firsts :
        LET first == Work(group)
            rest == Ready \ group
            asked == FirstBooked(ReadyBooked(d), first)
        IN \/ /\ o.wave = 1 \/ ~Dcc \/ rest = {}
              /\ Select(<<first>>, first.run, asked) /\ UNCHANGED pc
           \/ /\ o.wave > 1 /\ Dcc /\ rest # {} /\ StopsAtFirst(first)
              /\ Select(<<first>>, first.run, ZeroMissBooked(asked, first))
              /\ UNCHANGED pc
           \/ /\ o.wave > 1 /\ Dcc /\ ~StopsAtFirst(first)
              /\ \E second \in Buckets(rest) :
                   SelectSecond(first, second, SecondBooked(asked, first, second))
    /\ UNCHANGED <<o, call, fresh, replay, process, level, next, gone, caches,
                   skipped, ran, n>>

-----------------------------------------------------------------------------
\* The execution of a group: its optimizer states, then the route of its
\* method.

LiveTargets(keys) == IF level = 0 THEN {} ELSE keys \ states

\* A multi-penalty optimizer needs two targets: a single missing one is
\* padded with a cached one of the group.
Padding(keys) ==
    LET missing == LiveTargets(keys)
    IN IF Multi(level) /\ Cardinality(missing) = 1
       THEN {{k} : k \in keys \ missing} ELSE {{}}

Optimized(x, missing, padding) ==
    LET live == Cardinality(missing)
        size == live + Cardinality(padding)
        many == IF Multi(level) THEN 1 ELSE 0
    IN IF missing = {} THEN x
       ELSE Plus(IF Multi(level) THEN accumulate_multi_penalty(x, 1, size) ELSE x,
        [hostBoundaries |-> 1, frontierBoundaries |-> 1,
         liveTargets |-> live, physicalTargets |-> size,
         paddingBatches |-> Cardinality(padding),
         paddingTargets |-> Cardinality(padding),
         singleTargets |-> (1 - many) * size, multiTargets |-> many * size,
         built |-> many, released |-> many])

Requested(x, keys) ==
    Plus(x, [logical |-> Cardinality(keys), fits |-> Cardinality(keys)])

\* The residual of a dcc.gamma group: kept coefficients, or the evaluator.
Reuses(keys) == Multi(level) /\ o.reuse /\ keys \subseteq arena
ReusedBooked(x, size) ==
    Plus(x, [built |-> 1, released |-> 1, gathers |-> size,
             reuseBatches |-> 1, reuseTargets |-> size,
             parityBatches |-> (IF o.parity THEN 1 ELSE 0)])
EvaluatedBooked(x, size) ==
    LET back == IF Multi(level) /\ o.reuse THEN 1 ELSE 0
    IN Plus(x, [built |-> 1, released |-> 1, evaluatorTargets |-> size,
                evaluatorSvd |-> size, fallbackBatches |-> back,
                fallbackTargets |-> back * size])
KeysAsked(row, keys) ==
    IF ~(o.keys /\ Multi(level)) THEN row
    ELSE Plus(row,
        [keyRequests |-> Cardinality(keys),
         keyMissing |-> Cardinality(keys \ seen.produced),
         keyUnique |-> Cardinality((keys \cap seen.produced) \ seen.asked)])

CacheHits(keys) == IF o.cache THEN keys \cap comps ELSE {}
SetsOf(keys) == {k[1] : k \in keys} \ {""}
AllHit(keys) == o.cache /\ keys \subseteq comps

\* The diagnostics of one legacy dCov batch, built by the batch itself.
Batch(keys, inserted) ==
    LET size == Cardinality(keys)
        hit == Cardinality(CacheHits(keys))
    IN [size |-> size, hit |-> hit, built |-> size - hit,
        miss |-> IF o.cache THEN size - hit ELSE 0,
        requests |-> IF o.cache THEN size ELSE 0,
        inserts |-> Cardinality(inserted),
        bypass |-> IF o.cache THEN size - hit - Cardinality(inserted) ELSE 0,
        bypassed |-> AllHit(keys) /\ o.bypass,
        active |-> Least(o.lanes, size - hit)]

\* The component cache counts for itself.
CacheInfo(x, b) ==
    Plus(x, [infoLookups |-> b.requests, infoHits |-> b.hit,
             infoMisses |-> b.miss, infoInserts |-> b.inserts,
             infoBypass |-> b.bypass])

MutBatchClass(b) ==
    CASE b.hit > 0 -> [batches |-> 1, mixed |-> 1]
      [] OTHER -> [batches |-> 1, allMiss |-> 1]

BatchClass(b) ==
    CASE b.hit = b.requests -> [batches |-> 1, allHit |-> 1]
      [] b.hit \in 1..(b.requests - 1) -> [batches |-> 1, mixed |-> 1]
      [] OTHER -> [batches |-> 1, allMiss |-> 1]

LaneBooked(x, b) ==
    IF o.lanes = 0 THEN x
    ELSE Raise(Plus(x, [contextReuse |-> 1, histBatches |-> 1,
                        histComponents |-> b.built,
                        multilane |-> (IF b.active > 1 THEN 1 ELSE 0)]),
               [lanePeak |-> b.active])

accumulate_legacy(x, b, pairs) ==
    LET bypass == IF b.bypassed THEN 1 ELSE 0
        counted == Plus(x,
            [legacyBatches |-> 1, legacyPairs |-> pairs,
             fits |-> -(bypass * b.size), bypassBatches |-> bypass,
             bypassTargets |-> bypass * b.size, requests |-> b.requests,
             hits |-> b.hit, misses |-> b.miss, inserts |-> b.inserts,
             bypass |-> b.bypass])
        classed == IF b.requests = 0 THEN counted
                   ELSE Plus(counted, BatchClass(b))
    IN LaneBooked(classed, b)

ConsumerRow(row, b) ==
    LET bypassed == IF b.bypassed THEN b.size ELSE 0
    IN Plus(Plus(row, [batches |-> 1, consumed |-> b.size,
                       bypassed |-> bypassed, solved |-> b.size - bypassed]),
            IF b.hit = b.size THEN [allHit |-> 1]
            ELSE IF b.miss = b.size THEN [allMiss |-> 1] ELSE [mixed |-> 1])

TraceRow(x, b, pairs) ==
    Plus(x, [rows |-> 1, rowRequests |-> b.requests, rowHits |-> b.hit,
             rowMisses |-> b.miss, rowPairs |-> pairs])

\* The test of a group on the dcc.gamma route.  A level that was prefilled
\* must find every component in the cache.
RunLegacy(keys, paid, pairs, rows) ==
    LET room == o.compCapacity - Cardinality(comps)
        fresher == IF o.cache THEN keys \ comps ELSE {}
        size == Cardinality(keys)
        solves == level > 0 /\ ~AllHit(keys)
        routed == IF ~solves THEN paid
                  ELSE IF Reuses(keys) THEN ReusedBooked(paid, size)
                  ELSE EvaluatedBooked(paid, size)
        asked == IF solves THEN KeysAsked(rows[level], keys) ELSE rows[level]
    IN \E inserted \in kSubset(Least(room, Cardinality(fresher)), fresher) :
         LET b == Batch(keys, inserted)
             settled == IF PrefillsComponents(level)
                        THEN [resolved |-> Cardinality(keys \cap pending)]
                        ELSE [resolved |-> 0]
         IN /\ d' = TraceRow(accumulate_legacy(CacheInfo(routed, b), b, pairs),
                             b, pairs)
            /\ n' = [rows EXCEPT ![level] =
                        Plus(ConsumerRow(asked, b), settled)]
            /\ comps' = comps \cup inserted /\ pending' = pending \ keys
            /\ seen' = [seen EXCEPT
                          !.residuals = @ \cup keys,
                          !.prepared = @ \cup SetsOf(keys),
                          !.asked = IF solves /\ o.keys /\ Multi(level)
                                    THEN @ \cup keys ELSE @]
            /\ UNCHANGED <<mres, mcomp, arena>>

QrThrough2 == "qr-through-2" = IF Random THEN o.drawRoute ELSE o.gammaRoute
\* Which route the residuals of a method batch take: at most two penalties
\* go through QR when the policy allows it.
RoutesPlanned(size) ==
    CASE level = 0 -> [plannedCholesky |-> size]
      [] level \in {1, 2} /\ QrThrough2
            -> [plannedQr |-> size]
      [] OTHER -> [plannedSvd |-> size]
RoutesRun(size, moved) ==
    CASE level = 0 -> [ranCholesky |-> size - moved, ranSvd |-> moved,
                       choleskyToSvd |-> moved]
      [] level \in {1, 2} /\ QrThrough2
            -> [ranQr |-> size - moved, ranSvd |-> moved, qrToSvd |-> moved]
      [] OTHER -> [ranSvd |-> size]
RouteBooked(x, size, moved) ==
    IF ~o.wait THEN x
    ELSE Plus(Plus(Plus(x, [waitBatches |-> 1, waitTargets |-> size]),
                   RoutesPlanned(size)), RoutesRun(size, moved))

\* The random draws of one test, one shuffle standing for all of its
\* replicates: dcc.perm draws once per place, hsic.perm until a draw falls
\* into the pool, through R or inline.
Receipt(x, rejected) ==
    IF ~Random THEN x
    ELSE IF o.method = "dcc.perm"
    THEN Plus(x, [receipts |-> 1, exactReceipts |-> 1, draws |-> 1,
                  tableValues |-> 1])
    ELSE IF ~o.inline THEN Plus(x, [receipts |-> 1, tableValues |-> 1])
    ELSE Plus(x, [receipts |-> 1, exactReceipts |-> 1, tableValues |-> 1,
                  inlineIndex |-> 1, inlineDraws |-> 1 + rejected,
                  draws |-> 1 + rejected, rejections |-> rejected])

\* Residuals taken from the cache are not fits of this call.
AllHitRefund(x, size) == Plus(x, [fits |-> -size])

\* The residual cache of the method batch: all or nothing is taken from it.
MethodResidualsBooked(x, keys) ==
    LET size == Cardinality(keys)
        found == Cardinality(keys \cap mres)
    IN IF keys \subseteq mres
       THEN Plus(AllHitRefund(x, size),
                 [rcLookups |-> size, rcHits |-> size, rcAllHit |-> 1,
                  rcBypassed |-> size])
       ELSE Plus(x, [rcLookups |-> size, rcHits |-> found,
                     rcInserts |-> size - found, solvedBatches |-> 1,
                     solvedTargets |-> size])

MethodCall(x) ==
    Plus(x, [calls |-> 1, reuses |-> (IF x.calls > 0 THEN 1 ELSE 0),
             growths |-> (IF x.calls = 0 THEN 1 ELSE 0),
             submits |-> (IF o.overlap THEN 1 ELSE 0)])

\* The factors of hsic.perm: looked up only when all residuals were cached,
\* stored when their residuals are the cached ones.
Looked(keys) ==
    IF o.method = "hsic.perm" /\ keys \subseteq mres THEN keys \cap mcomp
    ELSE {}
Stored(keys) ==
    IF o.method # "hsic.perm" THEN {}
    ELSE IF keys \subseteq mres THEN keys \ mcomp
    ELSE keys \ mres
MethodComponentsBooked(x, keys, kept) ==
    LET size == Cardinality(keys)
        hit == Cardinality(Looked(keys))
        built == Plus(x, [builtComponents |-> size - hit])
    IN IF o.method # "hsic.perm" THEN built
       ELSE Raise(Plus(built,
                [mcRequests |-> size, mcHits |-> hit, mcMisses |-> size - hit,
                 mcLookups |-> (IF keys \subseteq mres THEN size ELSE 0),
                 mcInserts |-> Cardinality(Stored(keys)),
                 mcEvictions |-> Cardinality(mcomp \cup Stored(keys))
                                   - Cardinality(kept)]),
              [mcCapacity |-> o.methodCapacity])

RunMethod(keys, paid, rows) ==
    \E kept \in Kept(mcomp, Stored(keys), o.methodCapacity),
       moved \in IF o.wait /\ ~(keys \subseteq mres)
                 THEN {0, Cardinality(keys)} ELSE {0},
       rejected \in IF o.inline THEN {0, 1} ELSE {0} :
      /\ d' = RouteBooked(
                MethodComponentsBooked(
                    MethodResidualsBooked(
                        Receipt(MethodCall(paid), rejected), keys),
                    keys, kept),
                Cardinality(keys), moved)
      /\ mres' = mres \cup keys /\ mcomp' = kept
      /\ seen' = [seen EXCEPT !.residuals = @ \cup keys,
                              !.prepared = @ \cup SetsOf(keys)]
      /\ n' = rows /\ UNCHANGED <<comps, pending, arena>>

-----------------------------------------------------------------------------
\* Consuming the results of a group: a deleted edge drops its later tests.
Deletes(edge) == <<level, S(edge), edge>> \in o.deleted
Consume(group) ==
    /\ next' = [edge \in Edges |->
                  IF edge \notin group THEN next[edge]
                  ELSE IF Deletes(edge)
                          \/ next[edge] = Len(Plan[level][edge]) THEN 0
                  ELSE next[edge] + 1]
    /\ gone' = gone \cup {edge \in group : Deletes(edge)}
    /\ wave' = Tail(wave)

Consumed(rows, group) ==
    [rows EXCEPT ![level] =
        Plus(@, [tested |-> Cardinality(group),
                 ignored |-> MapThenSumSet(
                     LAMBDA edge : Len(Plan[level][edge]) - next[edge],
                     {edge \in group : Deletes(edge)})])]

\* The check of the positive-miss mode after its group ran.
GuessHolds(work) ==
    o.positive => work.guess.complete
                  /\ Cardinality(work.guess.missing)
                       = Cardinality(Keys(work.run) \ comps)

\* A group whose results were all cached is not executed: its round is
\* counted, no route of the ledger runs.
SkipGroup ==
    /\ pc = "wave" /\ wave # <<>> /\ Head(wave).run = {}
    /\ d' = IF Dcc THEN Plus(d, [rows |-> 1]) ELSE d
    /\ n' = Consumed(n, Head(wave).group)
    /\ skipped' = skipped + 1
    /\ IF o.positive
       THEN pc' = "failed" /\ UNCHANGED <<next, gone, wave>>
       ELSE Consume(Head(wave).group) /\ UNCHANGED pc
    /\ UNCHANGED <<o, call, fresh, replay, process, level, caches, seen, ran>>

RunGroup ==
    /\ pc = "wave" /\ wave # <<>> /\ Head(wave).run # {}
    /\ LET work == Head(wave)
           keys == Keys(work.run)
           missing == LiveTargets(keys)
       IN \E padding \in Padding(keys) :
           LET paid == Requested(Optimized(d, missing, padding), keys)
               rows == Consumed(n, work.group)
               aborts == \/ PrefillsComponents(level) /\ ~AllHit(keys)
                         \/ ~GuessHolds(work)
           IN /\ \E kept \in Kept(states, missing \cup padding, o.capacity) :
                    states' = kept
              /\ IF Dcc
                 THEN RunLegacy(keys, paid, Cardinality(work.run), rows)
                 ELSE RunMethod(keys, paid, rows)
              /\ results' = IF Random \/ aborts THEN results
                            ELSE results \cup {Task(edge) : edge \in work.run}
              /\ pc' = IF aborts THEN "failed" ELSE pc
              /\ Consume(work.group)
    /\ ran' = ran + 1
    /\ UNCHANGED <<o, call, fresh, replay, level, skipped>>

EndLevel ==
    /\ pc = "wave" /\ wave = <<>> /\ Ready = {}
    /\ n' = IF n[level].began > 0
            THEN [n EXCEPT ![level] =
                    Plus(@, [finished |-> 1,
                             pendingAtEnd |-> Cardinality(pending)])]
            ELSE n
    /\ arena' = {}
    /\ IF level = Top \/ n[level].planned = 0
       THEN pc' = "closing" /\ UNCHANGED level
       ELSE pc' = "level" /\ level' = level + 1
    /\ UNCHANGED <<o, call, fresh, replay, process, next, gone, wave, comps, pending,
                   mres, mcomp, seen, skipped, ran, d>>

\* A CUDA call fails, in a prefill after some of its groups, in a group after
\* its optimizer, or elsewhere: the call ends, and what the process-wide
\* caches were given stays.
Fails(kept) ==
    /\ call < Calls /\ states' = kept /\ pc' = "failed"
    /\ UNCHANGED <<o, call, fresh, replay, results, frontier, caches, ledger>>

FailPrefill ==
    /\ pc = "level" /\ fresh /\ level >= 1
    /\ \E done \in SUBSET PlannedSets :
         \E kept \in Kept(states, UNION {GroupKeys(s, Planned(s)) : s \in done},
                          o.capacity) : Fails(kept)

FailGroup ==
    /\ pc = "wave" /\ wave # <<>> /\ Head(wave).run # {}
    /\ LET keys == Keys(Head(wave).run) IN
       \E padding \in Padding(keys) :
         \E kept \in Kept(states, LiveTargets(keys) \cup padding, o.capacity) :
            Fails(kept)

Fail == pc \in {"level", "wave", "closing"} /\ Fails(states)

Ends == [physical |-> Cardinality(seen.physical),
         prepared |-> Cardinality(seen.prepared),
         residuals |-> Cardinality(seen.residuals),
         keys |-> Cardinality(seen.produced),
         prefilled |-> Cardinality(seen.prefilled),
         consumed |-> Cardinality(seen.prefilled \cap seen.residuals),
         asked |-> [l \in Levels |->
                      Cardinality({k \in seen.produced \cap seen.asked :
                                     k \in LevelKeys(l)})],
         components |-> Cardinality(comps)]

Close ==
    /\ pc = "closing"
    /\ pc' = IF Accepted(d, n, o, Ends) THEN "returned" ELSE "refused"
    /\ UNCHANGED <<o, call, fresh, replay, process, frontier, caches, ledger>>

Next ==
    \/ Start \/ BeginLevel \/ SelectWave \/ SkipGroup \/ RunGroup
    \/ EndLevel \/ Close \/ FailPrefill \/ FailGroup \/ Fail

Spec == Init /\ [][Next]_vars

-----------------------------------------------------------------------------
\* When the ledger of a finished call does not add up: a group of hsic.gamma
\* was answered by the result cache; a call with lanes executed nothing; the
\* frontier had to optimize targets whose coefficients the arena should hold;
\* or residuals were asked for under keys no prefill of this call produced.
Unpaid ==
    \/ o.method = "hsic.gamma" /\ skipped > 0
    \/ Dcc /\ o.lanes > 0 /\ ran = 0
    \/ o.reuse /\ d.multiTargets > d.prefillMulti
    \/ o.keys /\ ~fresh /\ Sum(n, "keyRequests") > 0

\* A call that did all its work is refused by its final accounting in exactly
\* these cases: every other combination of options, cached results, cached
\* states, deletions and failures before it returns its graph.
RefusedIfUnpaid ==
    pc \in {"returned", "refused"} /\ call > 0 => (pc = "refused" <=> Unpaid)

\* In particular a call on empty caches is refused only when the target-state
\* cache does not hold the states of one level.
FreshAccepted ==
    pc = "refused" => \/ ~fresh
                      \/ \E l \in Levels : o.capacity < Cardinality(LevelKeys(l))

\* A level replays or ignores every planned test, and a repeated call with a
\* method that caches its results runs none again.
RowsAddUp ==
    pc \in {"closing", "returned", "refused"} =>
        \A l \in Levels : n[l].tested + n[l].ignored = n[l].planned
ReplayIsFree ==
    replay /\ ~Random /\ o.first = Deepest => ran = 0

\* The accounting of a run: its rows add up, repeats are free, and its gates
\* refuse it exactly when work was not paid for on the route they expect.
LedgerSound == RefusedIfUnpaid /\ FreshAccepted /\ RowsAddUp /\ ReplayIsFree

\* The documented replay: a second call after one complete call on the same
\* data replays its cached results, so its accounting does not refuse it.
ReplayAccepted == replay /\ o.first = Deepest => pc # "refused"
=============================================================================
