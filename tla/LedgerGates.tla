---------------------------- MODULE LedgerGates ----------------------------
(***************************************************************************)
(* The ledger of a one-call skeleton run and the gates that close it       *)
(* (full_cuda_ci_one_call.cpp): a call adds up the physical work it        *)
(* reports, and before it returns it checks the sums against each other;   *)
(* a call whose sums disagree is refused after all its work was done.      *)
(*                                                                         *)
(* d is the record of the totals of a call, n its rows by level, o the     *)
(* options, and e what is counted from sets only at the end.  Times, bytes *)
(* and SHA digests are left out; a byte count that a gate relates to a     *)
(* number of targets is a multiple of that number by construction.         *)
(***************************************************************************)
EXTENDS Integers, FiniteSets, FiniteSetsExt, TLC

Gamma == {"dcc.gamma", "hsic.gamma"}
Permutation == {"dcc.perm", "hsic.perm"}

OptimizerCounters ==
    [nativeSetups |-> 0, singleTargets |-> 0, multiTargets |-> 0,
     exactTargets |-> 0, hostBoundaries |-> 0, prefillBoundaries |-> 0,
     prefillSingle |-> 0, prefillMulti |-> 0, frontierBoundaries |-> 0,
     liveTargets |-> 0, physicalTargets |-> 0, paddingBatches |-> 0,
     paddingTargets |-> 0, built |-> 0, released |-> 0, logical |-> 0,
     fits |-> 0, created |-> 0, destroyed |-> 0, binds |-> 0,
     detached |-> 0, stageA |-> 0]

ReuseCounters ==
    [finalized |-> 0, l2Targets |-> 0, evaluatorTargets |-> 0,
     evaluatorSvd |-> 0, stored |-> 0, gathers |-> 0, reuseBatches |-> 0,
     reuseTargets |-> 0, fallbackBatches |-> 0, fallbackTargets |-> 0,
     parityBatches |-> 0, duplicates |-> 0]

\* The trace of the decompositions the multi-penalty optimizer asked for.
TraceCounters ==
    [dtBatches |-> 0, dtRequests |-> 0, dtStored |-> 0, dtOverflow |-> 0,
     dtUnique |-> 0, dtReuse |-> 0]

ComponentCounters ==
    [requests |-> 0, hits |-> 0, misses |-> 0, inserts |-> 0, bypass |-> 0,
     batches |-> 0, allHit |-> 0, mixed |-> 0, allMiss |-> 0,
     bypassBatches |-> 0, bypassTargets |-> 0, lanePeak |-> 0,
     multilane |-> 0, contextReuse |-> 0, histBatches |-> 0,
     histComponents |-> 0, legacyBatches |-> 0, legacyPairs |-> 0,
     infoLookups |-> 0, infoHits |-> 0, infoMisses |-> 0, infoInserts |-> 0,
     infoBypass |-> 0, infoDiscarded |-> 0]

WaveCounters ==
    [frontier |-> 0, waves |-> 0, groups |-> 0, peakGroups |-> 0,
     readySum |-> 0, readyPeak |-> 0, ge2 |-> 0, ge4 |-> 0, ge8 |-> 0,
     predictions |-> 0, incomplete |-> 0, zeroMiss |-> 0, overlap |-> 0,
     selective |-> 0, rows |-> 0, rowRequests |-> 0, rowHits |-> 0,
     rowMisses |-> 0, rowPairs |-> 0]

MethodCounters ==
    [solvedBatches |-> 0, solvedTargets |-> 0, builtComponents |-> 0,
     mcRequests |-> 0, mcLookups |-> 0, mcHits |-> 0, mcMisses |-> 0,
     mcInserts |-> 0, mcEvictions |-> 0, mcCapacity |-> 0, rcLookups |-> 0,
     rcHits |-> 0, rcInserts |-> 0, rcAllHit |-> 0, rcBypassed |-> 0,
     calls |-> 0, reuses |-> 0, growths |-> 0, submits |-> 0,
     tableValues |-> 0, inlineIndex |-> 0, inlineDraws |-> 0,
     receipts |-> 0, exactReceipts |-> 0, draws |-> 0, rejections |-> 0,
     waitBatches |-> 0, waitTargets |-> 0, plannedCholesky |-> 0,
     plannedQr |-> 0, plannedSvd |-> 0, ranCholesky |-> 0, ranQr |-> 0,
     ranSvd |-> 0, choleskyToSvd |-> 0, qrToSvd |-> 0]

Zero == OptimizerCounters @@ ReuseCounters @@ ComponentCounters
        @@ WaveCounters @@ MethodCounters @@ TraceCounters

\* The rows of one level: of the layer plan, of the component prefill, of
\* its consumers and of the reuse keys.
ZeroRow ==
    [planned |-> 0, tested |-> 0, ignored |-> 0,
     began |-> 0, finished |-> 0, targets |-> 0, residuals |-> 0,
     produced |-> 0, resolved |-> 0, pendingAtEnd |-> 0,
     batches |-> 0, allHit |-> 0, mixed |-> 0, allMiss |-> 0,
     consumed |-> 0, bypassed |-> 0, solved |-> 0,
     keys |-> 0, keyRequests |-> 0, keyUnique |-> 0, keyMissing |-> 0]

\* d with the counters of inc added to it, and with those of top raised to it.
Plus(d, inc) ==
    [c \in DOMAIN d |-> IF c \in DOMAIN inc THEN d[c] + inc[c] ELSE d[c]]
Raise(d, top) ==
    [c \in DOMAIN d |->
        IF c \in DOMAIN top /\ top[c] > d[c] THEN top[c] ELSE d[c]]

Sum(n, field) == MapThenSumSet(LAMBDA l : n[l][field], DOMAIN n)

AllZero(d, fields) == \A c \in fields : d[c] = 0
AtMost(a, b, d) == d[a] <= d[b]

-----------------------------------------------------------------------------
\* The gates, in the order of the code.

\* A key may be optimized again, never published without being optimized.
PrefillSummary(d, e) ==
    /\ d.prefillSingle + d.prefillMulti >= e.prefilled
    /\ e.prefilled >= e.consumed

PrefillRows(d, n, o) ==
    /\ \A l \in DOMAIN n : n[l].began > 0 =>
        /\ n[l].finished = 1
        /\ n[l].targets = n[l].produced /\ n[l].targets = n[l].residuals
        /\ n[l].resolved + n[l].pendingAtEnd = n[l].targets
    /\ Sum(n, "produced") = d.finalized
    /\ o.level \/ Sum(n, "produced") = 0

ConsumerRows(n) ==
    \A l \in DOMAIN n :
        /\ n[l].batches = n[l].allHit + n[l].mixed + n[l].allMiss
        /\ n[l].consumed = n[l].bypassed + n[l].solved

Histogram(d, o) ==
    IF o.cache /\ o.lanes > 0
    THEN d.histBatches = d.batches /\ d.histComponents = d.misses
    ELSE d.histBatches = 0 /\ d.histComponents = 0

ComponentCache(d, n, o) ==
    IF o.cache
    THEN /\ o.method = "dcc.gamma"
         /\ d.requests = d.infoLookups /\ d.hits = d.infoHits
         /\ d.misses = d.infoMisses /\ d.bypass = d.infoBypass
         /\ d.inserts = d.infoInserts - Sum(n, "produced")
         /\ d.requests = d.hits + d.misses
         /\ d.misses = d.inserts + d.bypass
         /\ d.batches = d.legacyBatches
         /\ d.batches = d.allHit + d.mixed + d.allMiss
         /\ d.bypassBatches = (IF o.bypass THEN d.allHit ELSE 0)
         /\ d.bypassTargets >= d.bypassBatches
         /\ \/ o.lanes = 0
               /\ AllZero(d, {"lanePeak", "multilane", "contextReuse"})
            \/ /\ o.lanes > 0 /\ d.lanePeak \in 1..o.lanes
               /\ d.multilane <= d.mixed + d.allMiss
               /\ d.contextReuse = d.batches
    ELSE /\ ~o.bypass /\ o.lanes = 0
         /\ AllZero(d, {"requests", "hits", "misses", "inserts", "bypass",
                        "batches", "allHit", "mixed", "allMiss", "lanePeak",
                        "multilane", "contextReuse"})

ComponentEntries(d, o, e) ==
    o.cache => e.components = d.infoInserts - d.infoDiscarded

ResidualBypass(d, o) ==
    IF o.bypass
    THEN o.cache /\ d.bypassBatches = d.allHit
         /\ d.bypassTargets >= d.bypassBatches
    ELSE d.bypassBatches = 0 /\ d.bypassTargets = 0

WaveTrace(d, o) ==
    IF o.method = "dcc.gamma"
    THEN /\ d.rows = d.groups /\ d.rowRequests = d.requests
         /\ d.rowHits = d.hits /\ d.rowMisses = d.misses
         /\ d.rowPairs = d.legacyPairs
    ELSE d.rows = 0

Wave(d, o) ==
    /\ o.wave \in 1..8 /\ d.groups = d.frontier
    /\ d.waves <= d.groups /\ d.peakGroups <= o.wave
    /\ AtMost("ge2", "waves", d) /\ AtMost("ge4", "ge2", d)
    /\ AtMost("ge8", "ge4", d)
    /\ IF o.positive
       THEN /\ o.wave = 2
            /\ d.predictions >= d.waves + d.selective
            /\ d.selective = d.groups - d.waves
       ELSE AllZero(d, {"predictions", "incomplete", "zeroMiss", "overlap",
                        "selective"})
    /\ \/ AllZero(d, {"groups", "waves", "peakGroups", "readySum",
                      "readyPeak"})
       \/ /\ d.groups > 0 /\ d.waves > 0 /\ d.peakGroups > 0
          /\ d.readySum >= d.waves /\ d.readyPeak >= 1

MethodResiduals(d, o) ==
    o.method # "dcc.gamma" =>
        /\ d.rcLookups = d.logical
        /\ d.rcLookups = d.rcHits + d.rcInserts
        /\ d.rcBypassed >= d.rcAllHit
        /\ d.fits = d.logical - d.rcBypassed
        /\ d.solvedTargets = d.fits
        /\ d.solvedBatches + d.rcAllHit = d.frontier

MethodContext(d, o) ==
    IF o.method = "dcc.gamma"
    THEN AllZero(d, {"calls", "reuses", "growths"})
    ELSE /\ d.calls = d.frontier
         /\ d.reuses = (IF d.calls = 0 THEN 0 ELSE d.calls - 1)
         /\ d.growths > 0

MethodComponents(d, o) ==
    IF o.method = "hsic.perm"
    THEN /\ d.mcCapacity >= 2
         /\ d.mcRequests = d.mcHits + d.mcMisses
         /\ d.mcMisses = d.builtComponents
         /\ AtMost("mcHits", "mcLookups", d)
         /\ AtMost("mcLookups", "mcRequests", d)
         /\ AtMost("mcInserts", "mcMisses", d)
         /\ AtMost("mcEvictions", "mcInserts", d)
    ELSE AllZero(d, {"mcRequests", "mcLookups", "mcHits", "mcMisses",
                     "mcInserts", "mcEvictions", "mcCapacity"})

InlineIndex(d, o) ==
    IF o.inline
    THEN /\ o.method = "hsic.perm" /\ d.inlineIndex = d.tableValues
         /\ d.inlineDraws >= d.inlineIndex
    ELSE d.inlineIndex = 0 /\ d.inlineDraws = 0

RngReceipts(d, o) ==
    IF o.method \notin Permutation
    THEN AllZero(d, {"receipts", "exactReceipts", "draws", "rejections"})
    ELSE /\ d.receipts = d.frontier /\ d.receipts > 0
         /\ AtMost("exactReceipts", "receipts", d)
         /\ AtMost("rejections", "draws", d)
         /\ CASE o.method = "dcc.perm" ->
                     /\ d.exactReceipts = d.receipts
                     /\ d.draws > 0 /\ d.rejections = 0
              [] o.method = "hsic.perm" /\ ~o.inline -> d.exactReceipts = 0
              [] OTHER ->
                     /\ d.exactReceipts = d.receipts
                     /\ d.draws = d.inlineDraws
                     /\ d.rejections = d.inlineDraws - d.inlineIndex

Overlap(d, o) ==
    IF o.overlap
    THEN o.method \in Permutation /\ d.submits = d.frontier
    ELSE d.submits = 0

RouteWait(d, o) ==
    LET planned == d.plannedCholesky + d.plannedQr + d.plannedSvd
        ran == d.ranCholesky + d.ranQr + d.ranSvd
    IN IF o.wait
       THEN /\ o.method # "dcc.gamma" /\ d.waitBatches = d.frontier
            /\ d.waitTargets = planned /\ planned = ran
            /\ AtMost("choleskyToSvd", "plannedCholesky", d)
            /\ AtMost("qrToSvd", "plannedQr", d)
       ELSE /\ planned = 0 /\ ran = 0
            /\ AllZero(d, {"waitBatches", "waitTargets", "choleskyToSvd",
                           "qrToSvd"})

Optimizer(d, e) ==
    /\ d.nativeSetups >= e.physical /\ e.physical >= e.prepared
    /\ d.fits >= e.residuals
    /\ d.built = d.released
    /\ d.singleTargets + d.multiTargets =
           d.prefillSingle + d.prefillMulti + d.physicalTargets
    /\ d.physicalTargets = d.liveTargets + d.paddingTargets
    /\ d.paddingBatches = d.paddingTargets
    /\ d.hostBoundaries = d.prefillBoundaries + d.frontierBoundaries

SlotLifecycle(d, o) ==
    /\ d.created = d.destroyed
    /\ d.binds = d.detached /\ d.stageA = d.detached
    /\ o.slots # {} \/ d.created = 0

DecompositionTrace(d, o) ==
    IF o.traced = 0
    THEN AllZero(d, {"dtBatches", "dtRequests", "dtStored"})
    ELSE \/ d.multiTargets = 0 /\ AllZero(d, {"dtBatches", "dtRequests"})
         \/ /\ d.multiTargets > 0 /\ d.dtBatches > 0
            /\ d.dtRequests = d.dtStored + d.dtOverflow
            /\ AtMost("dtUnique", "dtStored", d)
            /\ d.dtReuse = d.dtStored - d.dtUnique

FixedEvaluator(d) == d.evaluatorSvd = d.evaluatorTargets

Arena(d, o) ==
    LET prefilled == d.finalized - d.l2Targets
    IN IF o.reuse
       THEN /\ d.l2Targets <= d.finalized
            /\ d.stored = d.exactTargets
            /\ d.gathers = d.reuseTargets + prefilled
       ELSE AllZero(d, {"reuseBatches", "reuseTargets", "fallbackBatches",
                        "fallbackTargets", "stored", "gathers"})

Parity(d, o) ==
    IF o.parity THEN d.parityBatches = d.reuseBatches
    ELSE d.parityBatches = 0

ReuseKeys(d, n, o, e) ==
    /\ \A l \in DOMAIN n : /\ n[l].keyUnique <= n[l].keys
                           /\ n[l].keyMissing <= n[l].keyRequests
    /\ IF o.keys
       THEN /\ d.duplicates = 0 /\ Sum(n, "keyMissing") = 0
            /\ e.keys = Sum(n, "keys")
       ELSE e.keys = 0 /\ Sum(n, "keys") = 0 /\ Sum(n, "keyRequests") = 0

\* The distances of the reuse trace are those of the keys asked for.
KeyFrame(n, e) == \A l \in DOMAIN n : n[l].keys > 0 => e.asked[l] = n[l].keyUnique

\* A call returns its graph only if every gate holds.
Accepted(d, n, o, e) ==
    /\ PrefillSummary(d, e) /\ PrefillRows(d, n, o) /\ ConsumerRows(n)
    /\ Histogram(d, o) /\ ComponentCache(d, n, o) /\ ComponentEntries(d, o, e)
    /\ ResidualBypass(d, o) /\ WaveTrace(d, o) /\ Wave(d, o)
    /\ MethodResiduals(d, o) /\ MethodContext(d, o) /\ MethodComponents(d, o)
    /\ InlineIndex(d, o) /\ RngReceipts(d, o) /\ Overlap(d, o)
    /\ RouteWait(d, o) /\ Optimizer(d, e) /\ SlotLifecycle(d, o)
    /\ DecompositionTrace(d, o) /\ FixedEvaluator(d)
    /\ Arena(d, o) /\ Parity(d, o) /\ ReuseKeys(d, n, o, e) /\ KeyFrame(n, e)
=============================================================================
