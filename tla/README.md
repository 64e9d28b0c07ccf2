# A TLA+ model of fastkpc

fastkpc is a native engine for kernel PC (causal discovery): it removes edges
from a complete graph by conditional-independence (CI) tests of growing
conditioning size, then orients what is left. The statistics are numerical
code and stay outside TLA+. What is modelled is the machinery around them: the
level search in several engines that must give one answer; the threads,
streams, leases and caches that feed them; what a device call reports of whose
target; the orientation phase; and the publication of the results on disk.

Paths below are relative to `fastkpc/src/` unless they say otherwise;
`one_call` is `full_cuda_ci_one_call.cpp`. `PROJECT.json` maps the
definitions to the lines they model (a small abbreviation is not listed on its
own: its lines are those of the definitions that use it) and lists the hazards
each property is for.

## 1. Inventory

### The parts and how they interact

| Part | State it keeps | Operations | Talks to | Status |
|---|---|---|---|---|
| Sequential engine (`skeleton_engine.cpp`) | adjacency, sepsets, pMax, level | test, delete, commit a level | CI kernels | modelled |
| Layer scheduler (`skeleton_task_scheduler.cpp`) | none | `make_layer_plan`, unique residual requests, batch size | all engines | partly |
| Frontier engine (`one_call` 7365-8010) | ready buckets, `edge_positions`, `active_edges`, `remaining`, wave, results | begin level, select a group, run a wave, advance an edge, replay, commit | caches, prefill, runtime | modelled |
| Work ledger and final gates (`one_call`) | sums of a call and of its levels | book a group, close the call | everything a call runs | partly |
| CUDA batch engine (`skeleton_engine_cuda.cpp`) | task list, p-values, deletions | evaluate a batch, replay, fall back to the CPU | sequential engine | modelled |
| Native setup cache (`one_call` 3275-3449) | two tiers, LRU lists, device handles | `get`, evictions, `materialize_device`, `clear` | prefill, frontier | modelled |
| Prefill windows and pipeline (`one_call` 4663-5560, 7080-7300) | collected and pending window, `std::future` | collect, push, launch, finish, unwind | setup cache, optimizers | modelled |
| Optimizer slots, coefficient arena (`one_call` 5560-5930, `cuda/mgcv_multi_penalty_gcv*.cu`) | slots, leases, arena stream, counter, cancellation | bind, optimize, copy, publish, wait, release; gather, finish level | worker threads, device | partly |
| Capacity dispatcher (`cuda/mgcv_multi_penalty_gcv_capacity.cpp`) | shapes bound to setups | dispatch, detach | the windows, slots, entry points | modelled with the GCV optimizers |
| Semantic caches (`one_call` 2261-2594) | results and target states with ordinals, capacities | get, put, reset, resize | frontier waves | modelled |
| Component cache and level ledger (`cuda/full_cuda_ci_vertical.cu`) | fixed slots, ledger of a level, lanes | begin, store, build, finish, deferred Gram | frontier, prefill | modelled |
| Residual cache and prefetch (`skeleton_engine_cuda.cpp`, `residual_cache.cpp`) | keyed vectors, scratch | get, prefetch, pack | batch engine | modelled |
| Method batches (`cuda/full_cuda_ci_method_batch.cu`) | preparation ticket, two caches, R stream | prepare, solve deferred, draw, close | fixed-sp runtime | partly |
| Fixed-sp runtime (`cuda/mgcv_fixed_sp_runtime.cu`) | contexts, handles, slots, tokens, arenas, root cache | solve, defer, resolve, release, free, drop, reserve | R finalizers, device | partly |
| GCV optimizers (`mgcv_multi_penalty_cpp.cpp`, `cuda/mgcv_*_gcv*.cu`) | descent state, lanes, replays, prepared setups | step, halve, probe, replay, merge, lease | slots, fixed-sp runtime | partly |
| Pair evaluators, legacy spectra (`cuda/full_cuda_ci_vertical.cu`, `r_api_cuda.cpp`) | buffers of a call, worker pool, level components | run, wait, clean up | device | partly |
| Batched spline residuals (`cuda/fastspline_*`) | groups by shape, factors | group, fit, retry with ridge, scatter | batch engine | partly |
| R entry points (`r_api_cuda.cpp`) | external pointers, holders | make, use, free, finalize, fork | runtimes; native skeleton engines | partly |
| Orientation rules (`orientation_rules.cpp`, `orientation_matrix.cpp`) | none | colliders, rules 1 to 3, immorality check | WAN-PDAG engine | modelled |
| WAN-PDAG engine (`wanpdag_engine.cpp`) | pdag, neighbourhoods, visited vertices | visit, refuse, accept, apply rules | rules, regression tests | partly |
| Artifact publication (`../R/full_cuda_ci_phase3_artifacts.R`) | generation, markers, rollback directory, locks | stage, commit, roll back, recover | file system | partly |
| CI kernels, contract digests, R bindings, validation campaigns, legacy package, vendored LAPACK | numerical, stateless or outside the engine | | | not modelled |

### What is hard here

- *Order.* The frontier engine runs tasks grouped by conditioning set because
  the GPU fits a conditioning set once. Its physical order differs from the
  plan's, yet sepsets, pMax, counts and early stop must be the sequential ones.
- *Accounting.* The frontier loop ends on two counters decremented in three
  places; an edge in no bucket makes it end early or never. A call adds up what
  every route did and refuses itself when the sums disagree.
- *Concurrency.* Worker threads share a request counter, a cancellation flag, a
  mutex and one device stream; slot buffers are leased to copies that still run
  when the thread goes on. A `std::async` optimizer runs while the calling
  thread takes, and so may evict, contexts of the same cache.
- *Late truth.* A deferred solve has no status when its residuals are cached
  and consumed; the token that owns it may be released, freed, dropped by R or
  left behind by a throw before anyone learns that it failed.
- *Rounding.* A device comparison may go either way, and a replay may disagree
  with the run it repeats; what is reported must still be one run's own.
- *Partial failure.* Every CUDA call may throw: while slots are created,
  between a copy and its event, half-way through an insertion, with a future
  outstanding, in the middle of replacing an arena.
- *Crashes.* A publication is several renames; the process may be killed
  between any two, also while it repairs what an earlier kill left.
- *Stale state.* Look-ups before a pending window is finished, predictions of
  cache hits used after the cache changed, pair lists computed before a scan
  changes the graph.

### What makes each part correct

The engines: one result, the sequential one, and it comes. The scheduler: no
edge lost, duplicated or misfiled. The ledger: a call is refused only for
work its gates do not know. The slots: each request once, no lease ends before
the copy that reads it, nothing left running. The setup cache: its containers
agree, it leaks no handle, it refuses nobody. The semantic and component
caches: they only forget, and a prediction made from them comes true. The
runtime: a consumer reads its own batch, and a deferred token reports its own
solve. The optimizers: what is reported was evaluated, is stable and belongs to
its target. The handles: torn down once, by their own process. The orientation:
the scans compute what the rules define, arrows are final. The publication: both
markers certify one generation, and a reported one is never lost.

## 2. Modules

```
LayerPlan -- SkeletonOps --+-- SkeletonLevels (abstract)
                           +-- SkeletonFrontier ----------- MCFrontier
                           |      RunLedger -- LedgerGates --+
                           +-- SkeletonBatch -------------- MCEngines
                           |      PrecisionSkeleton ---------+
SlotPool -------------------------------------------------- MCPipeline
      SetupCache -- PrefillPipeline --------------------------+
WanPdag --------------------------------------------------- MCCaches
      ComponentWave, ComponentLevel, MethodGroup, GroupExecution,
      ResidualPrefetch ---------------------------------------+
FixedSpRuntime ------------------------------ MCFixedSp --- MCDevice
      FixedSpSolve, FixedSpResources, PreparedGcv,  |           |
      ExternalHandles ------------------------------+           |
      LowrankBatch, FastSplineBatch, PhaseBatch,                |
      CapacityDispatch -----------------------------------------+
ArtifactPublication --------------------------------------- MCResults
      GcvDescent -- MultiPenaltyGcv, SinglePenaltyGcv -- SinglePenaltyMulti --+
```

An MC module EXTENDS the first component of its line and INSTANCEs the others
(MCDevice through MCFixedSp, which holds the components with proofs).
Its variable `subject` is chosen in the initial state and never changes; only
the component it names takes steps, the others stay in an initial state. One
run so explores several components, each exhaustively and none multiplied by
another.

### The skeleton search

**LayerPlan** is `make_layer_plan`: for every edge the sequence of its tasks
(the conditioning sets from the neighbours of x, then of y, in the order of
the combination enumeration), whether a task opens the next level, the flat
task list, and the order in which pcalg would run the same tasks.

**SkeletonOps** holds what the engines share: p-values, deletion, sepset and
pMax updates, replay. A p-value is a number `0 .. PTop`, independent when
`>= Alpha`; CI results are arbitrary, so a property holds for every data set.

**SkeletonLevels** is the abstract specification: the order-independent level
semantics of `skeleton_engine.cpp`. Inside a level tests happen in any order
that respects each edge's own sequence; `CommitLevel` applies all deletions at
once and decides whether to go on. `Fail` ends without a result; `Restart` is
the CPU rerun of the batch engine.

**SkeletonFrontier** is the level loop of `full_cuda_ci_one_call_skeleton_method`.

| Action | Code |
|---|---|
| `BeginLevel` | plan the level, fill `ready_by_conditioning`, set the counters |
| `SelectGroup` | choose a bucket by size and liveness of its setup, or the first task in pcalg order in legacy permutation mode |
| `StartWave` | the wave is full, nothing is ready, or the cache prediction ended it |
| `AdvanceDeleted`, `AdvanceExhausted`, `AdvanceRequeued` | the three branches of the advance step, with all their counters |
| `CommitLevel` | the closing `require`, canonical replay, deletions, stop decision |
| `Fail` | any `require`, CUDA error or non-finite p-value |

Which setups are live on the device is left open, so any nonempty
conditioning set may count as live. That admits more orders than the code.

**SkeletonBatch** is `skeleton_engine_cuda.cpp`: evaluate the level's tasks in
batches, replay them in plan order over deletions made meanwhile, resolve NaN
by `NaDelete`, and on a CUDA error rerun everything on the CPU if
`CudaMemoryFallback` is set. **PrecisionSkeleton** is the five native engines
R calls with its own p-values or residuals, in the canonical, round and planned
orders; a round evaluates one task per edge at a time.

**RunLedger** walks a fixed plan of levels under an option record and books,
group by group, what each route pays for and what a cache answers, over several
calls on one set of caches; **LedgerGates** is the list of sums the final
accounting compares.

**WanPdag** is `orient_wanpdag_native`: the pure rules, with the code's scan
orders and the pair lists computed before a scan mutates the graph, and the
engine around them: collider phase, rounds by neighbourhood size, subsets from
large to small, refusal and acceptance, rule passes until nothing changes. Its initial states are all skeletons over P vertices with every
family of separating sets a level search can leave.

### Feeding the device

**SlotPool** is `prefill_optimizer_slot_target_states` with `OptimizerSlotPool`
and the arena operations it uses. Each worker is a process with a program
counter (`loop claim bind optimize restore lock copy publish record wait
release` and the unwinding steps). The arena stream is a log of copies and
`done` counts the ones the device has executed, so a copy reads its slot's
buffer at an arbitrary later time. `MayFail` names the calls that may throw.

**SetupCache** is `NativeSetupCache` as operators on a record with its
containers and the sets of open device handles. `GetFails` gives the states
`get` can leave when it throws half-way. **PrefillPipeline** is the engine
around it: options, levels, windows of both penalties through the synchronous,
pipelined and slot routes, component Stage A, the waves' use of contexts,
failure at any call and the unwinding that joins the future and clears the
cache.

**ComponentWave** is the dcc.gamma route over several calls: which results,
states and components a group finds cached, and the positive-miss policy that
predicts misses for two groups and requires the wave to conform.
**ComponentLevel** is the device cache under it, with the ledger of a level,
its producers on several lanes and the deferred Gram step. **GroupExecution**
joins the windows of a level with the groups that read the coefficient arena,
its `append`, `gather` and `finish_level` included. **MethodGroup** is a group
of the permutation and HSIC methods: early preparation ticket, two caches with
different eviction, deferred solves that fail late, the random stream.
**ResidualPrefetch** is the batch engine's residual cache, the prefetch of a
level and the packing of tasks into host buffers.

### On the device

**FixedSpRuntime** is one context with its stream: prepared handles, the output
slot of each, tokens that lease a slot from a solve until they are released,
freed or dropped in any order, and the one deferred solve that may be in
flight. **FixedSpSolve** is one batch through the Cholesky, QR and SVD routes
with its statuses and, when the batch asks for them (`certified`), its
certificates, which change a status only if the batch also fails closed on them
(`failClosed`). Any subset of the targets a route wrote may fail its certificate,
finite or not: the backward error is compared with a tolerance after refinement,
and its maxima pass over what is not a number, which only the final finite check
finds (`Verdicts`). **FixedSpResources** is who owns the arenas,
roots and ledger entries when a call in the middle fails.

**GcvDescent** is the host's guarded descent and what the device lanes are
compared with. **MultiPenaltyGcv** is a lane whose comparisons near a tie may
go either way, its stability replay and the merge. **SinglePenaltyGcv** is the
spectral run with its exact repetition, **SinglePenaltyMulti** the fused
execution of several setups by threads. **PreparedGcv** is the persistent
setups: one output slot each, leased to the token a batch returns, with the
claims of the threads of an `optimize_multi`. **CapacityDispatch** is the
dispatcher and the callers that open and close setups through it.

**LowrankBatch** is the threaded pair batch with its level component cache.
**FastSplineBatch** is grouping by shape, ridge ladder, shared factors, scatter.
**PhaseBatch** is the stand-alone pair evaluators as programs whose steps
launch work that any later call's failure must not outlive. **ExternalHandles**
is R's external pointers, their finalizers and a forked child.

**ArtifactPublication** is the commit of a staged generation behind two
completion markers, with lock, rollback directory and recovery, kills between
any two file operations and failing ones.

Operators named `Mut...` are single-fault variants of the definition that
follows them. No specification uses them; they show that the properties
notice such a fault.

## 3. Runs

Each run asks one question of several components. Every property has a mutant
of a modelled definition that breaks it.

| Run | What is explored | Properties and what they say | Distinct states |
|---|---|---|---|
| `frontier` | the frontier in both selection modes, P=4, levels 0-2, waves of 2; two calls of a four-level ledger under 17 option records | `FrontierPartition` no edge lost, duplicated or misfiled; `FrontierAccounting` the two counters are exact; `ConsumedPrefix` each edge consumes the prefix the sequential engine tests; `RefinesLevels` the result and the early stop are the sequential engine's; `PermutedStreamOrder` tests draw from R's stream in order; `FrontierEnds` the call ends; `LedgerSound` a call is refused exactly for work its gates do not expect | 27 252 |
| `engines` | the batch engine (P=4, three p-values and NaN, batches of 3), five native engines, the frontier with three p-values | `RefinesLevels`, `EnginesRefineLevels` all compute the sequential semantics; `NoWastedTest` no needless test, no p-value read before it is written | 240 656 |
| `pipeline` | 4 requests on 2 slots, any call failing; two levels of 3 single- and 3 multi-penalty sets through tiers of 2, 2 and 5, fresh and warm, any call failing | `LeaseCoversCopies` no copy outlives its lease; `ResultComplete` each request delivered once; `Quiesced` nothing left running; `EndsIfRestored` it ends, unless a restore fails; `PrefillSound` cache containers agree, handles are cached, no window is stale, no guard fires, the level is prefilled; `WindowCollected` every window is collected or joined | 721 304 |
| `caches` | the orientation of every skeleton over 4 vertices, waves over two calls with state caches of 3 and 8, component levels on two lanes, method groups, arena groups, residual prefetch of three levels | `WaveSound` predictions come true, preexisting hits are exact; `LevelSound` no pair is read from an incomplete slot, the ledger balances; `GroupsSound` caches hold only good solves' own payloads, R's stream advances by the groups begun; `ResidualsAreOwn` a consumer gets the residuals it named; `PacksOwn` a packed pair is its task's, and nothing is fitted twice; `SearchSound` the collider graph is the one the rule defines, and between acceptances the graph is settled; `OrientationsKept` an arrow is final | 1 870 680 |
| `device` | nine device components with 2 handles, 2 solves, one fault at any call | `BatchesSound` a consumer reads its batch and a deferred token reports its own solve; `SuccessIsReal` a success is finite, of its own route and, in a batch that fails closed, certified; `FailureIsOwn` only the first Cholesky target of a certified batch with a stable route can be failed by another; `OwnedOnce` every resource has one owner; `LeaseIsHeld` a slot is leased exactly while a token holds it; `PairReadsOwn`, `EachFitOwn` values belong to their pair or request; `CallsSound` no kernel outlives its call; `DispatchSound` no caller is refused or leaks; `HandlesSound` objects are torn down once, by their own process | 1 380 037 |
| `results` | publications of 3 generations with 2 kills and 2 failures; the host's descent, a lane with and without rounding, a single-penalty lane, a batch of three setups on 2 threads | `MarkersNeverMix` both markers certify one generation; `NothingLost` a reported generation stays whole; `PublicationSettles` re-run sessions end whole or need an operator; `ConvergenceIsFresh` convergence is of the last step; `ReportedIsStable` what is reported was evaluated and replayed; `EachTargetOwn` each target's own result; `LanesRefineHost` exact lanes perform the host's descent | 1 886 307 |

Six runs expect a violation; section 3.3 says of what.

### 3.1 Bounds, and why they are enough

- *Skeleton.* Four vertices are the least with tasks at levels 0, 1 and 2, two
  conditioning sets per direction at level 1, and buckets shared by several
  edges. `MarginalPairs` makes one or two edges independent at level 0;
  otherwise the complete graph's level 1 alone exceeds the budget. What is left
  still has edges that change buckets, are deleted early, and survive. Two
  p-values decide deletion; `engines` uses three so that pMax takes a dependent
  value that is overtaken later. `BatchSize` 3 does not divide the task counts.
- *Ledger.* The option records take every route at least once, alone and with
  the caches that change it; two calls show fresh and warm accounting.
- *Orientation.* Four vertices allow every rule (rule 3 needs four), crossing
  colliders and separating sets of size two.
- *Slots.* More requests than slots: reuse of a slot while its neighbour's copy
  is in flight, both workers racing for the last request, cancellation before,
  during and after a request. The code's limit is 32.
- *Setup cache.* The capacities keep the order of the code's numbers (2048,
  8192, 16384, windows of at most 64): host above single plus multi, two
  windows within the multi tier. These relations are `CapacityAssumption` and
  `WidthAssumption`; the instance sits at them, where every eviction that can
  touch a window in use happens.
- *Caches.* A call makes up to 5 results and 6 states. The result cache holds 3
  and the state cache 3 or 8, so that calls that delete edges early stay below
  a capacity and others evict entries of their own and of the previous call. A level has
  more components than fixed slots, so that some bypass.
- *Device.* Two handles on one context and two solves: the second solve, free or
  drop meets every state the first can have left. One fault per behaviour, as
  each component stops or repairs itself after one; `HandleSymmetry` is sound
  because nothing compares handles.
- *Optimizers.* Steps of -2, 0 and 2 with five halvings and five iterations
  reach both failure exits, the limit and convergence. The host needs more than
  four halvings (with four a failed step may have moved, see the comment at
  `ConvergenceIsFresh`). Three setups of 2, 1 and 2 targets, one of the large
  shape, on two threads let the threads race and the fused launches differ.
- *Publication.* A kill during the repair of a kill needs two; a third
  generation shows that the second was not lost. Two payloads give a state with
  one new and one old.

### 3.2 Fairness

- *Frontier*: weak fairness of `Progress`; one thread runs the loop and waits
  only for the device. `Fail` is not fair.
- *Slots*: weak fairness of the calling thread, of each worker and of the
  stream (`MainStep`, `Execute`); the operating system runs threads and streams
  execute. Faults are not fair.
- *Windows*: weak fairness of the calling thread and of the `std::async` call;
  `launch::async` starts a thread.
- *Publication*: weak fairness of `Publish` and `Step`: the operator runs the
  session again after a kill. Kills and failures are not fair.

`CHECK_DEADLOCK FALSE` is set because the modelled calls end.

### 3.3 Findings

- `slot_pool_restore`: `multi_penalty_gcv_cuda_optimize_batch` creates the
  residual token, then selects the caller's device again
  (`cuda/mgcv_multi_penalty_gcv.cu:5976`) while a `lock_guard` holds the slot's
  mutex. If that throws, the token's destructor (line 3435) locks the same
  `std::mutex`: the worker never returns and the caller waits in `join()`.
- `wave_warm`: under the positive-miss policy an identical second call has
  groups without a context; the predictor calls them incomplete before it
  reaches its branch for empty groups (`one_call:2613`), and the engine's
  assertion aborts the call.
- `ledger_warm`: with hsic.gamma a group answered by the result cache counts as
  a round but not as a method call, so the final accounting refuses every call
  on warm caches, although the README promises the replay.
- `precision_plan`: the R driver enumerates with `combn(values, 1)`, which for
  one positive neighbour v means 1..v (`../R/fast_kpc.R:646`).
- `publication_hard_exit`: two kinds of kill leave a directory that every later
  publication refuses.
- `fixed_sp_scratch`: with certificates the stable routes use the first Cholesky
  solution as scratch memory, which the final finite check then reads.

### 3.4 Observations without a run

- `cuda/full_cuda_ci_method_batch.cu:2363`: the residual cache evicts in
  insertion order and the component cache by use, so a component can outlive
  its residual; inserting it again is an error there. The call is refused, it
  returns no wrong answer.
- `cuda/mgcv_fixed_sp_runtime.cu:5978`: a synchronous solve with certificates
  leaves its diagnostics in the context's host status arena until its token is
  resolved, and only deferred solves keep others out: a second handle's solve
  overwrites them, and a batch whose certificate failed may report success
  (`FixedSpRuntime!FailsClosed` states it; no run of its own).
- Warm calls are also refused for dcc.gamma with the component cache and the
  structured lanes (a call that misses nothing has a lane peak of 0, the gate
  wants one, `one_call` near 8248), and with exact-primary reuse over partly
  warm caches (8732). Warm component prefill is refused at the start, as
  documented (7261-7264). Permutation methods and plain dcc.gamma pass.
- A cached hsic.gamma result leaves statistic, mean and variance NA in the
  trace. `ci_native_count` counts planned tasks when fewer were evaluated.
- A replay that ends well is always selected, so its screened count is always 0.
- The finalizers of multi-penalty setups guard the reset of their value by
  process id, but deleting the holder destroys the value anyway; the one of
  the dense product is not guarded. The models take CUDA as unusable in a
  forked child.
- A fixed-sp runtime whose free throws with an indeterminate teardown is still
  counted until it is freed again or finalized.

Three overlapping `CASE` guards, where TLA+ leaves the choice open, were found
by proof attempts and are now `IF`s (`FixedSpRuntime!DropToken`,
`SinglePenaltyGcv!Termination`, `RunLedger!Prefilled`).

## 4. Proofs

All theorems hold for every value of the constants that satisfies the named
assumptions: `P`, a wave capacity, a batch size, a number of requests or of
slots positive; `PTop`, `MaxLevel` and the bounds on solves, faults, kills and
generations natural numbers; `Alpha` an integer; sets of handles and of targets finite. Each
inductive invariant was first checked by TLC on a small instance.

| Module | Theorems | Run property it states |
|---|---|---|
| LayerPlanProofs | `CombinationsInOrder`, `TaskListInOrder` | |
| SkeletonFrontierProofs | `FrontierInvariant`, `TypeCorrect`, `PartitionHolds`, `AccountingHolds`, `PrefixHolds`, `FrontierImplementsLevels`, `PermutationOrder` | `FrontierPartition`, `FrontierAccounting`, `ConsumedPrefix`, `RefinesLevels` of `frontier`; `StreamOrderKept` |
| SkeletonBatchProofs | `BatchInvariant`, `ReplayEvaluated`, `BatchImplementsLevels` | `RefinesLevels` of `engines` |
| SlotPoolProofs | `Invariance`, `LeaseHeldForCopies`, `ResultsComplete`, `EndsQuiesced`, `NothingRefused` | `LeaseCoversCopies`, `ResultComplete`, `Quiesced` |
| SlotPoolProofs, prefill | `PrefillInvariant`, `DeviceKeepsRecent`, `PrefillIsSound`, `PrefillTypes` | `PrefillSound` |
| FixedSpRuntimeProofs | `Invariance`, `RuntimeSound` | `BatchesSound` |
| FixedSpRuntimeProofs, batch | `SolveInvariant`, `SolveSuccessIsReal`, `SolveFailureIsOwn` | `SuccessIsReal`, `FailureIsOwn` |
| FixedSpRuntimeProofs, resources | `ResourcesInvariant`, `ResourcesOwnedOnce`, `ResourcesRootsTrusted`, `ResourcesUsableIsWhole`, `ResourcesSound` | `OwnedOnce` |
| FixedSpRuntimeProofs, prepared setups | `PreparedInvariant`, `LeaseExact`, `TokensReadOwn`, `PreparedSound` | `LeaseIsHeld` |
| FixedSpRuntimeProofs, R's pointers | `HandlesInvariant`, `HandlesAreSound` | `HandlesSound` |
| GcvProofs, lanes | `DeviceInvariant`, `ReportsOwnEvaluation`, `ReplaysAreSettled`, `NoGuardedOptimum`, `DeviceImplementsHost` | the three parts of `ReportedIsStable`, the first half of `LanesRefineHost` |
| GcvProofs, single-penalty | `SingleConvergedIsFresh`, `ExactReplayImplementsHost` | the second half of `LanesRefineHost` |
| OrientationProofs | `OrientationInvariant`, `OrientationTypes`, `SearchStaysSound`, `ArrowsFinal` | `SearchSound`, `OrientationsKept` |
| ArtifactPublicationProofs | `MarkersCertifyOneGeneration`, `PublishedSurvives` | `MarkersNeverMix`, `NothingLost` |
| ArtifactPublicationProofs, host's descent | `DescentIsFresh` | `ConvergenceIsFresh` |

*Layer plan.* The enumerations are defined by rank: element i is the one with
i - 1 elements below it. `RankBounds`, `RankMonotone` and `RankOnto` show for
any strict total order on a finite set that ranks are exactly 0 .. n - 1; the
lexicographic order of sets and the order of tasks are such orders. So a plan is
well typed, combinations come once and ascending, and the flat task list has
every task once with each edge's own order kept.

*Frontier.* No part is inductive alone. `FrontierPartition` says that each
unfinished edge is in exactly one place: the bucket of its next task's
conditioning set, or one group of the wave. Advancing an edge re-files it under
its following task, which exists only because `edge_positions` is a proper
prefix of its list: `ConsumedPrefix`. `TypeOK` needs `FrontierAccounting`,
because the counters are subtracted from and must stay natural numbers.
`WavePhase` ties the phase to the emptiness of the wave and makes the first
group of an executing wave exist. `FrontierInv` is their conjunction. The
counters change by cardinalities of sets with one edge's tasks removed, for
which `TasksFinite`, `RunOfTasks` and `PositionMove` are the lemmas.

*Frontier refines levels.* The mapping replays the consumed outcomes over the
sepsets and pMax of the level's start, as the code does at its end. `PlanInv`
adds that the plan is the level's own, that nothing is known between levels and
that `pcalg_done` is about the consumed tasks. Consuming one outcome is one
`Test`: the replay of one more outcome is the write of that outcome, because an
edge has at most one separator. The early stop is sound because a level in
which no consumed task opens the next one has no task after it. In permutation
mode `StreamInv` says that the wave is one task, first in pcalg order among the
edges' next tasks, which with the ascending lists gives R's stream order.

*Batch engine refines levels.* The walk reads tasks in plan order and skips an
edge once deleted. `WalkInv` says that every task it has passed was tested or is
of a deleted edge, that a tested task was reached when it was tested, and that
the deleted edges are those with a separator. A task of a present edge is
reached, since what precedes it in its edge's list precedes it in the task list
(`TaskListInOrder`); at the end of the walk the pass is complete. `BatchesInv`
says that batches tile the list. An error maps to `Restart` or `Fail`.

*Slots.* `IInv` says of each worker what its place in the loop means for its
request, its slot's lease and buffers and the arena's entries; of each copy not
executed yet whose it is and that nothing it reads has moved; of each published
entry that the last copy issued to its place is its own.

*Prefill.* The theorems are about PrefillPipeline as the run instantiates it,
under its assumptions (`Settings`). `Tidy` says of the cache that each of its
three lists has every key of its set once, that no list is longer than its
capacity and that nothing is on the device but what the host holds; it is kept
by `get` and by every place where `get` can throw half-way (`GetTakes`,
`GetFailsTidy`), which rests on what the code's list operations do to a list
with a key moved, added or dropped. `Stored` says which contexts have a handle, and
while a window is open that its contexts are among those used last (`Recent`)
and no more than a tier holds (`Sized`), so that no eviction takes the context
of a window that runs. `Flowing` parts the level's keys between `todo`, the hand,
the two windows and what is done, so a window is new and a level complete. That
both tiers agree on what was used last (`DeviceIsMostRecent`) is a second
induction, over the order of two positions in either list.

*Fixed-sp runtime.* The stream is a queue, so behind an unfinished solve all
later ones are unfinished; a slot's owner is its last token; the one deferred
token in flight is the last one made, and the status arena is its own once its
solve is done; while a consumer reads, no queued solve writes its slot, unless
the slot is poisoned and will never be written again.

*Batch.* For any finite set of targets, `TargetInv` says what each phase has left
of a target by its planned route. A Cholesky target is rerouted exactly when it
has no factor, a QR target exactly when the rank guard rejected it, so each
target is settled by the one route that wrote its slot last (`Settled`), at the
checkpoint or, when the batch is deferred, with its token. That the finite mark
is that of the slot needs that nothing has scratched the target's compact
solution. Only one solution can be: that of the first Cholesky target of a
certified batch in which some target has no factor (`Exposed`, known as soon as
the factors are; `ScratchedFacts`). So `FailureIsOwn` holds of every other
target, and of that one the run `fixed_sp_scratch` shows that it can fail through
another (`FailureStaysOwn`). What the certificates say is free in the proof;
`SuccessIsReal` asks for a passed one in a batch that fails closed.

*Resources.* A pointer is its owner, its place there and the resource it leads
to. `Sound` says that the pointers lead one to one to the live resources, and
that the ledger has their number. It is kept by the four things a call does:
allocate (`SoundAlloc`), free (`SoundFree`), lose a resource to a failing teardown
(`SoundLose`), and hand it on (`SoundMove`: a staged arena replaces the old one, a
pending root enters the cache). `PhaseInv` says where there can be pointers at
all, so that what a call overwrites with null leads nowhere; `RootInv` that a
pending root is as good as the handle's own, which is why validating the
handle's roots validates what enters the cache.

*Optimizers.* A theorem stands in the module that reaches the property it states:
the host's descent beside the publication, as in its run. The host's
`DescentInv` adds to freshness where the last reduction stands against the
iteration: behind it while no step is taken, and the last try of an iteration
takes none, because the one before it has zeroed the step. That needs more than
four halvings. `DeviceInv` says of each lane what its place in the run means for
its evaluation (`PlaceInv`), which decomposition formed it and whether the mark
of the guarded QR is kept (`RouteInv`), and what its status says at the end
(`EndInv`), and of the primary lane that it is as it ended while the replay runs
(`PrimaryInv`); the merge then reports a fresh state of one of the two. The
refinement of the host takes `HostPc` and `HostCurrent` for the place and the
evaluation and holds where no difference of scores is within rounding
(`ExactPrimary`, no step of size 1). A single-penalty run keeps `SingleRunInv`:
a reduction is of the iteration that ends unless its step failed or the
objective was flat, and only a spectral run may be flat. That is why nothing of
the spectral run reaches a test of the exact one, which so takes the host's
steps one by one; it needs no bound on the halvings.

*Prepared setups.* A token not yet released is of its setup's last generation
and leases the slot; generations distinguish batches; a request without a
result finds its slot free and is claimed by one thread.

*R's pointers.* `HandlesInv` says that no two pointers of a process hold the same
object (`PointersInv`), that an object lives exactly while it is shared
(`LifeInv`), that in the maker what was destroyed is what was freed, once, and
that a child destroys none of the guarded kinds (`TornInv`), that the owner
counters count the holders that are counted (`OwnersInv`), and that what is
allocated belongs to one workspace or to the product under way (`WorkspaceInv`,
`BuffersInv`). Objects go only by letting go of pointers, so one lemma
(`LetGo`) serves closing, freeing and finalizing, and one (`MakesObject`)
every creation. That at most one pointer leads to an object is
why emptying it ends a matvec product; that an address is made once is a
property of the model's heap, which never reuses one.

*Orientation.* The loops of the rules are recursive functions over 0 .. P, so
what a scan computes can be proved by induction on the index: the set of indices
up to which a claim holds is closed (`UpTo`, `Recurrence`), hence whole. A pass
relates two matrices by `Orients`: only undirected edges have become arrows.
The relation is reflexive, transitive and antisymmetric, so a pass that
changes nothing applied no rule at any index, which makes the graph settled. The
collider scan may write a cell twice; after any prefix of it the matrix is
determined by the set of arrows asked for so far (`Collided`), the later column
prevailing, and at its end that set is the rule's. `OrientInv` is the
conjunction of the input's properties, the walk over vertices and subsets, the
graph against the phase, and `SearchSound`; a vertex once settled stays so
because an arrow is never removed.

*Publication.* At each step the invariant names which of the two, the published
files or their copies, must still be good: files while copies are made or
removed, copies while files are replaced.

*What stays with TLC.* Liveness (`FrontierEnds`, `EndsIfRestored`,
`WindowCollected`, `PublicationSettles`), which rests on fairness. Properties of
folds and of filtered sequences (`WaveSound`), which need induction over data;
where the code's loop is a function over a range of numbers, as in the
orientation, induction over sets of indices does it. The remaining components have no proofs; section 6 says which come next.

## 5. Not modelled, and why

- CI kernels, solvers, bases, spectra: floating point. Their verdicts are
  arbitrary, their call protocol appears where it matters.
- Times, byte totals, digests and diagnostics that no decision reads. Contract
  strings are injective keys.
- *RunLedger* leaves out the gate of the root cache, the split of structured
  fallbacks, the shape conditions on n and p, and the order in which one batch
  ages an LRU list (`Kept`); the optimizer has two decompositions per target.
- *PrefillPipeline* takes the target-state cache as large enough; level 0 makes
  no use of contexts the cache could refuse.
- *WanPdag* runs with the default rule options and treats regression tests as
  free verdicts, so an acceptance may follow any refusal.
- *PrecisionSkeleton*'s round mode traces in replay order, so its
  `canonical_test_order_id` is not compared with the canonical order.
- *PhaseBatch*, *FixedSpResources*: `cudaFree` waits for the device, a copy of
  pageable memory blocks, destructors do not fail. The dCov run without
  conditioning is a prefix of the conditional one.
- *LowrankBatch*: creating a thread fails for none or all (a half-created pool
  ends the process). *FastSplineBatch*: the batched factorization's own info
  array is not read by the code, so it decides nothing.
- *CapacityDispatch*: the default level and shape tables are the instance.
- The packing inside the small64 batcher, batched and device regression tests,
  the later phases' evidence tables, argument checks and list packaging in R.
- The legacy `kpcalg` package, `gpu-dcov`, vendored LAPACK, validation scripts.

## 6. What is left

- The leases of the arena and of the method caches: `ResidualsAreOwn` and
  `NothingHeld` of GroupExecution, `CachesTruthful` of MethodGroup.
- `EachTargetOwn` of SinglePenaltyMulti, whose claims are those of
  `optimize_multi` in PreparedGcv.
