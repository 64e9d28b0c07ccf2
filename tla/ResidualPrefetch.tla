-------------------------- MODULE ResidualPrefetch --------------------------
(***************************************************************************)
(* How the CUDA skeleton engine obtains the residuals its tests compare:   *)
(* CudaSkeletonResidualCache of fastkpc/src/skeleton_engine_cuda.cpp, the  *)
(* layer scheduler's prefetch over the unique requests of a level, and the *)
(* packing of the tasks into the host buffers a CI batch is called with.   *)
(*                                                                         *)
(* `get` returns a REFERENCE: into the map of cached vectors, or, with the *)
(* cache disabled, to the one scratch vector every call overwrites.  The   *)
(* vectors are named by the residual they hold, so that a buffer filled    *)
(* from the wrong reference is visible; a conditioning set is a set, which *)
(* is what make_residual_cache_key's sort makes of it.                     *)
(***************************************************************************)
EXTENDS LayerPlan, SequencesExt

CONSTANTS
  Levels,             \* max_conditioning_size
  Snapshots,          \* the adjacencies a level may start from
  BatchSize,          \* the CI batch size resolve_dcov_batch_size returns
  MaxBatchPairs,      \* hsic_options.cuda_max_batch_pairs, 0 for no limit
  ResidualBatchSize   \* options.residual_batch_size, 0 for automatic

PrefetchAssumption ==
  /\ BatchSize \in Nat \ {0} /\ MaxBatchPairs \in Nat /\ ResidualBatchSize \in Nat
  /\ Levels \in Nat /\ Snapshots \subseteq SUBSET Cell

VARIABLES
  enabled,   \* enabled_: options.residual_cache_enabled
  method,    \* ci_method: "dcc.gamma", "dcc.perm" or "hsic"
  fallback,  \* fallback_: options.cuda_residual_fallback
  layered,   \* the scheduler is "layer"
  device,    \* used_device_: "cpu", "cuda" or "cuda-fallback-cpu"
  values,    \* values_: the key of every cached vector |-> what it holds
  scratch,   \* scratch_: the vector a disabled cache computes into
  fits,      \* key |-> how often it was computed
  level,     \* ord
  tasks,     \* plan.tasks of the level, in order
  requests,  \* the unique residual requests of the level
  start,     \* the offset of the current batch
  k,         \* the task of the batch that is packed, from 0
  part,      \* the next statement of pack_task_vectors_directly
  refX,      \* x_residual: the reference the first get returned
  refY,      \* y_residual: the reference the second get returned
  xmat,      \* the packed x vectors, by position in the batch
  ymat,      \* the packed y vectors
  pc         \* "level", "prefetch", "pack", "call", "done" or "error"

cacheVars == <<device, values, scratch, fits>>
packVars  == <<k, part, refX, refY, xmat, ymat>>
options   == <<enabled, fallback, layered, method>>
vars == <<options, cacheVars, level, tasks, requests, start, packVars, pc>>

\* make_residual_cache_key; data, backend and parameters are fixed in a run.
CacheKey(target, S) == <<target, S>>

Keys == Vertex \X SUBSET Vertex

\* A column of the data matrix, the input of an unconditional test.
RawColumn(v) == <<v, {}>>

NoVector == <<-1, {}>>

Scratch == <<-2, {}>>

Least(a, b) == IF a < b THEN a ELSE b

(* The device and the requests of a level ********************************)

\* resolve_device: the linear backend, and a cpu request, stay on the CPU.
ResolveDevice(linear, requested) ==
  IF linear \/ requested = "cpu" THEN "cpu" ELSE "cuda"

Init ==
  /\ enabled \in BOOLEAN /\ fallback \in BOOLEAN /\ layered \in BOOLEAN
  /\ method \in {"dcc.gamma", "dcc.perm", "hsic"}
  /\ \E linear \in BOOLEAN, requested \in {"cpu", "cuda", "auto"} :
       device = ResolveDevice(linear, requested)
  /\ values = << >> /\ scratch = NoVector /\ fits = [key \in Keys |-> 0]
  /\ level = 0 /\ tasks = << >> /\ requests = << >> /\ start = 0
  /\ k = 0 /\ part = "getX" /\ refX = NoVector /\ refY = NoVector
  /\ xmat = [i \in 0 .. BatchSize - 1 |-> NoVector]
  /\ ymat = [i \in 0 .. BatchSize - 1 |-> NoVector]
  /\ pc = "level"

Requested(t) ==
  IF t.S = {} THEN << >> ELSE <<CacheKey(t.x, t.S), CacheKey(t.y, t.S)>>

\* collect_unique_residual_requests: every key once, in order of first use.
CollectUnique(ts) ==
  FoldLeft(LAMBDA out, key : IF Contains(out, key) THEN out ELSE Append(out, key),
           << >>, FlattenSeq([i \in DOMAIN ts |-> Requested(ts[i])]))

\* One level: the plan of a snapshot, and the requests a layer run prefetches.
BeginLevel(adj) ==
  LET plan == MakeLayerPlan(adj, level)
      ids  == TaskList(plan)
      ts   == [i \in DOMAIN ids |-> plan[ids[i][1]][ids[i][2]]]
  IN  /\ pc = "level" /\ level <= Levels
      /\ tasks' = ts
      /\ requests' = IF layered THEN CollectUnique(ts) ELSE << >>
      /\ start' = 0
      /\ pc' = IF layered /\ enabled THEN "prefetch" ELSE "pack"
      /\ UNCHANGED <<options, cacheVars, level, packVars>>

Finish ==
  /\ pc = "level" /\ level > Levels
  /\ pc' = "done"
  /\ UNCHANGED <<options, cacheVars, level, tasks, requests, start, packVars>>

(* prefetch_level *********************************************************)

ResolveResidualBatchSize(n) ==
  IF ResidualBatchSize > 0 THEN ResidualBatchSize
  ELSE IF n <= 0 THEN 1 ELSE Least(n, 256)

\* The requests of the batch at `start`.
BatchRequests ==
  LET size == ResolveResidualBatchSize(Len(requests))
  IN  SubSeq(requests, start + 1, Least(start + size, Len(requests)))

\* The scan for missing keys: what the cache already holds is not refitted.
Missing(batch) == SelectSeq(batch, LAMBDA key : key \notin DOMAIN values)

\* insert_prefetched_key for the whole batch: an existing entry is kept.
Inserted(missing) ==
  [key \in DOMAIN values \cup ToSet(missing) |->
     IF key \in DOMAIN values THEN values[key] ELSE key]

Computed(keys) == [key \in Keys |-> fits[key] + Cardinality({i \in DOMAIN keys : keys[i] = key})]

\* The fits of a CUDA batch that fell back; a run without fallback aborts.
FallbackSets(missing) ==
  IF device = "cuda" /\ fallback THEN SUBSET DOMAIN missing ELSE {{}}

\* used_device_ after a batch: one fallback moves the rest of the run to the CPU.
DeviceAfter(failed) == IF failed # {} THEN "cuda-fallback-cpu" ELSE device

PrefetchBatch ==
  LET missing == Missing(BatchRequests)
  IN  /\ pc = "prefetch" /\ start < Len(requests)
      /\ \E failed \in FallbackSets(missing) : device' = DeviceAfter(failed)
      /\ values' = Inserted(missing)
      /\ fits' = Computed(missing)
      /\ start' = start + ResolveResidualBatchSize(Len(requests))
      /\ UNCHANGED <<options, scratch, level, tasks, requests, packVars, pc>>

PrefetchDone ==
  /\ pc = "prefetch" /\ start >= Len(requests)
  /\ start' = 0 /\ pc' = "pack"
  /\ UNCHANGED <<options, cacheVars, level, tasks, requests, packVars>>

\* A CUDA fit that throws with no fallback ends the run.
FitThrows(missing) ==
  /\ device = "cuda" /\ ~fallback /\ missing # << >>
  /\ pc' = "error"
  /\ UNCHANGED <<options, cacheVars, level, tasks, requests, start, packVars>>

PrefetchThrows ==
  /\ pc = "prefetch" /\ start < Len(requests)
  /\ FitThrows(Missing(BatchRequests))

(* get and the packing of one task ****************************************)

\* actual_batch_size: the permutation and HSIC kernels have a pair limit.
ActualBatchSize ==
  IF method = "dcc.gamma" \/ MaxBatchPairs = 0 THEN BatchSize
  ELSE Least(BatchSize, MaxBatchPairs)

BatchCount == Least(ActualBatchSize, Len(tasks) - start)

TaskAt == tasks[start + k + 1]

\* The statements of pack_task_vectors_directly: x is copied out before y is
\* asked for.  (Mutant: both references are taken first.)
MutAfter(p) ==
  CASE p = "getX" -> "getY" [] p = "getY" -> "copyX"
    [] p = "copyX" -> "copyY" [] OTHER -> "getX"

After(p) ==
  CASE p = "getX" -> "copyX" [] p = "copyX" -> "getY"
    [] p = "getY" -> "copyY" [] OTHER -> "getX"

\* get: the scratch vector of a disabled cache, a cached vector, or a fit.
Get(key) ==
  LET miss == ~enabled \/ key \notin DOMAIN values
  IN  /\ fits' = IF miss THEN Computed(<<key>>) ELSE fits
      /\ values' = IF enabled THEN Inserted(<<key>>) ELSE values
      /\ scratch' = IF enabled THEN scratch ELSE key
      /\ IF miss THEN \E failed \in FallbackSets(<<key>>) : device' = DeviceAfter(failed)
                 ELSE UNCHANGED device

\* What a reference reads now.
Deref(r) == IF r = Scratch THEN scratch ELSE values[r]

RefOf(key) == IF enabled THEN key ELSE Scratch

PackUnconditional ==
  /\ pc = "pack" /\ k < BatchCount /\ part = "getX" /\ TaskAt.S = {}
  /\ xmat' = [xmat EXCEPT ![k] = RawColumn(TaskAt.x)]
  /\ ymat' = [ymat EXCEPT ![k] = RawColumn(TaskAt.y)]
  /\ k' = k + 1
  /\ UNCHANGED <<options, cacheVars, level, tasks, requests, start, part, refX, refY, pc>>

PackGetX ==
  /\ pc = "pack" /\ k < BatchCount /\ part = "getX" /\ TaskAt.S # {}
  /\ Get(CacheKey(TaskAt.x, TaskAt.S))
  /\ refX' = RefOf(CacheKey(TaskAt.x, TaskAt.S))
  /\ part' = After("getX")
  /\ UNCHANGED <<options, level, tasks, requests, start, k, refY, xmat, ymat, pc>>

PackGetY ==
  /\ pc = "pack" /\ part = "getY"
  /\ Get(CacheKey(TaskAt.y, TaskAt.S))
  /\ refY' = RefOf(CacheKey(TaskAt.y, TaskAt.S))
  /\ part' = After("getY")
  /\ UNCHANGED <<options, level, tasks, requests, start, k, refX, xmat, ymat, pc>>

\* copy_vector_to_buffer reads through the reference when it is called.
PackCopyX ==
  /\ pc = "pack" /\ part = "copyX"
  /\ xmat' = [xmat EXCEPT ![k] = Deref(refX)]
  /\ part' = After("copyX")
  /\ UNCHANGED <<options, cacheVars, level, tasks, requests, start, k, refX, refY, ymat, pc>>

PackCopyY ==
  /\ pc = "pack" /\ part = "copyY"
  /\ ymat' = [ymat EXCEPT ![k] = Deref(refY)]
  /\ part' = After("copyY") /\ k' = k + 1
  /\ UNCHANGED <<options, cacheVars, level, tasks, requests, start, refX, refY, xmat, pc>>

GetThrows ==
  /\ pc = "pack" /\ k < BatchCount /\ part \in {"getX", "getY"} /\ TaskAt.S # {}
  /\ LET key == CacheKey(IF part = "getX" THEN TaskAt.x ELSE TaskAt.y, TaskAt.S)
     IN  FitThrows(IF enabled THEN Missing(<<key>>) ELSE <<key>>)

(* The CI batches and the end of a level **********************************)

Packed ==
  /\ pc = "pack" /\ start < Len(tasks) /\ k = BatchCount
  /\ pc' = "call"
  /\ UNCHANGED <<options, cacheVars, level, tasks, requests, start, packVars>>

\* The next batch packs into the same two buffers.
NextBatch ==
  /\ pc = "call"
  /\ start' = start + ActualBatchSize /\ k' = 0 /\ pc' = "pack"
  /\ UNCHANGED <<options, cacheVars, level, tasks, requests, part, refX, refY, xmat, ymat>>

\* evaluate_tasks_cuda, evaluate_tasks_dcov_permutation_cuda and
\* evaluate_tasks_hsic_cuda: the kernel reads the first `count` vectors.
EvaluateGamma == method = "dcc.gamma" /\ NextBatch

EvaluatePermutation == method = "dcc.perm" /\ NextBatch

EvaluateHsic == method = "hsic" /\ NextBatch

EndLevel ==
  /\ pc = "pack" /\ start >= Len(tasks)
  /\ level' = level + 1 /\ pc' = "level"
  /\ UNCHANGED <<options, cacheVars, tasks, requests, start, packVars>>

Returned ==
  /\ pc \in {"done", "error"}
  /\ UNCHANGED vars

Next ==
  \/ \E adj \in Snapshots : BeginLevel(adj)
  \/ PrefetchBatch \/ PrefetchDone \/ PrefetchThrows
  \/ PackUnconditional \/ PackGetX \/ PackCopyX \/ PackGetY \/ PackCopyY \/ GetThrows
  \/ Packed \/ EvaluateGamma \/ EvaluatePermutation \/ EvaluateHsic \/ EndLevel \/ Finish \/ Returned

Spec == Init /\ [][Next]_vars

(* Properties *************************************************************)

\* When a CI batch is called, every packed pair holds the residuals of its
\* own task: also when the cache is disabled and both references name the one
\* scratch vector, and after a level or batch reused the two buffers.
PacksOwn ==
  pc = "call" =>
    \A i \in 0 .. BatchCount - 1 :
      LET t == tasks[start + i + 1]
      IN  /\ xmat[i] = CacheKey(t.x, t.S)
          /\ ymat[i] = CacheKey(t.y, t.S)

\* With the cache enabled no residual is ever fitted twice, and after a layer
\* run's prefetch the packing of that level fits nothing more.
FittedOnce ==
  enabled =>
    /\ \A key \in Keys : fits[key] <= 1
    /\ layered /\ pc = "pack" =>
         \A i \in DOMAIN tasks : LET t == tasks[i] IN
           t.S # {} => {CacheKey(t.x, t.S), CacheKey(t.y, t.S)} \subseteq DOMAIN values

=============================================================================
