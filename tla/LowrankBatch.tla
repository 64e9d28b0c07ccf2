---------------------------- MODULE LowrankBatch ----------------------------
(***************************************************************************)
(* One dCov batch of the legacy skeleton engine on CUDA: the component     *)
(* batch legacy_dcov_cuda_lowrank_gamma_component_batch, the threaded pair *)
(* batch of the engine's run_dcov_batch_for_tasks, and the level component *)
(* cache (fastkpc/src/r_api_cuda.cpp).                                     *)
(*                                                                         *)
(* A batch is a list of pairs of column ADDRESSES.  Components (distance   *)
(* sums and eigenvectors of one column) are shared within a batch, and     *)
(* with the level cache between the batches of a level, by address alone:  *)
(* what a column holds is memory[address], and the residual vectors of the *)
(* next level may be allocated at the addresses of the last.               *)
(***************************************************************************)
EXTENDS Integers, FiniteSets, Sequences, SequencesExt

CONSTANTS RawColumn,        \* addresses of data columns
          ResidualColumn,   \* addresses of residual_columns
          MaxEntries,       \* component_cache_level_max_entries
          BatchThreads,     \* FASTKPC_NATIVE_CUDA_LOWRANK_BATCH_THREADS
          MaxBatch,         \* bound: pairs of a batch
          MaxLevel, MaxBatches   \* bounds: levels, and batches of a level

LowrankAssumption ==
  /\ {MaxEntries, BatchThreads, MaxBatch, MaxBatches} \subseteq Nat \ {0}
  /\ MaxLevel \in Nat

VARIABLES scheme,       \* "pairs", "batch" or "level": no component cache, or
                        \* its scope
          level, batches,   \* of the run, and of the level
          memory,       \* address -> the column it holds
          cache,        \* entries_ and lru_: [key, component], latest first
          phase,        \* "idle", "compute", "merge", "returned" or "failed"
          batch,        \* the pairs of addresses
          items,        \* what the workers compute: addresses, or pairs
          found,        \* components the level cache had, by address
          next,         \* next_component
          worker,       \* thread -> [pc, item]
          computed,     \* item index -> its value
          first_error,  \* a worker has thrown
          result        \* what each pair's p-value was computed from

vars == <<scheme, level, batches, memory, cache, phase, batch, items, found,
          next, worker, computed, first_error, result>>

Column == RawColumn \cup ResidualColumn
Thread == 1 .. BatchThreads

\* A run that did not converge, and one that was never computed.
Diverged == << >>

Idle == [pc |-> "done", item |-> 0]

Init ==
  /\ scheme \in {"pairs", "batch", "level"}
  /\ level = 0 /\ batches = 0
  /\ memory = [c \in Column |-> <<c, 0>>]
  /\ cache = << >>
  /\ phase = "idle"
  /\ batch = << >> /\ items = << >> /\ found = << >>
  /\ next = 0 /\ worker = [w \in Thread |-> Idle]
  /\ computed = << >> /\ first_error = FALSE /\ result = << >>

-----------------------------------------------------------------------------
\* The level cache is made anew with the level's residual columns.  (Mutant:
\* it is kept.)
MutFreshLevelCache == cache

FreshLevelCache == << >>

BeginLevel ==
  /\ phase \in {"idle", "returned"}
  /\ level < MaxLevel
  /\ level' = level + 1 /\ batches' = 0
  /\ memory' = [c \in Column |->
                  IF c \in RawColumn THEN memory[c] ELSE <<c, level + 1>>]
  /\ cache' = FreshLevelCache
  /\ phase' = "idle" /\ result' = << >> /\ batch' = << >>
  /\ UNCHANGED <<scheme, items, found, next, worker, computed, first_error>>

\* find: a hit moves to the front.
Cached(key) == {i \in DOMAIN cache : cache[i].key = key}

Touched(c, key) ==
  LET hit == {i \in DOMAIN c : c[i].key = key}
  IN  IF hit = {} THEN c
      ELSE LET i == CHOOSE i \in hit : TRUE
           IN  <<c[i]>> \o RemoveAt(c, i)

\* insert: at the front; the last entries are evicted.
Inserted(c, key, component) ==
  LET others == SelectSeq(c, LAMBDA entry : entry.key # key)
      all    == <<[key |-> key, component |-> component]>> \o others
  IN  SubSeq(all, 1, IF Len(all) < MaxEntries THEN Len(all) ELSE MaxEntries)

\* The addresses of a batch in the order intern_component meets them.
Addresses(b) ==
  FoldLeft(LAMBDA s, pair : s \o SelectSeq(
                IF pair[1] = pair[2] THEN <<pair[1]>> ELSE pair,
                LAMBDA a : a \notin ToSet(s)),
           << >>, b)

\* intern_component on every column of the batch.
InternBatch(b) ==
  LET addresses == Addresses(b)
      uses_cache == scheme = "level"
      hits == {a \in ToSet(addresses) : uses_cache /\ Cached(a) # {}}
  IN  /\ phase \in {"idle", "returned"}
      /\ scheme # "pairs"
      /\ batches < MaxBatches
      /\ batches' = batches + 1
      /\ batch' = b
      /\ found' = [a \in hits |-> cache[CHOOSE i \in Cached(a) : TRUE].component]
      /\ items' = SelectSeq(addresses, LAMBDA a : a \notin hits)
      /\ cache' = FoldLeft(LAMBDA c, a : Touched(c, a), cache, addresses)
      /\ next' = 0
      /\ computed' = [i \in DOMAIN items' |-> Diverged]
      /\ worker' = [w \in Thread |-> [pc |-> "take", item |-> 0]]
      /\ first_error' = FALSE /\ result' = << >>
      /\ phase' = "compute"
      /\ UNCHANGED <<scheme, level, memory>>

\* Without components the pairs themselves are dealt out to the threads.
DealPairs(b) ==
  /\ phase \in {"idle", "returned"}
  /\ scheme = "pairs"
  /\ batches < MaxBatches
  /\ batches' = batches + 1
  /\ batch' = b /\ items' = b
  /\ computed' = [i \in DOMAIN b |-> Diverged]
  /\ worker' = [w \in Thread |-> [pc |-> "take", item |-> w - BatchThreads]]
  /\ first_error' = FALSE /\ result' = << >>
  /\ phase' = "compute"
  /\ UNCHANGED <<scheme, level, memory, cache, found, next>>

-----------------------------------------------------------------------------

NextItem(w) ==
  IF scheme = "pairs" THEN worker[w].item + BatchThreads ELSE next + 1

TakeItem(w) ==
  /\ phase = "compute" /\ worker[w].pc = "take"
  /\ worker' = [worker EXCEPT ![w] =
       [pc |-> IF NextItem(w) > Len(items) THEN "done" ELSE "check",
        item |-> NextItem(w)]]
  /\ next' = IF scheme = "pairs" THEN next ELSE next + 1
  /\ UNCHANGED <<scheme, level, batches, memory, cache, phase, batch, items,
                 found, computed, first_error, result>>

\* Under error_mutex: a thread stops once another has failed.
CheckError(w) ==
  /\ phase = "compute" /\ worker[w].pc = "check"
  /\ worker' = [worker EXCEPT ![w].pc = IF first_error THEN "done" ELSE "run"]
  /\ UNCHANGED <<scheme, level, batches, memory, cache, phase, batch, items,
                 found, next, computed, first_error, result>>

\* What an item is computed from.
ItemValue(item) ==
  IF scheme = "pairs" THEN <<memory[item[1]], memory[item[2]]>> ELSE memory[item]

\* A pair that does not converge throws; a component only says so.
ComputeItem(w, outcome) ==
  LET i == worker[w].item
  IN  /\ phase = "compute" /\ worker[w].pc = "run"
      /\ outcome = "diverged" => scheme # "pairs"
      /\ computed' = [computed EXCEPT ![i] =
                        IF outcome = "ok" THEN ItemValue(items[i]) ELSE Diverged]
      /\ first_error' = (first_error \/ outcome = "throws")
      /\ worker' = [worker EXCEPT ![w].pc =
                      IF outcome = "throws" THEN "done" ELSE "take"]
      /\ UNCHANGED <<scheme, level, batches, memory, cache, phase, batch, items,
                     found, next, result>>

\* All threads are joined, and the first error is thrown.
JoinWorkers ==
  /\ phase = "compute"
  /\ \A w \in Thread : worker[w].pc = "done"
  /\ phase' = IF first_error THEN "failed" ELSE "merge"
  /\ UNCHANGED <<scheme, level, batches, memory, cache, batch, items, found,
                 next, worker, computed, first_error, result>>

\* The items before the first component that did not converge.
ConvergedPrefix ==
  LET bad == {i \in DOMAIN items : computed[i] = Diverged}
  IN  IF bad = {} THEN DOMAIN items
      ELSE {i \in DOMAIN items : \A j \in bad : i < j}

AllConverged == ConvergedPrefix = DOMAIN items

Component(a) ==
  IF a \in DOMAIN found THEN found[a]
  ELSE computed[CHOOSE i \in DOMAIN items : items[i] = a]

\* The components enter the level cache in item order, and every pair is
\* combined from its two.
MergeComponents ==
  LET insert(c, i) == Inserted(c, items[i], computed[i])
      inserted == FoldLeft(insert, cache,
                           [i \in 1 .. Cardinality(ConvergedPrefix) |-> i])
  IN  /\ phase = "merge" /\ scheme # "pairs"
      /\ cache' = IF scheme = "level" THEN inserted ELSE cache
      /\ IF AllConverged
         THEN /\ result' = [i \in DOMAIN batch |->
                              <<Component(batch[i][1]), Component(batch[i][2])>>]
              /\ phase' = "returned"
         ELSE phase' = "failed" /\ UNCHANGED result
      /\ UNCHANGED <<scheme, level, batches, memory, batch, items, found, next,
                     worker, computed, first_error>>

MergePairs ==
  /\ phase = "merge" /\ scheme = "pairs"
  /\ result' = computed
  /\ phase' = "returned"
  /\ UNCHANGED <<scheme, level, batches, memory, cache, batch, items, found,
                 next, worker, computed, first_error>>

\* The run is over: all batches done, or an exception has ended it.
Ended ==
  /\ \/ phase = "failed"
     \/ phase \in {"idle", "returned"} /\ level = MaxLevel /\ batches = MaxBatches
  /\ UNCHANGED vars

Batch == UNION {[1 .. k -> Column \X Column] : k \in 1 .. MaxBatch}

Next ==
  \/ BeginLevel
  \/ \E b \in Batch : InternBatch(b) \/ DealPairs(b)
  \/ \E w \in Thread :
       \/ TakeItem(w)
       \/ CheckError(w)
       \/ \E outcome \in {"ok", "diverged", "throws"} : ComputeItem(w, outcome)
  \/ JoinWorkers
  \/ MergeComponents
  \/ MergePairs
  \/ Ended

Spec == Init /\ [][Next]_vars

-----------------------------------------------------------------------------
(* Properties *)

\* A batch that returns has computed every pair from what its own two columns
\* hold now: neither a component cached under a reused address, nor a slot no
\* thread reached or completed, enters a p-value.
PairReadsOwn ==
  phase = "returned" =>
    \A i \in DOMAIN batch : result[i] = <<memory[batch[i][1]], memory[batch[i][2]]>>

=============================================================================
