-------------------------- MODULE PrefillPipeline --------------------------
(***************************************************************************)
(* The strict one-call engine's use of prepared contexts, level by level:  *)
(* the single- and multi-penalty prefill of optimizer states, with or      *)
(* without the setup/optimizer pipeline, and the frontier waves after it.  *)
(*                                                                         *)
(* The calling thread takes contexts from the setup cache, fills a window, *)
(* and hands it to the optimizer.  With the pipeline the optimizer runs in *)
(* std::async while the next window is collected, so the contexts of up to *)
(* two windows and the one in hand are in use while get() may evict.       *)
(*                                                                         *)
(* Any CUDA or host call may throw; the exception leaves the prefill,      *)
(* joins the future, and the engine's catch block clears the cache.        *)
(***************************************************************************)
EXTENDS SetupCache

CONSTANTS
    Levels,     \* the conditioning sets of each level, in map order
    Width,      \* how many contexts of a kind one window holds
    WaveCap,    \* legacy_component_wave_capacity
    Starts,     \* may the semantic caches be fresh, warm, or either
    None        \* no context

(* The sets of a level are of one size, so of one penalty class.           *)
LevelsAssumption ==
    /\ Levels \in Seq(Seq(Key))
    /\ \A i, j \in DOMAIN Levels :
        /\ IsInjective(Levels[i])
        /\ i # j => ToSet(Levels[i]) \cap ToSet(Levels[j]) = {}
    /\ \A i \in DOMAIN Levels :
        \/ ToSet(Levels[i]) \subseteq SinglePenalty
        \/ ToSet(Levels[i]) \cap SinglePenalty = {}
WidthAssumption ==
    \A k \in Key : /\ Width[k] \in Nat \ {0}
                   /\ k \in SinglePenalty => Width[k] <= SingleCapacity
                   /\ 2 * Width[k] <= MultiCapacity
WaveAssumption ==
    WaveCap \in Nat \ {0} /\ WaveCap <= SingleCapacity /\ WaveCap <= MultiCapacity

StartsAssumption == Starts \subseteq BOOLEAN
NoneAssumption == None \notin Key

VARIABLES
    opts,       \* pipelined, fresh, component, slots
    level, todo,
    hand,       \* the context just taken from the cache, or None
    window,     \* the window being collected
    pending,    \* the window in the optimizer
    async,      \* state of the optimizer call
    wave,       \* the groups selected and not yet executed
    states,     \* conditioning sets whose optimizer states are cached
    cache,
    pc

vars == <<opts, level, todo, hand, window, pending, async, wave, states,
          cache, pc>>

(* The slots need the level components, and those need fresh caches and    *)
(* an unpipelined engine in turn; the component prefill alone does not     *)
(* exclude the pipeline.                                                   *)
Options ==
    {o \in [pipelined : BOOLEAN, fresh : Starts, component : BOOLEAN,
            slots : BOOLEAN] :
        /\ o.component => o.fresh
        /\ o.slots => o.component /\ ~o.pipelined}

Init ==
    /\ opts \in Options
    /\ level = 0 /\ todo = <<>> /\ hand = None /\ window = <<>>
    /\ pending = <<>> /\ async = "none" /\ wave = <<>> /\ states = {}
    /\ cache = EmptyCache /\ pc = "plan"

LevelKeys == IF level \in DOMAIN Levels THEN ToSet(Levels[level]) ELSE {}
Multi == \E k \in LevelKeys : k \notin SinglePenalty
Slots == opts.slots /\ Multi

Throw == pc' = "unwind"

NextLevel ==
    /\ pc = "plan" /\ level < Len(Levels)
    /\ level' = level + 1
    /\ todo' = Levels[level + 1]
    /\ pc' = IF opts.fresh THEN "collect" ELSE "frontier"
    /\ UNCHANGED <<opts, hand, window, pending, async, wave, states, cache>>

-----------------------------------------------------------------------------
(* Collecting a window.                                                    *)

Collect ==
    /\ pc = "collect" /\ todo # <<>>
    /\ hand' = Head(todo) /\ todo' = Tail(todo)
    /\ cache' = get(cache, Head(todo), opts.pipelined)
    /\ pc' = "push"
    /\ UNCHANGED <<opts, level, window, pending, async, wave, states>>

CollectFails ==
    /\ pc = "collect" /\ todo # <<>>
    /\ cache' = GetFails(cache, Head(todo))
    /\ Head(todo) \notin cache.entries
    /\ Throw
    /\ UNCHANGED <<opts, level, todo, hand, window, pending, async, wave, states>>

(* A context of another width runs the window first.  The slots take the   *)
(* whole level as one window.                                              *)
Flush == ~Slots /\ window # <<>> /\ Width[hand] # Width[Last(window)]
Full(w) == ~Slots /\ Len(w) = Width[Last(w)]

Push ==
    /\ pc = "push"
    /\ \/ /\ Flush
          /\ pc' = "run"
          /\ UNCHANGED <<window, hand>>
       \/ /\ ~Flush
          /\ window' = Append(window, hand) /\ hand' = None
          /\ pc' = IF Full(window') THEN "run" ELSE "collect"
    /\ UNCHANGED <<opts, level, todo, pending, async, wave, states, cache>>

MutCollected ==
    /\ pc = "collect" /\ todo = <<>>
    /\ pc' = IF async # "none" THEN "finish" ELSE "frontier"
    /\ window' = <<>>
    /\ UNCHANGED <<opts, level, todo, hand, pending, async, wave, states, cache>>

(* The last, partial window, then the window still in the optimizer.       *)
Collected ==
    /\ pc = "collect" /\ todo = <<>>
    /\ pc' = IF window # <<>> THEN "run"
             ELSE IF async # "none" THEN "finish" ELSE "frontier"
    /\ UNCHANGED <<opts, level, todo, hand, window, pending, async, wave, states,
                   cache>>

-----------------------------------------------------------------------------
(* Running a window.                                                       *)

RunWindow ==
    /\ pc = "run"
    /\ pc' = IF opts.pipelined /\ async # "none" THEN "finish" ELSE "materialize"
    /\ UNCHANGED <<opts, level, todo, hand, window, pending, async, wave, states,
                   cache>>

(* The handles a window needs: with the pipeline the deferred fixed_sp     *)
(* handles, and outside the slots one multi_penalty handle per context of  *)
(* several penalties.                                                      *)
Handles ==
    [cache EXCEPT
        !.fixed = IF opts.pipelined THEN @ \cup ToSet(window) ELSE @,
        !.multi = IF Multi /\ ~Slots THEN @ \cup ToSet(window) ELSE @]

AfterRun(h) == IF h # None THEN "push" ELSE "collect"

Launch ==
    /\ pc = "materialize"
    /\ cache' = Handles
    /\ pending' = window /\ window' = <<>>
    /\ async' = "running"
    /\ pc' = IF opts.pipelined THEN AfterRun(hand) ELSE "finish"
    /\ UNCHANGED <<opts, level, todo, hand, wave, states>>

(* Some of the handles exist when the next one cannot be created.          *)
LaunchFails ==
    /\ pc = "materialize"
    /\ \E n, m \in 0 .. Len(window) :
          /\ m > 0 => n = Len(window)
          /\ cache' = [cache EXCEPT
                !.fixed = IF opts.pipelined
                            THEN @ \cup ToSet(SubSeq(window, 1, n)) ELSE @,
                !.multi = IF Multi /\ ~Slots
                            THEN @ \cup ToSet(SubSeq(window, 1, m)) ELSE @]
    /\ Throw
    /\ UNCHANGED <<opts, level, todo, hand, window, pending, async, wave, states>>

(* The optimizer of the pending window.                                    *)
Optimize ==
    /\ async = "running"
    /\ async' \in {"done", "failed"}
    /\ UNCHANGED <<opts, level, todo, hand, window, pending, wave, states, cache,
                   pc>>

Released == [cache EXCEPT !.multi = @ \ ToSet(pending)]

MutFinish ==
    /\ pc = "finish" /\ async = "done" /\ window = <<>>
    /\ states' = states \cup ToSet(pending)
    /\ cache' = Released
    /\ pending' = <<>> /\ async' = "none"
    /\ pc' = AfterRun(hand)
    /\ UNCHANGED <<opts, level, todo, hand, window, wave>>

(* finish_pending: the states are stored and the handles released.         *)
Finish ==
    /\ pc = "finish" /\ async = "done"
    /\ states' = states \cup ToSet(pending)
    /\ cache' = Released
    /\ pending' = <<>> /\ async' = "none"
    /\ pc' = IF window # <<>> THEN "materialize" ELSE AfterRun(hand)
    /\ UNCHANGED <<opts, level, todo, hand, window, wave>>

(* The optimizer threw: get() rethrows here.                               *)
Rethrow ==
    /\ pc = "finish" /\ async = "failed"
    /\ cache' = Released
    /\ Throw
    /\ UNCHANGED <<opts, level, todo, hand, window, pending, async, wave, states>>

(* The completion throws after storing some of the states.                 *)
FinishFails ==
    /\ pc = "finish" /\ async = "done"
    /\ \E n \in 0 .. Len(pending) :
          states' = states \cup ToSet(SubSeq(pending, 1, n))
    /\ cache' = Released
    /\ Throw
    /\ UNCHANGED <<opts, level, todo, hand, window, pending, async, wave>>

-----------------------------------------------------------------------------
(* The frontier of the level.                                              *)

Selectable(k) ==
    pc = "frontier" /\ k \in LevelKeys /\ k \notin ToSet(wave) /\ Len(wave) < WaveCap

Select ==
    \E k \in Key :
        /\ Selectable(k)
        /\ cache' = materialize_device(get(cache, k, opts.pipelined), k)
        /\ wave' = Append(wave, k)
        /\ UNCHANGED <<opts, level, todo, hand, window, pending, async, states, pc>>

(* A second group that the positive-miss prediction rejects has already    *)
(* been taken from the cache; the wave ends without it.                    *)
Reject ==
    \E k \in Key :
        /\ Selectable(k) /\ wave # <<>>
        /\ cache' = get(cache, k, opts.pipelined)
        /\ pc' = "execute"
        /\ UNCHANGED <<opts, level, todo, hand, window, pending, async, wave, states>>

SelectFails ==
    \E k \in Key :
        /\ Selectable(k)
        /\ \/ k \notin cache.entries /\ cache' = GetFails(cache, k)
           \/ LET c == get(cache, k, opts.pipelined)
              IN  k \notin c.fixed /\ cache' = c
        /\ Throw
        /\ UNCHANGED <<opts, level, todo, hand, window, pending, async, wave, states>>

Begin ==
    /\ pc = "frontier" /\ wave # <<>>
    /\ pc' = "execute"
    /\ UNCHANGED <<opts, level, todo, hand, window, pending, async, wave, states,
                   cache>>

(* execute_group optimizes missing states and evaluates the group with the *)
(* context's device handle; a multi_penalty handle it needs lives no       *)
(* longer than the call.                                                   *)
Execute ==
    /\ pc = "execute"
    /\ Head(wave) \in cache.fixed
    /\ states' = states \cup {Head(wave)}
    /\ wave' = Tail(wave)
    /\ pc' = IF wave' = <<>> THEN "frontier" ELSE "execute"
    /\ UNCHANGED <<opts, level, todo, hand, window, pending, async, cache>>

ExecuteFails ==
    /\ pc = "execute"
    /\ states' \in {states, states \cup {Head(wave)}}
    /\ Throw
    /\ UNCHANGED <<opts, level, todo, hand, window, pending, async, wave, cache>>

LevelDone ==
    /\ pc = "frontier" /\ wave = <<>>
    /\ pc' = "plan" /\ todo' = <<>>
    /\ UNCHANGED <<opts, level, hand, window, pending, async, wave, states, cache>>

-----------------------------------------------------------------------------
(* The ends.                                                               *)

Close ==
    /\ pc = "plan"
    /\ cache' = clear(cache)
    /\ pc' = "done"
    /\ UNCHANGED <<opts, level, todo, hand, window, pending, async, wave, states>>

(* The destructor of the future waits for the optimizer; then the catch    *)
(* block clears the cache.                                                 *)
Unwind ==
    /\ pc = "unwind" /\ async # "running"
    /\ async' = "none"
    /\ pending' = <<>> /\ hand' = None /\ window' = <<>> /\ wave' = <<>>
    /\ cache' = clear(cache)
    /\ pc' = "done"
    /\ UNCHANGED <<opts, level, todo, states>>

Prefill ==
    Collect \/ Push \/ Collected \/ RunWindow \/ Launch \/ Finish \/ Rethrow
Frontier == Select \/ Reject \/ Begin \/ Execute \/ LevelDone
Main == NextLevel \/ Prefill \/ Frontier \/ Close \/ Unwind
Fault == CollectFails \/ LaunchFails \/ FinishFails \/ SelectFails \/ ExecuteFails

Next == Main \/ Fault \/ Optimize

(* One thread that only ever waits for the optimizer, and an optimizer     *)
(* call that returns or throws.  No fault has to happen.                   *)
Spec == Init /\ [][Next]_vars /\ WF_vars(Main) /\ WF_vars(Optimize)

-----------------------------------------------------------------------------
TypeOK ==
    /\ opts \in Options
    /\ level \in 0 .. Len(Levels)
    /\ hand \in Key \cup {None}
    /\ \A s \in {todo, window, pending, wave} : s \in Seq(Key)
    /\ async \in {"none", "running", "done", "failed"}
    /\ states \subseteq Key
    /\ CacheType(cache)
    /\ pc \in {"plan", "collect", "push", "run", "materialize", "finish",
               "frontier", "execute", "unwind", "done"}

(* The five containers of NativeSetupCache never disagree, whatever get()  *)
(* throws half-way and however the callers interleave their gets.          *)
CacheConsistent == Consistent(cache)

(* The device tier is the most recent part of the host tier although the   *)
(* two LRU lists are kept by separate code.                                *)
DeviceIsMostRecent == MostRecent(cache)

(* Every device handle belongs to a context of the device tier, so that    *)
(* clear(), which looks at no other context, leaks none, and a context     *)
(* found on the host alone can be rehydrated.                              *)
HandlesAreCached ==
    pc # "done" => cache.fixed \cup cache.multi \subseteq cache.entries

(* None of the require() guards between the cache and its users can fire:  *)
(* rehydration meets no handle, a full host tier has a dormant context, a  *)
(* deferred context to materialize has no multi_penalty handle, Stage A    *)
(* still has the handles of the pending window, the L2 components find     *)
(* none, and a group is executed with its fixed_sp handle.                 *)
NoRefusal ==
    /\ (cache.host \ cache.entries) \cap (cache.fixed \cup cache.multi) = {}
    /\ Cardinality(cache.host) >= HostCapacity => cache.host # cache.entries
    /\ pc \in {"run", "materialize"} /\ opts.pipelined =>
          (ToSet(window) \ cache.fixed) \cap cache.multi = {}
    /\ pc = "finish" /\ opts.component /\ async = "done" /\ ~Slots =>
          IF Multi THEN ToSet(pending) \subseteq cache.multi
                   ELSE ToSet(pending) \cap cache.multi = {}
    /\ pc = "execute" => Head(wave) \in cache.fixed

(* The lookups made for a window before the pending one is finished are    *)
(* not stale: no conditioning set is in two windows, nor in a window after *)
(* its states have been stored.                                            *)
WindowIsNew ==
    /\ pc # "unwind" => (ToSet(window) \cup ToSet(pending)) \cap states = {}
    /\ ToSet(window) \cap ToSet(pending) = {}

(* With fresh caches the frontier starts only when every group of the      *)
(* level has been optimized and no optimizer is left running.              *)
LevelPrefilled ==
    pc \in {"frontier", "execute"} =>
        /\ async = "none" /\ window = <<>> /\ hand = None
        /\ opts.fresh => LevelKeys \subseteq states

(* Whether the call returns or throws, it leaves no device handle open and *)
(* no optimizer running.                                                   *)
ClosedAtEnd ==
    pc = "done" => cache = EmptyCache /\ async = "none"

(* A window handed to the optimizer is collected or joined.                *)
WindowCollected == (async = "running") ~> (async = "none")
=============================================================================
