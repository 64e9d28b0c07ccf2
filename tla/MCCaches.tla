------------------------------ MODULE MCCaches ------------------------------
(* The caches between the frontier and the device, and the orientation of  *)
(* the skeleton a run returns, on small instances. `subject` is the        *)
(* component whose behaviours are explored; the others stay in one of      *)
(* their initial states. A variable two components call alike carries the  *)
(* name of its instance.                                                   *)
EXTENDS WanPdag

CONSTANTS
    Subjects,
    Datasets, MultiPenalty, ResultCapacities, StateCapacities,
    ComponentCapacity, MaxCalls

VARIABLES
    subject,
    results, states, call, opts, waveLevel, deleted, todo, wave, components,
    slots, wavePhase, refused,
    structured, levelLevel, groups, entries, next, residuals, arena, active,
    built, ledger, batch, queue, content, wrong, pc,
    method, overlap, methodBatch, residual, component, slab, solve, found,
    inflight, token, ticket, factors, records, provisional, deferred, rng,
    table, methodGroups, cause, methodPc,
    groupOpts, groupLevel, groupGroups, groupStates, groupComponents, pending,
    groupArena, handle, host, received,
    enabled, prefetchMethod, fallback, layered, device, values, scratch, fits,
    prefetchLevel, tasks, requests, start, k, part, refX, refY, xmat, ymat,
    prefetchPc

SmallPlan == << {<<{}, 1, 2>>},
                {<<{3}, 1, 2>>, <<{3}, 1, 4>>, <<{4}, 1, 2>>, <<{4}, 2, 3>>} >>
OnlyMulti == {{4}}

LevelPlan == << [sets |-> {{1, 2}}, prefilled |-> FALSE],
                [sets |-> {{3, 4}, {5}}, prefilled |-> TRUE],
                [sets |-> {{6}, {7}}, prefilled |-> TRUE],
                [sets |-> {{8, 9}}, prefilled |-> FALSE] >>

GroupPlan == <<("a" :> 1 .. 2), ("b" :> 1 .. 4 @@ "c" :> {1, 2})>>
WarmStates == {{<<"b", 1>>, <<"b", 2>>, <<"b", 3>>}}
GroupRest ==
    /\ groupOpts = [arena |-> FALSE, prefill |-> FALSE, parity |-> FALSE, components |-> FALSE]
    /\ groupStates = {}

Both(E) == E \cup {<<e[2], e[1]>> : e \in E}
TriangleAndTail == Both({<<0, 1>>, <<0, 2>>, <<1, 2>>, <<2, 3>>})
Star == Both({<<0, 1>>, <<0, 2>>, <<0, 3>>})
PrefetchRest ==
    /\ enabled /\ fallback /\ layered
    /\ prefetchMethod = "hsic" /\ device = "cpu"

OrientRest ==
    /\ adjacency = [e \in Vertex \X Vertex |-> 0] /\ pdag = adjacency
    /\ sepset = [e \in Pair |-> {}]
    /\ solve_confl = FALSE
    /\ neighborhoods = [v \in Vertex |-> {}] /\ nbhd_updated = {}
    /\ s = 1 /\ V = 0 /\ s2 = 0 /\ subsets = <<>>
    /\ phase = "collider"

Wave == INSTANCE ComponentWave WITH
    Plan <- SmallPlan, level <- waveLevel, phase <- wavePhase

Level == INSTANCE ComponentLevel WITH
    Levels <- LevelPlan, Capacity <- 3, BatchCapacity <- 2, Lanes <- 2,
    Width <- 1, MaxGroups <- 2, level <- levelLevel

Method == INSTANCE MethodGroup WITH
    Targets <- 1 .. 4, SvdTargets <- 1 .. 3, Defers <- TRUE,
    ResidualCapacity <- 3, GatherCapacity <- 2, ComponentCapacity <- 2,
    MaxGroups <- 4, batch <- methodBatch, groups <- methodGroups,
    pc <- methodPc

Group == INSTANCE GroupExecution WITH
    InitialCapacity <- 2, MaxTargets <- 4, None <- <<>>, Plan <- GroupPlan,
    Multi <- {"b", "c"}, CohortLimit <- 3, MaxGroups <- 2, Warm <- WarmStates,
    opts <- groupOpts, level <- groupLevel, groups <- groupGroups,
    states <- groupStates, components <- groupComponents, arena <- groupArena

Prefetch == INSTANCE ResidualPrefetch WITH
    P <- 4, Levels <- 2, Snapshots <- {TriangleAndTail, Star}, BatchSize <- 3,
    MaxBatchPairs <- 2, ResidualBatchSize <- 4, method <- prefetchMethod,
    level <- prefetchLevel, pc <- prefetchPc

levelVars == <<structured, levelLevel, groups, entries, next, residuals,
               arena, active, built, ledger, batch, queue, content, wrong, pc>>
methodVars == <<method, overlap, methodBatch, residual, component, slab,
                solve, found, inflight, token, ticket, factors, records,
                provisional, deferred, rng, table, methodGroups, cause,
                methodPc>>
groupVars == <<groupOpts, groupLevel, groupGroups, groupStates,
               groupComponents, pending, groupArena, handle, host, received>>
prefetchVars == <<enabled, prefetchMethod, fallback, layered, device, values,
                  scratch, fits, prefetchLevel, tasks, requests, start, k,
                  part, refX, refY, xmat, ymat, prefetchPc>>
waveVars == <<results, states, call, opts, waveLevel, deleted, todo, wave,
              components, slots, wavePhase, refused>>
all == <<subject, vars, waveVars, levelVars, methodVars, groupVars, prefetchVars>>

ASSUME Wave!CapacityAssumption /\ Wave!PlanAssumption
ASSUME Level!SizesAssumption /\ Level!DistinctAssumption
ASSUME Method!MethodAssumption
ASSUME Group!ArenaAssumption
ASSUME Prefetch!PrefetchAssumption

MCInit ==
    /\ subject \in Subjects
    /\ Wave!Init
    /\ Level!Init
    /\ subject # "level" => structured
    /\ Method!Init
    /\ subject # "method" => method = "hsic.gamma" /\ ~overlap
    /\ Group!Init
    /\ subject # "group" => GroupRest
    /\ Prefetch!Init
    /\ subject # "prefetch" => PrefetchRest
    /\ IF subject = "orientation" THEN Init ELSE OrientRest

MCNext ==
    /\ UNCHANGED subject
    /\ \/ subject = "orientation" /\ Next
          /\ UNCHANGED <<waveVars, levelVars, methodVars, groupVars,
                         prefetchVars>>
       \/ subject = "wave" /\ Wave!Next
          /\ UNCHANGED <<vars, levelVars, methodVars, groupVars, prefetchVars>>
       \/ subject = "level" /\ Level!Next
          /\ UNCHANGED <<vars, waveVars, methodVars, groupVars, prefetchVars>>
       \/ subject = "method" /\ Method!Next
          /\ UNCHANGED <<vars, waveVars, levelVars, groupVars, prefetchVars>>
       \/ subject = "group" /\ Group!Next
          /\ UNCHANGED <<vars, waveVars, levelVars, methodVars, prefetchVars>>
       \/ subject = "prefetch" /\ Prefetch!Next
          /\ UNCHANGED <<vars, waveVars, levelVars, methodVars, groupVars>>

MCSpec == MCInit /\ [][MCNext]_all

-----------------------------------------------------------------------------
(* A wave is never refused a state the level's prefill stored, and a hit   *)
(* counts as preexisting exactly when it was there before the call.         *)
WaveSound == Wave!PrefilledNeverRefused /\ Wave!PreexistingExact

(* What the engine's own check says of the policy.                          *)
PredictionHolds == Wave!PredictionHolds

(* The device never evaluates a pair from a component slot that does not    *)
(* hold all of the component meant, nor reads a residual of a freed arena;  *)
(* between build and finish of a level every component was produced and     *)
(* resolved exactly once, and no two components share a slot.               *)
LevelSound ==
    /\ Level!ReadsComplete
    /\ Level!LedgerBalances
    /\ Level!SlotsExclusive

(* A cache entry of the method batch names a slot with its own key's        *)
(* payload from a solve found good; R's random stream advances by one draw  *)
(* per group begun, with or without overlap; a group that has ended leaves  *)
(* nothing in flight; and the records of a group were computed from its own *)
(* targets' components and from the permutations drawn for it.              *)
GroupsSound ==
    /\ Method!CachesTruthful
    /\ Method!DrawsIndependent
    /\ Method!ContextReleased
    /\ Method!AnswersOwn

(* Gathered and finalized residuals are those of the targets asked for, and *)
(* a group that has ended, however, holds no handle and no residual.        *)
ResidualsAreOwn == Group!ResidualsAreOwn /\ Group!NothingHeld

(* Every packed pair of a CI batch holds its own task's residuals, and no   *)
(* cached residual is fitted twice.                                         *)
PacksOwn == Prefetch!PacksOwn /\ Prefetch!FittedOnce
=============================================================================
