------------------------- MODULE SinglePenaltyMulti -------------------------
(***************************************************************************)
(* single_penalty_gcv_cuda_multi: threads optimize the setups with the     *)
(* spectral kernel and leave the exact replay of the doubtful targets to   *)
(* one fused execution over all setups, small shapes first, each shape     *)
(* with a launch of its own geometry.  When a caller asks for a grid or a  *)
(* transcript, each setup replays its own doubtful targets instead.  The   *)
(* diagnostics of a setup count its targets before and after the replay.   *)
(***************************************************************************)
EXTENDS Naturals, Sequences, FiniteSets, SequencesExt

CONSTANTS
    Targets,    \* sequence: number of targets of each setup
    Large,      \* the setups of more columns than FASTKPC_LAPACK_SMALL_SMLSIZ
    MaxTargets, \* kMagicEigensolverBatch
    Workers,
    MaxErrors   \* bound: calls that throw

Setups == DOMAIN Targets

LargeAssumption == Large \subseteq DOMAIN Targets

(* What a setup is refused for.                                            *)
RequestAssumption == \A i \in Setups : Targets[i] \in 1 .. MaxTargets

VARIABLES
    deferred,   \* use_fused_exact_replay
    pc,         \* workers, build, launch, scatter, returned, thrown
    next,       \* next_setup
    stop,
    claim,      \* worker -> the setup it runs, 0 between two, Unbound, Left
    setups,     \* setup -> its result, <<>> before its run
    errors,     \* how many calls threw
    metadata,   \* the fused targets, in launch order
    small,      \* small_target_count
    exact       \* what the launches left on the device

workers == <<next, stop, claim, errors>>
fused == <<metadata, small, exact>>
vars == <<deferred, pc, workers, setups, fused>>
Unbound == Len(Targets) + 1
Left == Len(Targets) + 2

Init ==
    /\ deferred \in BOOLEAN /\ pc = "workers"
    /\ next = 1 /\ stop = FALSE /\ errors = 0
    /\ claim = [w \in Workers |-> Unbound]
    /\ setups = [i \in Setups |-> <<>>]
    /\ metadata = <<>> /\ small = 0 /\ exact = <<>>

Fails == errors < MaxErrors /\ errors' = errors + 1 /\ stop' = TRUE

(* A worker binds the device; one that cannot stops the others.            *)
Bind(w) ==
    /\ claim[w] = Unbound
    /\ \/ claim' = [claim EXCEPT ![w] = 0] /\ UNCHANGED <<stop, errors>>
       \/ claim' = [claim EXCEPT ![w] = Left] /\ Fails
    /\ UNCHANGED <<pc, next, setups, fused>>

Claim(w) ==
    /\ claim[w] = 0
    /\ IF stop THEN claim' = [claim EXCEPT ![w] = Left] /\ UNCHANGED next
       ELSE /\ next' = next + 1
            /\ claim' = [claim EXCEPT ![w] = IF next <= Len(Targets) THEN next ELSE Left]
    /\ UNCHANGED <<pc, stop, errors, setups, fused>>

(* The column of each target: its response on the setup's own factors.     *)
Projected(i) == [t \in 1 .. Targets[i] |-> <<i, t>>]

Geometry(i) == IF i \in Large THEN "block" ELSE "warp"

(* The optimizer works on the columns; a doubtful target (flag) is solved  *)
(* again at once unless the replay is deferred, and one that does not      *)
(* converge on its spectrum is doubtful.                                   *)
Spectral(i, risk, bad) ==
    [t \in 1 .. Targets[i] |->
        [flag |-> t \in risk, column |-> Projected(i)[t],
         by |-> IF t \in risk /\ ~deferred THEN Geometry(i) ELSE "spectral",
         converged |-> t \notin bad]]

Missed(targets) == Cardinality({t \in DOMAIN targets : ~targets[t].converged})
Doubted(targets) == Cardinality({t \in DOMAIN targets : targets[t].flag})

(* The result of one setup with its own counts.                            *)
Returned(targets) ==
    [targets |-> targets, exact |-> Doubted(targets),
     spectral |-> Len(targets) - Doubted(targets), missed |-> Missed(targets)]

(* single_penalty_gcv_cuda for a setup, or an exception.                   *)
Run(w) ==
    LET i == claim[w] IN
    /\ i \in Setups
    /\ \/ /\ \E risk \in SUBSET (1 .. Targets[i]) : \E bad \in SUBSET risk :
                setups' = [setups EXCEPT ![i] = Returned(Spectral(i, risk, bad))]
          /\ UNCHANGED <<stop, errors>>
       \/ Fails /\ UNCHANGED setups
    /\ claim' = [claim EXCEPT ![w] = 0]
    /\ UNCHANGED <<pc, next, fused>>

Join ==
    /\ pc = "workers"
    /\ \A w \in Workers : claim[w] = Left
    /\ pc' = IF errors > 0 THEN "thrown"
             ELSE IF deferred THEN "build" ELSE "returned"
    /\ UNCHANGED <<workers, setups, fused>>

-----------------------------------------------------------------------------
Risky(i) == SelectSeq([t \in 1 .. Targets[i] |-> <<i, t>>],
                      LAMBDA x : setups[x[1]].targets[x[2]].flag)
RiskyOf(chosen) == FlattenSeq([i \in Setups |-> IF i \in chosen THEN Risky(i) ELSE <<>>])

MutBuild ==
    /\ pc = "build"
    /\ metadata' = RiskyOf(Setups)
    /\ small' = Len(RiskyOf(Setups \ Large))
    /\ exact' = [k \in DOMAIN metadata' |-> <<>>]
    /\ pc' = IF metadata' = <<>> THEN "returned" ELSE "launch"
    /\ UNCHANGED <<workers, setups>>

(* The doubtful targets of small shape, then those of large shape.         *)
Build ==
    /\ pc = "build"
    /\ metadata' = RiskyOf(Setups \ Large) \o RiskyOf(Large)
    /\ small' = Len(RiskyOf(Setups \ Large))
    /\ exact' = [k \in DOMAIN metadata' |-> <<>>]
    /\ pc' = IF metadata' = <<>> THEN "returned" ELSE "launch"
    /\ UNCHANGED <<workers, setups>>

Replayed(k, bad) ==
    [column |-> metadata[k], by |-> IF k <= small THEN "warp" ELSE "block",
     converged |-> k \notin bad]

(* One launch over each range that is not empty; a failed launch throws.   *)
Launch ==
    /\ pc = "launch"
    /\ \/ /\ \E bad \in SUBSET DOMAIN metadata :
                exact' = [k \in DOMAIN metadata |-> Replayed(k, bad)]
          /\ pc' = "scatter"
       \/ exact' = exact /\ pc' = "thrown"
    /\ UNCHANGED <<workers, setups, metadata, small>>

(* Each exact result goes to the setup and the target it was built from.   *)
Scattered(i) ==
    [t \in 1 .. Targets[i] |->
        LET at == {k \in DOMAIN metadata : metadata[k] = <<i, t>>}
        IN IF at = {} THEN setups[i].targets[t]
           ELSE exact[CHOOSE k \in at : TRUE] @@ setups[i].targets[t]]

\* What the replay kernels counted for a setup.
Replays(i) == Cardinality({k \in DOMAIN metadata : metadata[k][1] = i})

recompute_optimizer_diagnostics(s, targets) ==
    [s EXCEPT !.targets = targets, !.missed = Missed(targets)]

(* A setup whose replays are not those its flags announced is refused.     *)
Scatter ==
    /\ pc = "scatter"
    /\ setups' = [i \in Setups |->
          [recompute_optimizer_diagnostics(setups[i], Scattered(i)) EXCEPT
             !.exact = Replays(i), !.spectral = Targets[i] - Replays(i)]]
    /\ pc' = IF \A i \in Setups : Replays(i) = setups[i].exact
             THEN "returned" ELSE "thrown"
    /\ UNCHANGED <<workers, fused>>

Next ==
    /\ \/ \E w \in Workers : Bind(w) \/ Claim(w) \/ Run(w)
       \/ Join \/ Build \/ Launch \/ Scatter
    /\ UNCHANGED deferred

Spec == Init /\ [][Next]_vars

-----------------------------------------------------------------------------
(* single_penalty_gcv_cuda_multi: what it returns has, for every target of *)
(* every setup, that target's own result: exact, by the launch of its      *)
(* shape, where the spectral run was in doubt, spectral where it was not.  *)
(* Its counts are of the results returned, fused replay or not.            *)
EachTargetOwn ==
    pc = "returned" =>
        \A i \in Setups :
            /\ setups[i] # <<>>
            /\ LET s == setups[i] IN
               /\ \A t \in 1 .. Targets[i] :
                     /\ s.targets[t].column = <<i, t>>
                     /\ s.targets[t].by = IF s.targets[t].flag THEN Geometry(i)
                                          ELSE "spectral"
               /\ s.exact = Cardinality({t \in 1 .. Targets[i] :
                                            s.targets[t].by # "spectral"})
               /\ s.exact + s.spectral = Targets[i]
               /\ s.missed = Missed(s.targets)
=============================================================================
