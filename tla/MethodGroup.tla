---------------------------- MODULE MethodGroup ----------------------------
(***************************************************************************)
(* The groups of one call that use a permutation or HSIC method: the early *)
(* preparation ticket that overlaps the generation of permutations, the    *)
(* residual cache (evicts in insertion order) and the HSIC component cache *)
(* (evicts the least recently used), both written before a deferred SVD    *)
(* solve is known to be good, and the errors that are held back so that    *)
(* R's random number stream does not depend on them.                       *)
(*                                                                         *)
(* All device work of a group runs on the context's one stream, so a copy  *)
(* takes effect where it is enqueued.  A step may throw at any checkpoint; *)
(* a group that throws ends the call.                                      *)
(***************************************************************************)
EXTENDS Naturals, Sequences, FiniteSets, FiniteSetsExt, SequencesExt

CONSTANTS
    Targets,            \* residual keys, numbered
    SvdTargets,         \* those with the augmented SVD as planned route
    Defers,             \* deferred_svd_submission_enabled
    ResidualCapacity, GatherCapacity,
    ComponentCapacity,  \* 0 when it would be less than two
    MaxGroups           \* bound on the groups of the call

MethodAssumption ==
    /\ Targets \subseteq Nat /\ SvdTargets \subseteq Targets
    /\ Defers \in BOOLEAN
    /\ ResidualCapacity >= 2 /\ GatherCapacity \in Nat \ {0}
    /\ ComponentCapacity \in Nat \ {1}

VARIABLES
    method,     \* ci_method of the call
    overlap,    \* method_permutation_gpu_overlap_enabled
    batch,      \* targets of the group, in order
    residual,   \* entries: key -> slot; used; evict: next_evict_slot_
    component,  \* entries: key -> slot; order: most recent first; used
    slab,       \* what each slot of either cache holds
    solve,      \* the fixed-sp batch of the group: is it deferred, is it good
    found,      \* the targets whose residual entry the look-up found
    inflight,   \* in_flight_ of the execution context
    token,      \* is residual_token held
    ticket,     \* is the preparation ticket valid
    factors,    \* what the component of each target of the group was made of
    records,    \* what the compact records were computed from
    provisional,\* provisional_cache_state
    deferred,   \* the error held back: "none", "static" or "preparation"
    rng,        \* how many groups have drawn their permutations
    table,      \* permutation table: "idle", "active" or "sealed"
    groups, cause, pc

caches == <<residual, component, slab>>
work == <<solve, found, inflight, token, ticket, provisional>>
options == <<method, overlap>>
answer == <<factors, records>>
vars == <<options, batch, caches, work, answer, deferred, rng, table, groups, cause, pc>>

NoSolve == [deferred |-> FALSE, good |-> TRUE]
Empty == [target |-> 0, good |-> TRUE]
NoRecords == [of |-> <<>>, draws |-> 0]

Init ==
    /\ method \in {"dcc.perm", "hsic.gamma", "hsic.perm"}
    /\ overlap \in BOOLEAN
    /\ batch = <<>>
    /\ residual = [entries |-> <<>>, used |-> 0, evict |-> 0]
    /\ component = [entries |-> <<>>, order |-> <<>>, used |-> 0]
    /\ slab = [residual |-> [s \in 0..(ResidualCapacity - 1) |-> Empty],
               component |-> [s \in 0..(ComponentCapacity - 1) |-> Empty]]
    /\ solve = NoSolve /\ found = {} /\ inflight = FALSE /\ token = FALSE
    /\ ticket = FALSE /\ provisional = FALSE
    /\ factors = <<>> /\ records = NoRecords
    /\ deferred = "none" /\ rng = 0 /\ table = "idle"
    /\ groups = 0 /\ cause = "none" /\ pc = "group"

Permutes == method # "hsic.gamma"
Overlaps == overlap /\ Permutes
Eligible == Len(batch) \in 1..GatherCapacity
AllHit == Eligible /\ found = ToSet(batch)
HasComponents == method = "hsic.perm" /\ ComponentCapacity >= 2

-----------------------------------------------------------------------------
(* Failure: the caches written from an unfinished deferred solve are       *)
(* emptied, the residual token and the context are given back.             *)

MutInvalidated(p) ==
    /\ residual' = IF p THEN [entries |-> <<>>, used |-> 0, evict |-> 0]
                   ELSE residual
    /\ UNCHANGED component
Invalidated(p) ==
    /\ residual' = IF p THEN [entries |-> <<>>, used |-> 0, evict |-> 0]
                   ELSE residual
    /\ component' = IF p THEN [entries |-> <<>>, order |-> <<>>, used |-> 0]
                    ELSE component
Cleanup ==
    /\ Invalidated(provisional)
    /\ provisional' = FALSE /\ token' = FALSE /\ inflight' = FALSE
    /\ ticket' = FALSE
    /\ factors' = <<>> /\ records' = NoRecords
    /\ UNCHANGED <<slab, solve, found>>

Fails(why) ==
    /\ Cleanup
    /\ cause' = why /\ pc' = "failed"
    /\ UNCHANGED <<batch, deferred, rng, table, groups>>

(* An early preparation that throws is only reported after the draws.      *)
PreparationFails(why) ==
    IF Overlaps
    THEN /\ Cleanup
         /\ deferred' = why /\ pc' = "permute"
         /\ UNCHANGED <<batch, rng, table, groups, cause>>
    ELSE Fails(why)

-----------------------------------------------------------------------------
(* execute_group and the early identity.                                   *)

execute_group ==
    /\ pc = "group" /\ groups < MaxGroups
    /\ \E T \in SUBSET Targets \ {{}} : batch' = SetToSortSeq(T, <)
    /\ groups' = groups + 1 /\ deferred' = "none"
    /\ solve' = NoSolve /\ found' = {}
    /\ pc' = IF Overlaps THEN "identity" ELSE "permute"
    /\ UNCHANGED <<caches, inflight, token, ticket, provisional, answer, rng,
                   table, cause>>

EarlyIdentity ==
    /\ pc = "identity"
    /\ \/ pc' = "submit" /\ UNCHANGED deferred
       \/ pc' = "permute" /\ deferred' = "static"
    /\ UNCHANGED <<batch, caches, work, answer, rng, table, groups, cause>>

-----------------------------------------------------------------------------
(* submit_method_preparation.                                              *)

lookup_all ==
    {t \in ToSet(batch) : Eligible /\ t \in DOMAIN residual.entries}

(* The request and its identity are validated, the cache is looked up and  *)
(* the context is claimed; the fixed-sp solve is then run or submitted.    *)
Submit ==
    /\ pc = "submit" /\ ~inflight
    /\ found' = lookup_all
    /\ inflight' = TRUE
    /\ pc' = IF Eligible /\ lookup_all = ToSet(batch) THEN "store" ELSE "solve"
    /\ UNCHANGED <<batch, caches, solve, token, ticket, provisional, answer,
                   deferred, rng, table, groups, cause>>

Solve ==
    /\ pc = "solve"
    /\ \E good \in BOOLEAN :
          LET d == Defers /\ ToSet(batch) \subseteq SvdTargets
          IN  /\ ~d => good
              /\ solve' = [deferred |-> d, good |-> good]
    /\ token' = TRUE
    /\ pc' = "store"
    /\ UNCHANGED <<batch, caches, found, inflight, ticket, provisional, answer,
                   deferred, rng, table, groups, cause>>

Keyed(f, slot) == CHOOSE k \in DOMAIN f : f[k] = slot
Without(f, k) == [j \in DOMAIN f \ {k} |-> f[j]]
With(f, k, v) == [j \in DOMAIN f \cup {k} |-> IF j = k THEN v ELSE f[j]]

(* store_missing for one target: a free slot, or the oldest one, whose     *)
(* entry is erased.                                                        *)
store_missing(c, t) ==
    IF t \in DOMAIN c.r.entries THEN c
    ELSE LET full == c.r.used = ResidualCapacity
             slot == IF full THEN c.r.evict ELSE c.r.used
             kept == IF full THEN Without(c.r.entries, Keyed(c.r.entries, slot))
                     ELSE c.r.entries
         IN  [r |-> [entries |-> With(kept, t, slot),
                     used |-> IF full THEN c.r.used ELSE c.r.used + 1,
                     evict |-> IF full THEN (slot + 1) % ResidualCapacity
                               ELSE c.r.evict],
              s |-> [c.s EXCEPT ![slot] = [target |-> t, good |-> solve.good]]]

(* A hit of every target gathers from the cache; otherwise the view of the *)
(* solve is used and its missing targets are stored.                       *)
StoreResiduals ==
    /\ pc = "store"
    /\ provisional' = (solve.deferred /\ (Eligible \/ HasComponents))
    /\ LET c == FoldLeft(store_missing,
                         [r |-> residual, s |-> slab.residual], batch)
       IN  IF token /\ Eligible
           THEN residual' = c.r /\ slab' = [slab EXCEPT !.residual = c.s]
           ELSE UNCHANGED <<residual, slab>>
    /\ pc' = "components"
    /\ UNCHANGED <<batch, component, solve, found, inflight, token, ticket,
                   answer, deferred, rng, table, groups, cause>>

Touched(order, k) == <<k>> \o Remove(order, k)
lookup_hsic_component(c, t) ==
    IF t \in DOMAIN c.entries THEN [c EXCEPT !.order = Touched(@, t)] ELSE c

(* The component of a target is gathered from its cache slot, or built     *)
(* from the residual that was gathered or solved, before any is stored.    *)
Residual(t) == IF AllHit THEN slab.residual[residual.entries[t]]
               ELSE [target |-> t, good |-> solve.good]
Factor(t) == IF HasComponents /\ AllHit /\ t \in DOMAIN component.entries
             THEN slab.component[component.entries[t]] ELSE Residual(t)

(* reserve_hsic_component for one target, and the copy into the slot; a    *)
(* key that is already held is refused.                                    *)
reserve_hsic_component(c, t) ==
    IF t \in DOMAIN c.k.entries \/ c.duplicate
    THEN [c EXCEPT !.k.order = IF t \in DOMAIN c.k.entries /\ ~c.duplicate
                               THEN Touched(@, t) ELSE @,
                   !.duplicate = TRUE]
    ELSE LET full == c.k.used = ComponentCapacity
             slot == IF full THEN c.k.entries[Last(c.k.order)] ELSE c.k.used
         IN  [c EXCEPT
                !.k = [entries |-> With(IF full
                                        THEN Without(c.k.entries, Last(c.k.order))
                                        ELSE c.k.entries, t, slot),
                       order |-> <<t>> \o (IF full THEN Front(c.k.order)
                                           ELSE c.k.order),
                       used |-> IF full THEN c.k.used ELSE c.k.used + 1],
                !.s[slot] = Factor(t)]

(* The components of a group: only an all-hit group looks them up; a miss  *)
(* is stored when its residual was cached or is new.                       *)
Stored == SelectSeq(batch, LAMBDA t :
             IF AllHit THEN t \notin DOMAIN component.entries
             ELSE Eligible /\ t \notin found)
BuildComponents ==
    /\ pc = "components"
    /\ LET looked == IF AllHit THEN FoldLeft(lookup_hsic_component, component, batch)
                     ELSE component
           c == FoldLeft(reserve_hsic_component,
                         [k |-> looked, s |-> slab.component,
                          duplicate |-> FALSE], Stored)
       IN  IF ~HasComponents
           THEN ticket' = TRUE /\ pc' = "prepared" /\ UNCHANGED <<component, slab>>
           ELSE /\ component' = c.k
                /\ slab' = [slab EXCEPT !.component = c.s]
                /\ ticket' = ~c.duplicate
                /\ pc' = IF c.duplicate THEN "duplicate" ELSE "prepared"
    /\ factors' = [i \in DOMAIN batch |-> Factor(batch[i])]
    /\ UNCHANGED <<batch, residual, solve, found, inflight, token, provisional,
                   records, deferred, rng, table, groups, cause>>

Duplicate == pc = "duplicate" /\ PreparationFails("duplicate")

(* The ticket is returned: to execute_group, which goes on to the draws,   *)
(* or to run_full_cuda_ci_method_batch, which finalizes.                   *)
Prepared ==
    /\ pc = "prepared"
    /\ pc' = IF Overlaps THEN "permute" ELSE "finalize"
    /\ UNCHANGED <<batch, caches, work, answer, deferred, rng, table, groups, cause>>

SubmitThrows ==
    /\ pc \in {"submit", "solve", "store", "components", "prepared"}
    /\ PreparationFails("preparation")

-----------------------------------------------------------------------------
(* Permutations and finalization.                                          *)

Permute ==
    /\ pc = "permute"
    /\ rng' = IF Permutes THEN rng + 1 ELSE rng
    /\ table' = IF Permutes THEN "active" ELSE table
    /\ pc' = "seal"
    /\ UNCHANGED <<batch, caches, work, answer, deferred, groups, cause>>

Seal ==
    /\ pc = "seal"
    /\ table' = IF Permutes THEN "sealed" ELSE table
    /\ pc' = "request"
    /\ UNCHANGED <<batch, caches, work, answer, deferred, rng, groups, cause>>

(* The identities are built and validated; a held-back error is rethrown.  *)
Request ==
    /\ pc = "request"
    /\ IF deferred # "none"
       THEN Fails(deferred)
       ELSE /\ pc' = IF Overlaps THEN "finalize" ELSE "submit"
            /\ UNCHANGED <<batch, caches, work, answer, deferred, rng, table,
                           groups, cause>>

(* finalize_method_from_permutation: the ticket and the identities of the *)
(* request and of the table are validated again; a permutation method must *)
(* bring a sealed table, every other method none.                          *)
Attested == table = (IF Permutes THEN "sealed" ELSE "idle")
Attest ==
    /\ pc = "finalize"
    /\ IF ticket /\ Attested
       THEN /\ pc' = "evaluate"
            /\ UNCHANGED <<batch, caches, work, answer, deferred, rng, table,
                           groups, cause>>
       ELSE Fails("identity")

(* The pairs are evaluated from the components and the table, and their    *)
(* records copied out, behind the build on the same stream.                *)
Evaluate ==
    /\ pc = "evaluate"
    /\ records' = [of |-> factors, draws |-> rng]
    /\ pc' = "compact"
    /\ UNCHANGED <<batch, caches, work, factors, deferred, rng, table, groups,
                   cause>>

(* The solve is completed and its metadata compared with what was assumed; *)
(* from here on what it wrote into the caches may stay.                    *)
Accept ==
    /\ pc = "compact"
    /\ IF token => solve.good
       THEN /\ provisional' = FALSE /\ pc' = "accepted"
            /\ UNCHANGED <<batch, caches, solve, found, inflight, token, ticket,
                           answer, deferred, rng, table, groups, cause>>
       ELSE Fails("metadata")

(* The records are read, and the token and the context given back.         *)
Finalize ==
    /\ pc = "accepted"
    /\ token' = FALSE /\ inflight' = FALSE /\ ticket' = FALSE
    /\ pc' = "returned"
    /\ UNCHANGED <<batch, caches, solve, found, provisional, answer, deferred,
                   rng, table, groups, cause>>

(* The table goes back to its builder.                                     *)
Return ==
    /\ pc = "returned"
    /\ table' = IF Permutes THEN "idle" ELSE table
    /\ pc' = "checked"
    /\ UNCHANGED <<batch, caches, work, answer, deferred, rng, groups, cause>>

(* The group is booked and its records are read; one with a status, or     *)
(* with a p-value outside [0, 1], ends the call.                           *)
Answer ==
    /\ pc = "checked"
    /\ \/ /\ pc' = "group" /\ factors' = <<>> /\ records' = NoRecords
          /\ UNCHANGED <<batch, caches, work, deferred, rng, table, groups, cause>>
       \/ Fails("result")

Throws ==
    /\ pc \in {"seal", "request", "finalize", "evaluate", "compact",
              "accepted", "returned"}
    /\ Fails("checkpoint")

Ended == pc \in {"group", "failed"} /\ UNCHANGED vars

Step ==
    \/ execute_group \/ EarlyIdentity \/ Submit \/ Solve \/ StoreResiduals
    \/ BuildComponents \/ Duplicate \/ Prepared \/ SubmitThrows \/ Permute
    \/ Seal \/ Request \/ Attest \/ Evaluate \/ Accept \/ Finalize \/ Return \/ Answer
    \/ Throws

Next == (Step /\ UNCHANGED options) \/ Ended

Spec == Init /\ [][Next]_vars

-----------------------------------------------------------------------------
(* Between groups, and when the call has failed, every entry of either     *)
(* cache names a slot that holds its own key's payload from a solve that   *)
(* was found good: no result of a deferred solve that failed, or was never *)
(* completed, survives, and no evicted slot is still named.                *)
CachesTruthful ==
    pc \in {"group", "failed"} =>
        /\ \A t \in DOMAIN residual.entries :
              slab.residual[residual.entries[t]] = [target |-> t, good |-> TRUE]
        /\ \A t \in DOMAIN component.entries :
              slab.component[component.entries[t]] = [target |-> t, good |-> TRUE]

(* Where a group ends, in success or in any error of its request, its      *)
(* preparation or its solve, R's random stream has advanced by exactly the *)
(* groups begun: an error of the overlapped preparation costs as many      *)
(* draws as the same error without overlap.                                *)
DrawsIndependent ==
    Permutes /\ pc \in {"group", "failed"} => rng = groups

(* A group that has ended, in whatever way, leaves no call in flight on    *)
(* the execution context, no ticket and no residual token.                 *)
ContextReleased ==
    pc \in {"group", "failed"} => ~inflight /\ ~token /\ ~ticket /\ ~provisional

(* The records a group answers with were computed from each target's own   *)
(* residual or component, out of a solve that was found good and never out *)
(* of a slot that another key took over in the same group, and from the    *)
(* permutations drawn for this group.                                      *)
AnswersOwn ==
    pc \in {"returned", "checked"} =>
        /\ records.of = [i \in DOMAIN batch |-> [target |-> batch[i], good |-> TRUE]]
        /\ Permutes => records.draws = groups

(* A component that is built for the cache is not in the cache: the store  *)
(* after the build always inserts.                                         *)
StoreInserts == pc # "duplicate"
=============================================================================
