---------------------------- MODULE PreparedGcv -----------------------------
(***************************************************************************)
(* The persistent setups of the multi-penalty optimizer and the residual   *)
(* tokens they give out.  A setup has one output slot on the device; a     *)
(* batch that succeeds leases it to the token it returns, and the lease    *)
(* ends when that token is released, freed or destroyed.                   *)
(*                                                                         *)
(* The R thread makes one call at a time; only optimize_multi has threads. *)
(* A batch holds its setup's mutex from its first check to its return, so  *)
(* it is one step.                                                         *)
(***************************************************************************)
EXTENDS Naturals, Sequences, FiniteSets, SequencesExt

CONSTANTS
    Handles,        \* prepared setups
    Workers,        \* threads of an optimize_multi
    MaxTokens,      \* bound: tokens made in a behaviour
    MaxFailures     \* bound: batches that fail on the device

VARIABLES
    setup,      \* handle -> made, held, generation, leased, content of the slot
    token,      \* the tokens made so far
    call,       \* the optimize_multi in progress
    failures

vars == <<setup, token, call, failures>>

PreparedAssumption == IsFiniteSet(Handles)

SetupRecord == [made : BOOLEAN, held : BOOLEAN, generation : Nat,
                leased : BOOLEAN, content : Nat]
TokenRecord == [owner : Handles, generation : Nat, released : BOOLEAN,
                held : BOOLEAN]
CallRecord == [requests : Seq(Handles), next : Nat, cancelled : BOOLEAN,
               error : BOOLEAN, setups : Seq(Nat), claim : [Workers -> Nat]]

TypeOK ==
    /\ setup \in [Handles -> SetupRecord]
    /\ token \in Seq(TokenRecord)
    /\ call \in CallRecord
    /\ failures \in Nat

NoCall == [requests |-> <<>>, next |-> 1, cancelled |-> FALSE, error |-> FALSE,
           setups |-> <<>>, claim |-> [w \in Workers |-> 0]]
Garbage == 0

Init ==
    /\ setup = [h \in Handles |-> [made |-> FALSE, held |-> FALSE, generation |-> 0,
                                   leased |-> FALSE, content |-> Garbage]]
    /\ token = <<>>
    /\ call = NoCall
    /\ failures = 0

Idle == call = NoCall

(* The setup is uploaded and its slot allocated before anybody sees it.    *)
prepared_create(h) ==
    /\ Idle
    /\ ~setup[h].made
    /\ setup' = [setup EXCEPT ![h].made = TRUE, ![h].held = TRUE]
    /\ UNCHANGED <<token, call, failures>>

(* A batch that runs to its end: the slot is written, the generation moves *)
(* on and the slot is leased to the new token.                             *)
Leased(h) ==
    LET g == setup[h].generation + 1 IN
    /\ Len(token) < MaxTokens
    /\ setup' = [setup EXCEPT ![h] = [@ EXCEPT !.generation = g, !.leased = TRUE,
                                               !.content = g]]
    /\ token' = Append(token, [owner |-> h, generation |-> g, released |-> FALSE,
                               held |-> TRUE])
    /\ UNCHANGED failures

(* One that fails on the way has written what it has written.              *)
Spoiled(h) ==
    /\ failures < MaxFailures
    /\ failures' = failures + 1
    /\ setup' = [setup EXCEPT ![h].content = Garbage]
    /\ UNCHANGED token

(* What the three operations that fill a slot share: a slot that is leased *)
(* is refused before it is touched.                                        *)
Batch(h) ==
    /\ Idle
    /\ setup[h].held
    /\ ~setup[h].leased
    /\ Leased(h) \/ Spoiled(h)
    /\ UNCHANGED call

optimize_batch(h) == Batch(h)
evaluate_fixed_batch(h) == Batch(h)
finalize_selected_coefficients(h) == Batch(h)

(* prepared_free drops the caller's reference; tokens keep theirs.         *)
prepared_free(h) ==
    /\ Idle
    /\ setup[h].held
    /\ setup' = [setup EXCEPT ![h].held = FALSE]
    /\ UNCHANGED <<token, call, failures>>

-----------------------------------------------------------------------------
(* The end of a lease: only the token of the slot's generation frees it.   *)

Unleased(k, s) ==
    IF token[k].released \/ s[token[k].owner].generation # token[k].generation
    THEN s
    ELSE [s EXCEPT ![token[k].owner].leased = FALSE]

residual_release(k) ==
    /\ Idle
    /\ token[k].held
    /\ setup' = Unleased(k, setup)
    /\ token' = [token EXCEPT ![k].released = TRUE]
    /\ UNCHANGED <<call, failures>>

(* residual_free and the finalizer of the collected handle.                *)
residual_free(k) ==
    /\ Idle
    /\ token[k].held
    /\ setup' = Unleased(k, setup)
    /\ token' = [token EXCEPT ![k].released = TRUE, ![k].held = FALSE]
    /\ UNCHANGED <<call, failures>>

-----------------------------------------------------------------------------
(* optimize_multi: distinct, free setups; the workers claim the requests   *)
(* in order until one fails.                                               *)

optimize_multi(requests) ==
    /\ Idle
    /\ IsInjective(requests)
    /\ \A i \in DOMAIN requests : setup[requests[i]].held /\ ~setup[requests[i]].leased
    /\ call' = [NoCall EXCEPT !.requests = requests,
                              !.setups = [i \in DOMAIN requests |-> 0]]
    /\ UNCHANGED <<setup, token, failures>>

Working(w) == ~Idle /\ call.claim[w] = 0

Claim(w) ==
    /\ Working(w)
    /\ ~call.cancelled
    /\ call.next <= Len(call.requests)
    /\ call' = [call EXCEPT !.claim[w] = call.next, !.next = @ + 1]
    /\ UNCHANGED <<setup, token, failures>>

Run(w) ==
    LET i == call.claim[w] IN
    /\ i > 0
    /\ \/ /\ Leased(call.requests[i])
          /\ call' = [call EXCEPT !.claim[w] = 0, !.setups[i] = Len(token) + 1]
       \/ /\ Spoiled(call.requests[i])
          /\ call' = [call EXCEPT !.claim[w] = 0, !.error = TRUE, !.cancelled = TRUE]

(* All workers have left their loop.                                       *)
Joined ==
    /\ ~Idle
    /\ \A w \in Workers : call.claim[w] = 0
    /\ call.cancelled \/ call.next > Len(call.requests)

Results == {call.setups[i] : i \in DOMAIN call.setups} \ {0}

MutDropped ==
    /\ setup' = setup
    /\ token' = [k \in DOMAIN token |->
          IF k \in Results THEN [token[k] EXCEPT !.held = FALSE] ELSE token[k]]

(* An error rethrown destroys the results and with them their tokens.      *)
Dropped ==
    /\ setup' = [h \in Handles |->
          IF \E k \in Results : token[k].owner = h /\ ~token[k].released
                                /\ token[k].generation = setup[h].generation
          THEN [setup[h] EXCEPT !.leased = FALSE] ELSE setup[h]]
    /\ token' = [k \in DOMAIN token |->
          IF k \in Results THEN [token[k] EXCEPT !.released = TRUE, !.held = FALSE]
          ELSE token[k]]

Return ==
    /\ Joined
    /\ IF call.error THEN Dropped ELSE UNCHANGED <<setup, token>>
    /\ call' = NoCall
    /\ UNCHANGED failures

Next ==
    \/ \E h \in Handles :
          \/ prepared_create(h) \/ prepared_free(h)
          \/ optimize_batch(h) \/ evaluate_fixed_batch(h)
          \/ finalize_selected_coefficients(h)
    \/ \E k \in DOMAIN token : residual_release(k) \/ residual_free(k)
    \/ \E requests \in BoundedSeq(Handles, Cardinality(Handles)) \ {<<>>} :
          optimize_multi(requests)
    \/ \E w \in Workers : Claim(w) \/ Run(w)
    \/ Return

Spec == Init /\ [][Next]_vars

-----------------------------------------------------------------------------
(* require_live_multi_penalty_residual                                     *)
Live(t) ==
    /\ t.held /\ ~t.released
    /\ setup[t.owner].generation = t.generation
    /\ setup[t.owner].leased

(* A slot is leased exactly while somebody holds an unreleased token of    *)
(* its generation: neither a failed optimize_multi nor a late release of   *)
(* an earlier token leaves it busy for ever or frees it early.             *)
LeaseIsHeld ==
    \A h \in Handles :
        setup[h].leased <=>
            Cardinality({k \in DOMAIN token :
                /\ token[k].owner = h
                /\ token[k].held /\ ~token[k].released
                /\ token[k].generation = setup[h].generation}) = 1

(* acquire_multi_penalty_gcv_cuda_residual_consumer_view: what an          *)
(* unreleased token gives its consumer is what its own batch wrote,        *)
(* whatever batches failed or were refused since, and after the setup's    *)
(* own handle was freed.                                                   *)
TokenReadsOwn ==
    \A k \in DOMAIN token :
        token[k].held /\ ~token[k].released =>
            Live(token[k]) /\ setup[token[k].owner].content = token[k].generation
=============================================================================
