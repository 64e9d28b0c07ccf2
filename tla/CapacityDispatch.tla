-------------------------- MODULE CapacityDispatch --------------------------
(* The dispatcher in front of the compiled multi-penalty backends, with    *)
(* the callers that open and close setups through it: the windows of a     *)
(* level, the level-2 component prefill, the optimizer slots and the       *)
(* qualification entry point.  A caller is a program of steps; the backend *)
(* may throw at each of them, and the caller's own catch block, if it has  *)
(* one, then runs with the same calls.                                     *)
EXTENDS Integers, Sequences, FiniteSets, SequencesExt, FiniteSetsExt

CONSTANTS
    Tasks,      \* the calls made, as records
    Flags,      \* values of FASTKPC_DCC_GAMMA_VECTOR_POSTBACK tried
    MaxFaults   \* bound on the backend calls that throw

VARIABLES
    task, flag,
    step,       \* the next step of the program
    outcome,    \* "running", "catching", "ok", "refused", "thrown"
    setups,     \* prepared setups made: [q, backend, capacity, leased, live]
    handle,     \* context -> its setup, 0 for none
    tokens,     \* residuals given out: [setup, backend, targets, live]
    counts,     \* postback_counts, by mode
    detached,   \* targets whose residuals the level's arena has copied
    faults

vars == <<task, flag, step, outcome, setups, handle, tokens, counts, detached,
          faults>>

-----------------------------------------------------------------------------
(* Shapes and backends.                                                    *)

Buckets == <<[name |-> "Small64", q |-> 64, penalties |-> 7, setups |-> 64],
             [name |-> "Base80", q |-> 80, penalties |-> 8, setups |-> 64],
             [name |-> "Extended192", q |-> 192, penalties |-> 21, setups |-> 8],
             [name |-> "Extended384", q |-> 384, penalties |-> 42, setups |-> 2],
             [name |-> "Extended559", q |-> 559, penalties |-> 62, setups |-> 1]>>

MutFitting(q, p) ==
    {i \in DOMAIN Buckets : q < Buckets[i].q /\ p <= Buckets[i].penalties}

Fitting(q, p) ==
    {i \in DOMAIN Buckets : q <= Buckets[i].q /\ p <= Buckets[i].penalties}

\* multi_penalty_gcv_capacity_bucket: the first that is large enough, for
\* the shapes inside the envelope; the others are refused.
Enveloped(q, p) == q > 0 /\ p > 0 /\ Fitting(q, p) # {}
capacity_bucket(q, p) == Buckets[Min(Fitting(q, p))]

maximum_concurrency(q, p) == capacity_bucket(q, p).setups

\* An unset, an empty and a "0" flag are the same; anything but "1" throws.
vector_postback_requested == flag = "1"

Postback == "postback64"
Backend(q, p) ==
    IF /\ capacity_bucket(q, p).name = "Small64" /\ q \in {37, 46}
       /\ vector_postback_requested
    THEN Postback ELSE capacity_bucket(q, p).name
Mode(backend) == IF backend = Postback THEN 1 ELSE 0

\* The native smooths: one thin-plate smooth up to two conditioning
\* variables, one univariate smooth for each from three on.
LevelShape(level) ==
    CASE level = 1 -> <<10, 1>>
      [] level = 2 -> <<30, 1>>
      [] OTHER -> <<1 + 9 * level, level>>

\* FixedSpRuntimePool::runtime_for: runtimes are kept by capacity in q.
runtime_for(q, p) ==
    IF q <= 64 /\ p <= 7 THEN [null_dim |-> 64, penalty_count |-> 7]
    ELSE [null_dim |-> capacity_bucket(q, p).q,
          penalty_count |-> capacity_bucket(q, p).penalties]

-----------------------------------------------------------------------------
(* Programs. A step is a record of what it does and on which context.      *)

Ensure(c, k) == [do |-> "ensure", context |-> c, size |-> k]
Create(c, k) == [do |-> "create", context |-> c, size |-> k]
Optimize(c, T) == [do |-> "optimize", context |-> c, targets |-> T]
Evaluate(c, T) == [do |-> "evaluate", context |-> c, targets |-> T]
Finalize(c, T) == [do |-> "finalize", context |-> c, targets |-> T]
Multi(W, retain) == [do |-> "multi", window |-> W, retain |-> retain]
Rebind(c) == [do |-> "rebind", context |-> c]
Drain(c) == [do |-> "drain", context |-> c]
Read(c) == [do |-> "read", context |-> c]
Store(c) == [do |-> "store", context |-> c]
Release(c) == [do |-> "release", context |-> c]
Close(c) == [do |-> "close", context |-> c]
Drop(c) == [do |-> "drop", context |-> c]

\* A conditioning set whose targets are optimized: at most 16 targets are
\* evaluated at a time, in the fewest cohorts, as even as they can be.
Width == 16
CohortCount(total) == (total + Width - 1) \div Width
CohortCapacity(total) == (total + CohortCount(total) - 1) \div CohortCount(total)
CohortSize(total, i) ==
    total \div CohortCount(total)
    + IF i <= total % CohortCount(total) THEN 1 ELSE 0
Cohort(total, i) ==
    LET offset == MapThenSumSet(LAMBDA j : CohortSize(total, j), 1 .. (i - 1))
    IN  [k \in 1 .. CohortSize(total, i) |-> offset + k]

Cohorts(total) == [i \in 1 .. CohortCount(total) |-> Cohort(total, i)]

\* prefill_single_penalty_components
Components(t) ==
    <<Ensure(1, CohortCapacity(t.total))>>
    \o FlattenSeq([i \in DOMAIN Cohorts(t.total) |->
           <<Evaluate(1, Cohorts(t.total)[i]), Read(1), Store(1), Release(1)>>])
    \o <<Close(1)>>

\* The level's component stage after a window or a slot: the coefficients
\* are there, only the residuals are materialized.
StageA(t, c) ==
    IF t.level < 3 THEN <<>>
    ELSE FlattenSeq([i \in DOMAIN Cohorts(t.total) |->
             <<Finalize(c, Cohorts(t.total)[i]), Read(c), Store(c), Release(c)>>])

AllTargets(t) == [k \in 1 .. t.total |-> k]

\* A slot of levels 3 to 6 is one setup bound to geometry after geometry;
\* its coefficients are detached before the residual is given back.
SlotTargets(level) ==
    CASE level = 3 -> 33 [] level = 4 -> 18 [] level = 5 -> 8 [] level = 6 -> 5

Slot(t) ==
    <<Create(1, SlotTargets(t.level)), Optimize(1, AllTargets(t)), Read(1), Release(1)>>
    \o StageA(t, 1)
    \o <<Rebind(1), Optimize(1, AllTargets(t)), Read(1), Release(1)>>
    \o StageA(t, 1)
    \o <<Drain(1), Drop(1)>>

\* A window opens one setup for each of its contexts.  With the coefficient
\* arena the residuals are kept until their coefficients are detached.
Requests(t) == [c \in 1 .. t.width |-> [context |-> c, targets |-> AllTargets(t)]]
LevelWindow(t) == 1 .. t.width

Window(t) ==
    [c \in LevelWindow(t) |-> Ensure(c, t.total)]
    \o <<Multi(Requests(t), t.retain)>>
    \o (IF t.retain
        THEN FlattenSeq([c \in LevelWindow(t) |-> <<Read(c), Release(c)>>])
             \o FlattenSeq([c \in LevelWindow(t) |-> StageA(t, c)])
        ELSE <<>>)
    \o [c \in LevelWindow(t) |-> Close(c)]

\* A group that is not prefilled is optimized, then evaluated.
Group(t) ==
    <<Ensure(1, t.total), Optimize(1, AllTargets(t)), Release(1),
      Ensure(1, t.total), Evaluate(1, AllTargets(t)), Read(1), Release(1),
      Close(1)>>

\* C_full_cuda_ci_multi_penalty_capacity_qualify
Qualify(t) ==
    <<Create(1, t.total),
      Optimize(1, AllTargets(t)), Read(1), Release(1),
      Evaluate(1, AllTargets(t)), Read(1), Release(1), Drop(1)>>

Program(t) ==
    CASE t.kind = "components" -> Components(t)
      [] t.kind = "slot" -> Slot(t)
      [] t.kind = "window" -> Window(t)
      [] t.kind = "group" -> Group(t)
      [] t.kind = "qualify" -> Qualify(t)

-----------------------------------------------------------------------------

Contexts == 1 .. 4
NoCounts == [created |-> 0, destroyed |-> 0, optimized |-> 0, q37 |-> 0,
             q46 |-> 0, other |-> 0, fixed |-> 0, finalized |-> 0]

Init ==
    /\ task \in Tasks /\ flag \in Flags
    /\ step = 1 /\ outcome = "running"
    /\ setups = <<>> /\ tokens = <<>>
    /\ handle = [c \in Contexts |-> 0]
    /\ counts = <<NoCounts, NoCounts>>
    /\ detached = <<>> /\ faults = 0

Q == LevelShape(task.level)[1]
P == LevelShape(task.level)[2]
S(c) == setups[handle[c]]

\* The one residual a context has given out and not taken back.
LiveTokens(c) ==
    {k \in DOMAIN tokens : tokens[k].live /\ tokens[k].setup = handle[c]}
Token(c) == CHOOSE k \in LiveTokens(c) : TRUE

\* What each step insists on.  A setup takes a batch that fits it when its
\* one slot is free; the backends of a window must all be that of its first
\* request; a residual is asked of the backend that made it; a handle stays
\* while a residual is out; the slot calls know the backends of their shape.
FlagValid == flag \in {"", "0", "1"}
Accepted == Enveloped(Q, P) /\ FlagValid
Takes(c, T) == ~S(c).leased /\ Len(T) <= S(c).capacity
Mixed(W) ==
    \E i \in DOMAIN W : S(W[i].context).backend # S(W[1].context).backend
Held(c) ==
    /\ LiveTokens(c) # {}
    /\ tokens[Token(c)].backend = S(c).backend
SlotBackends == IF Q \in {37, 46} THEN {"Small64", Postback} ELSE {"Small64"}

Insists(s) ==
    CASE s.do = "create" -> Accepted
      [] s.do = "ensure" ->
             /\ s.size \in 2 .. 64
             /\ \/ handle[s.context] # 0 /\ S(s.context).capacity >= s.size
                \/ Accepted /\ LiveTokens(s.context) = {}
      [] s.do \in {"optimize", "evaluate", "finalize"} -> Takes(s.context, s.targets)
      [] s.do = "multi" ->
             /\ ~Mixed(s.window)
             /\ \A r \in ToSet(s.window) : Takes(r.context, r.targets)
      [] s.do \in {"read", "store", "release"} -> Held(s.context)
      [] s.do \in {"rebind", "drain"} ->
             S(s.context).backend \in SlotBackends /\ LiveTokens(s.context) = {}
      [] s.do = "close" -> handle[s.context] # 0 => ~S(s.context).leased
      [] s.do = "drop" -> TRUE

Now == Program(task)[step]
Running == outcome = "running" /\ step \in DOMAIN Program(task)
At(what) ==
    /\ Running /\ Now.do = what /\ Insists(Now)
    /\ step' = step + 1
    /\ UNCHANGED <<task, flag, outcome, faults>>

Count(m, field, k) == [counts EXCEPT ![m + 1][field] = @ + k]

\* A setup dies with its handle; the residuals still out are dead by then.
Destroyed(c, n) ==
    IF handle[c] = 0 THEN n
    ELSE [n EXCEPT ![Mode(S(c).backend) + 1].destroyed = @ + 1]
Buried(c) ==
    IF handle[c] = 0 THEN setups ELSE [setups EXCEPT ![handle[c]].live = FALSE]

Made(c, k, old, n) ==
    /\ setups' = Append(old, [q |-> Q, backend |-> Backend(Q, P),
                              capacity |-> k, leased |-> FALSE, live |-> TRUE])
    /\ handle' = [handle EXCEPT ![c] = Len(old) + 1]
    /\ counts' = [n EXCEPT ![Mode(Backend(Q, P)) + 1].created = @ + 1]

\* create_multi_penalty_gcv_capacity_prepared
create_prepared ==
    /\ At("create")
    /\ Made(Now.context, Now.size, setups, counts)
    /\ UNCHANGED <<tokens, detached>>

\* A handle that is large enough stays; a smaller one goes first.
ensure_handle ==
    LET c == Now.context IN
    /\ At("ensure")
    /\ IF handle[c] # 0 /\ S(c).capacity >= Now.size
       THEN UNCHANGED <<setups, handle, counts>>
       ELSE Made(c, Now.size, Buried(c), Destroyed(c, counts))
    /\ UNCHANGED <<tokens, detached>>

\* What the operations that fill the slot share.
Fill(c, T) ==
    /\ setups' = [setups EXCEPT ![handle[c]].leased = TRUE]
    /\ tokens' = Append(tokens, [setup |-> handle[c], backend |-> S(c).backend,
                                 targets |-> T, live |-> TRUE])
    /\ UNCHANGED <<handle, detached>>

Recorded(n, backend, k) ==
    LET by == CASE Q = 37 -> "q37" [] Q = 46 -> "q46" [] OTHER -> "other"
    IN  [n EXCEPT ![Mode(backend) + 1].optimized = @ + k,
                  ![Mode(backend) + 1][by] = @ + k]

optimize_batch ==
    /\ At("optimize") /\ Fill(Now.context, Now.targets)
    /\ counts' = Recorded(counts, S(Now.context).backend, Len(Now.targets))

evaluate_fixed_batch ==
    /\ At("evaluate") /\ Fill(Now.context, Now.targets)
    /\ counts' = Count(Mode(S(Now.context).backend), "fixed", Len(Now.targets))

finalize_selected_coefficients ==
    /\ At("finalize") /\ Fill(Now.context, Now.targets)
    /\ counts' = Count(Mode(S(Now.context).backend), "finalized",
                       Len(Now.targets))

\* run_multi_backend: the residuals are kept, or released one by one, and
\* a request is counted when its residual is dealt with.
RecordedUpTo(W, n) ==
    FoldLeft(LAMBDA all, r : Recorded(all, S(r.context).backend, Len(r.targets)),
             counts, SubSeq(W, 1, n))

optimize_multi ==
    LET W == Now.window
        h(i) == handle[W[i].context]
    IN
    /\ At("multi")
    /\ IF Now.retain
       THEN /\ tokens' = tokens \o [i \in DOMAIN W |->
                   [setup |-> h(i), backend |-> setups[h(i)].backend,
                    targets |-> W[i].targets, live |-> TRUE]]
            /\ setups' = [s \in DOMAIN setups |->
                   IF \E i \in DOMAIN W : h(i) = s
                   THEN [setups[s] EXCEPT !.leased = TRUE] ELSE setups[s]]
       ELSE UNCHANGED <<tokens, setups>>
    /\ counts' = RecordedUpTo(W, Len(W))
    /\ UNCHANGED <<handle, detached>>

rebind_slot ==
    /\ At("rebind") /\ UNCHANGED <<setups, handle, tokens, counts, detached>>

drain_slot ==
    /\ At("drain") /\ UNCHANGED <<setups, handle, tokens, counts, detached>>

\* Information, consumer view and shadow.
residual_consumer_view ==
    /\ At("read") /\ UNCHANGED <<setups, handle, tokens, counts, detached>>

\* The copy is complete when the store returns.
store_residual ==
    /\ At("store")
    /\ detached' = detached \o tokens[Token(Now.context)].targets
    /\ UNCHANGED <<setups, handle, tokens, counts>>

Freed(k) ==
    /\ tokens' = [tokens EXCEPT ![k].live = FALSE]
    /\ setups' = [setups EXCEPT ![tokens[k].setup].leased = FALSE]

release_residual ==
    /\ At("release") /\ Freed(Token(Now.context))
    /\ UNCHANGED <<handle, counts, detached>>

\* release_multi_penalty_handle
Closed(c) ==
    /\ setups' = Buried(c) /\ counts' = Destroyed(c, counts)
    /\ handle' = [handle EXCEPT ![c] = 0]

release_handle ==
    /\ At("close") /\ Closed(Now.context) /\ UNCHANGED <<tokens, detached>>

drop_prepared ==
    /\ At("drop") /\ Closed(Now.context) /\ UNCHANGED <<tokens, detached>>

-----------------------------------------------------------------------------
(* Faults and catch blocks.                                                *)

\* A step is refused, or the backend throws; a call that fills the slot
\* leaves no residual, a window may have counted its first requests.
Throw ==
    /\ Running
    /\ \/ ~Insists(Now) /\ UNCHANGED <<faults, counts>>
       \/ /\ Insists(Now) /\ faults < MaxFaults /\ faults' = faults + 1
          /\ IF Now.do = "multi" /\ ~Now.retain
             THEN \E n \in 0 .. Len(Now.window) - 1 :
                      counts' = RecordedUpTo(Now.window, n)
             ELSE UNCHANGED counts
    /\ outcome' = "catching"
    /\ UNCHANGED <<task, flag, step, setups, handle, tokens, detached>>

\* The catch block releases what is out; a release that throws again is
\* swallowed, and the residual goes with the frame all the same.
CatchResidual ==
    /\ outcome = "catching"
    /\ \E k \in DOMAIN tokens : tokens[k].live /\ Freed(k)
    /\ UNCHANGED <<task, flag, step, outcome, handle, counts, detached, faults>>

\* Then the handles: one whose residual is out would be kept.
CatchHandle ==
    /\ outcome = "catching"
    /\ \A k \in DOMAIN tokens : ~tokens[k].live
    /\ \E c \in Contexts : handle[c] # 0 /\ ~S(c).leased /\ Closed(c)
    /\ UNCHANGED <<task, flag, step, outcome, tokens, detached, faults>>

Rethrow ==
    /\ outcome = "catching"
    /\ \A k \in DOMAIN tokens : ~tokens[k].live
    /\ \A c \in Contexts : handle[c] # 0 => S(c).leased
    /\ outcome' = "thrown"
    /\ UNCHANGED <<task, flag, step, setups, handle, tokens, counts, detached,
                   faults>>

Finish ==
    /\ outcome = "running" /\ step = Len(Program(task)) + 1
    /\ outcome' = "ok"
    /\ UNCHANGED <<task, flag, step, setups, handle, tokens, counts, detached,
                   faults>>

Next ==
    \/ create_prepared \/ ensure_handle \/ optimize_batch
    \/ evaluate_fixed_batch \/ finalize_selected_coefficients \/ optimize_multi
    \/ rebind_slot \/ drain_slot \/ residual_consumer_view \/ store_residual
    \/ release_residual \/ release_handle \/ drop_prepared
    \/ Throw \/ CatchResidual \/ CatchHandle \/ Rethrow \/ Finish

Spec == Init /\ [][Next]_vars

-----------------------------------------------------------------------------

(* No caller asks the dispatcher for what it refuses: every level a        *)
(* default call reaches has a backend and a runtime that is large enough,  *)
(* a window's setups have one backend whatever the flag, the slot a batch  *)
(* needs is free and a handle that is closed has no residual out.          *)
NeverRefused ==
    FlagValid =>
        /\ Running => Insists(Now)
        /\ Enveloped(Q, P)
        /\ runtime_for(Q, P).null_dim >= Q /\ runtime_for(Q, P).penalty_count >= P

(* However a caller ends, no setup and no residual stays, and the counters *)
(* say so; no batch is counted twice or under two shapes.                  *)
Live(m) == {s \in DOMAIN setups : setups[s].live /\ Mode(setups[s].backend) = m}
NothingKept ==
    /\ outcome \in {"ok", "thrown"} =>
          /\ \A k \in DOMAIN tokens : ~tokens[k].live
          /\ \A s \in DOMAIN setups : ~setups[s].live /\ ~setups[s].leased
    /\ \A m \in {0, 1} :
          LET n == counts[m + 1] IN
          /\ n.created - n.destroyed = Cardinality(Live(m))
          /\ n.optimized = n.q37 + n.q46 + n.other

(* The residuals of every target are detached once per binding, in order.  *)
Expected(t) ==
    CASE t.kind = "components" -> AllTargets(t)
      [] t.kind = "slot" -> AllTargets(t) \o AllTargets(t)
      [] t.kind = "window" /\ t.retain /\ t.level >= 3 ->
             FlattenSeq([c \in LevelWindow(t) |-> AllTargets(t)])
      [] OTHER -> <<>>
DetachedOnce == outcome = "ok" => detached = Expected(task)
=============================================================================
