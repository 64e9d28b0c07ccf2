----------------------------- MODULE PhaseBatch -----------------------------
(* One call of the stand-alone pair evaluators of                          *)
(* cuda/full_cuda_ci_vertical.cu: the vertical prototype with its eviction *)
(* replay, the exact and the legacy-eig batches, and the two comparisons   *)
(* of residual batches.  The host runs the steps of a program; what it     *)
(* launches waits in the consumer's stream; any CUDA call may throw, and   *)
(* then the destructors and the catch block clean up.  The residuals are   *)
(* the call's own (solved here, under a token) or lent by the caller, who  *)
(* may free them as soon as the call has ended.                            *)
(*                                                                         *)
(* External, as the code relies on it: cudaFree waits for the device, a    *)
(* copy to pageable host memory returns when it is complete, destroying a  *)
(* stream or an event does not wait.                                       *)
EXTENDS Integers, FiniteSets, SequencesExt

CONSTANT
    Calls       \* the calls made, as records

VARIABLES
    call,       \* the call running
    step,       \* the next step of its program
    outcome,    \* "running", "unwinding", "ok", "thrown", "refused"
    queue,      \* what the consumer's stream has still to do
    produced,   \* the residual batches the producers have completed
    held,       \* whether the residual storage is still there
    memory,     \* what the device buffers hold
    live,       \* streams and buffers in the order of their construction
    registered, \* whether the token waits for the consumer
    host,       \* the results copied back, one per evaluation
    selected,   \* the current CUDA device
    peak        \* most buffers live at once

vars == <<call, step, outcome, queue, produced, held, memory, live,
          registered, host, selected, peak>>

Names == {"left", "right", "components", "metadata", "result"}
Comparisons == {"parity", "identity"}

-----------------------------------------------------------------------------
(* A request names targets by ordinal and is signed: its identity is a     *)
(* digest of the keys these ordinals meant when it was made.               *)

Pairs(c) == c.request.pairs

Referenced(c) == UNION {{p.left, p.right} : p \in ToSet(Pairs(c))}

Ordinals(c, p) ==
    p.left # p.right /\ {p.left, p.right} \subseteq DOMAIN c.keys

\* The R list: whole positive numbers, one pair or columns of equal length.
parse_vertical_request(r) ==
    Len(r.pairs) = 1 /\ r.pairs[1].id > 0 /\ r.pairs[1].left > 0
                     /\ r.pairs[1].right > 0
parse_exact_batch_request(r) ==
    /\ r.pairs # <<>> /\ r.capacity > 0
    /\ \A p \in ToSet(r.pairs) : p.id > 0 /\ p.left > 0 /\ p.right > 0
parse_legacy_eig_batch_request(r) ==
    parse_exact_batch_request(r) /\ r.columns > 0

\* full_cuda_ci_vertical_request_identity, full_cuda_ci_exact_batch_request_
\* identity and full_cuda_ci_legacy_eig_batch_request_identity: they refuse,
\* then digest. "refused" stands for the exception.
vertical_request_identity(c, keys) ==
    LET p == Pairs(c)[1]
    IN  IF ~Ordinals(c, p) THEN "refused"
                           ELSE <<p.id, keys[p.left], keys[p.right]>>

exact_batch_request_identity(c, keys) ==
    IF \/ Len(keys) < 2 \/ ~IsInjective(keys)
       \/ c.request.capacity \notin 2 .. Len(keys)
       \/ \E i \in DOMAIN Pairs(c) :
             \/ ~Ordinals(c, Pairs(c)[i])
             \/ i > 1 /\ Pairs(c)[i].id <= Pairs(c)[i - 1].id
       \/ Cardinality(Referenced(c)) > c.request.capacity
    THEN "refused"
    ELSE <<c.request.capacity, keys,
           [i \in DOMAIN Pairs(c) |->
               LET p == Pairs(c)[i] IN <<p.id, keys[p.left], keys[p.right]>>]>>

CanonicalColumns == 35
legacy_eig_batch_request_identity(c, keys) ==
    IF c.request.columns # CanonicalColumns THEN "refused"
    ELSE exact_batch_request_identity(c, keys)

Authentic(c, Digest(_, _)) ==
    /\ c.prepared
    /\ Digest(c, c.keys) # "refused"
    /\ Digest(c, c.keys) = Digest(c, c.request.signed)

\* The targets both batches have, by the left ordinals. (The right index.)
Matched(c) == SelectSeq([i \in DOMAIN c.keys |-> i],
                        LAMBDA i : c.keys[i] \in ToSet(c.other))
RightIndex(c, i) == CHOOSE j \in DOMAIN c.other : c.other[j] = c.keys[i]

\* The entry points: a call that lends its residuals takes the keys from
\* them, the others are given keys and must not repeat one.
VerticalEntry(c) ==
    /\ IsInjective(c.keys) /\ parse_vertical_request(c.request)
    /\ Authentic(c, vertical_request_identity)
ExactEntry(c) ==
    /\ c.lent \/ IsInjective(c.keys)
    /\ parse_exact_batch_request(c.request)
    /\ Authentic(c, exact_batch_request_identity)
LegacyEntry(c) ==
    /\ c.lent \/ IsInjective(c.keys)
    /\ parse_legacy_eig_batch_request(c.request)
    /\ Authentic(c, legacy_eig_batch_request_identity)
ParityEntry(c) == c.keys = c.other
IdentityEntry(c) == IsInjective(c.other) /\ Matched(c) # <<>>

\* A consumer's view is refused of a batch in which some fit failed.
residual_consumer_view(c) == ~c.failed

Accepted(c) ==
    /\ c.lent => residual_consumer_view(c)
    /\ CASE c.kind = "vertical" -> VerticalEntry(c)
         [] c.kind = "exact" -> ExactEntry(c)
         [] c.kind = "legacy" -> LegacyEntry(c)
         [] c.kind = "parity" -> ParityEntry(c)
         [] c.kind = "identity" -> IdentityEntry(c)

-----------------------------------------------------------------------------
(* The programs. A step is <<what, where>> or carries the operation it     *)
(* appends to the stream.                                                  *)

Open == <<"open", "stream">>
Allocate(b) == <<"allocate", b>>
Close(b) == <<"close", b>>
Read == <<"read", "result">>
Register == <<"register", "">>
Sync == <<"sync", "">>
Enqueue(op) == <<"enqueue", op>>
After(r) == Enqueue([do |-> "after", residual |-> r])
Upload(value) == Enqueue([do |-> "upload", at |-> "metadata", value |-> value])
Build(b, r, columns) ==
    Enqueue([do |-> "build", at |-> b, residual |-> r, columns |-> columns])
Gather(b, r, field) ==
    Enqueue([do |-> "gather", at |-> b, residual |-> r, field |-> field])
Elementwise == Enqueue([do |-> "elementwise", at |-> "result"])
Indexed == Enqueue([do |-> "indexed", at |-> "result"])
Compare == Enqueue([do |-> "compare", at |-> "result"])

\* Components are numbered in the order of the targets referenced.
ComponentTargets(c) ==
    SelectSeq([t \in DOMAIN c.keys |-> t], LAMBDA t : t \in Referenced(c))
ComponentOf(c, t) == Cardinality({u \in Referenced(c) : u <= t})

Metadata(c) ==
    [targets |-> ComponentTargets(c),
     pairs |-> [i \in DOMAIN Pairs(c) |->
                   <<ComponentOf(c, Pairs(c)[i].left),
                     ComponentOf(c, Pairs(c)[i].right)>>]]

build_component(side, t) == <<Allocate(side), Build(side, 1, <<t>>)>>

evaluate_pair == <<Elementwise, Read>>

Solve(c) == IF c.lent THEN <<>> ELSE << <<"solve", "">> >>
Registered(c) == IF c.lent THEN <<>> ELSE <<Register>>
Released(c) == IF c.lent THEN <<>> ELSE << <<"release", "">> >>
Restore == << <<"restore", "">> >>

MutVertical(c) ==
    LET p == Pairs(c)[1]
    IN  Solve(c) \o <<Open, After(1), Allocate("result")>>
        \o build_component("left", p.left) \o build_component("right", p.right)
        \o evaluate_pair \o <<Sync>>
        \o build_component("right", p.right) \o build_component("left", p.left)
        \o evaluate_pair \o Registered(c)
        \o <<Sync, Close("left"), Close("right"), Close("result"),
             Close("stream")>>
        \o Released(c) \o Restore

\* The components are evicted and built again in the other order, and the
\* consumer is registered only with the second evaluation.
Vertical(c) ==
    LET p == Pairs(c)[1]
    IN  Solve(c) \o <<Open, After(1), Allocate("result")>>
        \o build_component("left", p.left) \o build_component("right", p.right)
        \o evaluate_pair \o <<Sync, Close("left"), Close("right")>>
        \o build_component("right", p.right) \o build_component("left", p.left)
        \o evaluate_pair \o Registered(c)
        \o <<Sync, Close("left"), Close("right"), Close("result"),
             Close("stream")>>
        \o Released(c) \o Restore

ExactBatch(c) ==
    Solve(c)
    \o <<Open, After(1), Allocate("components"), Allocate("metadata"),
         Allocate("result"), Upload(Metadata(c)),
         Gather("components", 1, "targets"), Indexed, Read>>
    \o Registered(c)
    \o <<Sync, Close("result"), Close("metadata"), Close("components"),
         Close("stream")>>
    \o Released(c) \o Restore

execution_context ==
    <<Open, Allocate("components"), Allocate("metadata"), Allocate("result")>>

\* Without a component cache the execution context is the call's own: it is
\* whole before the stream waits for the producer and goes in one reset.
LegacyEigBatch(c) ==
    Solve(c) \o execution_context
    \o <<After(1), Upload(Metadata(c)),
         Gather("components", 1, "targets"), Indexed, Read>>
    \o Registered(c)
    \o <<Sync, Close("result"), Close("metadata"), Close("components"),
         Close("stream")>>
    \o Released(c) \o Restore

\* One kernel reads both residuals; only the fixed batch is told of it.
Parity(c) ==
    <<Open, Allocate("result"), After(1), After(2), Compare, Read, Register,
      Sync, Close("result"), Close("stream")>> \o Restore

IdentityMetadata(c) ==
    [left |-> Matched(c),
     right |-> [k \in DOMAIN Matched(c) |-> RightIndex(c, Matched(c)[k])]]

Identity(c) ==
    <<Open, Allocate("metadata"), Allocate("result"), Allocate("left"),
      Allocate("right"), After(1), After(2), Upload(IdentityMetadata(c)),
      Gather("left", 1, "left"), Gather("right", 2, "right"), Elementwise,
      Read, Register, Sync, Close("right"), Close("left"), Close("result"),
      Close("metadata"), Close("stream")>> \o Restore

Program(c) ==
    CASE c.kind = "vertical" -> Vertical(c)
      [] c.kind = "exact" -> ExactBatch(c)
      [] c.kind = "legacy" -> LegacyEigBatch(c)
      [] c.kind = "parity" -> Parity(c)
      [] c.kind = "identity" -> Identity(c)

-----------------------------------------------------------------------------

Init ==
    /\ call \in Calls
    /\ step = 0 /\ outcome = "running"
    /\ queue = <<>> /\ produced = {} /\ held = call.lent
    /\ memory = [b \in Names |-> <<>>] /\ live = <<>>
    /\ registered = FALSE /\ host = <<>> /\ selected = "caller" /\ peak = 0

\* Nothing is touched before the request is authenticated.
Start ==
    /\ step = 0 /\ outcome = "running"
    /\ IF Accepted(call) THEN step' = 1 /\ UNCHANGED outcome
                         ELSE outcome' = "thrown" /\ UNCHANGED step
    /\ UNCHANGED <<call, queue, produced, held, memory, live, registered,
                   host, selected, peak>>

At(what) ==
    /\ outcome = "running" /\ step \in DOMAIN Program(call)
    /\ Program(call)[step][1] = what
    /\ step' = step + 1
    /\ UNCHANGED <<call, produced, outcome>>
Where == Program(call)[step][2]

Buffers(s) == {b \in ToSet(s) : b # "stream"}

SolveStep ==
    /\ At("solve") /\ residual_consumer_view(call) /\ held' = TRUE
    /\ UNCHANGED <<queue, memory, live, registered, host, selected, peak>>

OpenStep ==
    /\ At("open")
    /\ live' = Append(live, "stream") /\ selected' = "residual"
    /\ UNCHANGED <<queue, held, memory, registered, host, peak>>

AllocateStep ==
    /\ At("allocate")
    /\ live' = Append(live, Where)
    /\ memory' = [memory EXCEPT ![Where] = <<>>]
    /\ peak' = LET now == Len(live') - 1 IN IF now > peak THEN now ELSE peak
    /\ UNCHANGED <<queue, held, registered, host, selected>>

EnqueueStep ==
    /\ At("enqueue") /\ queue' = Append(queue, Where)
    /\ UNCHANGED <<held, memory, live, registered, host, selected, peak>>

ReadStep ==
    /\ At("read") /\ queue = <<>>
    /\ host' = Append(host, memory["result"])
    /\ UNCHANGED <<queue, held, memory, live, registered, selected, peak>>

RegisterStep ==
    /\ At("register") /\ registered' = TRUE
    /\ UNCHANGED <<queue, held, memory, live, host, selected, peak>>

SyncStep ==
    /\ At("sync") /\ queue = <<>>
    /\ UNCHANGED <<queue, held, memory, live, registered, host, selected,
                   peak>>

CloseStep ==
    /\ At("close")
    /\ Where # "stream" => queue = <<>>
    /\ live' = SelectSeq(live, LAMBDA x : x # Where)
    /\ UNCHANGED <<queue, held, memory, registered, host, selected, peak>>

ReleaseStep ==
    /\ At("release") /\ held' = FALSE
    /\ UNCHANGED <<queue, memory, live, registered, host, selected, peak>>

RestoreStep ==
    /\ At("restore") /\ selected' = "caller"
    /\ UNCHANGED <<queue, held, memory, live, registered, host, peak>>

\* The structural gates at the end: nothing leaked, no more was allocated
\* than the call accounts for, and the replay gave the same bits.
VerticalGate == live = <<>> /\ peak <= 3 /\ Len(host) = 2 /\ host[1] = host[2]
ExactGate ==
    /\ live = <<>> /\ peak = 3 /\ Len(host) = 1
    /\ Len(ComponentTargets(call)) <= call.request.capacity
LegacyGate ==
    /\ live = <<>> /\ Len(host) = 1
    /\ Len(ComponentTargets(call)) <= call.request.capacity
IdentityGate == live = <<>> /\ peak = 4 /\ Len(host) = 1

Gate ==
    /\ outcome = "running" /\ step = Len(Program(call)) + 1
    /\ outcome' = IF CASE call.kind = "vertical" -> VerticalGate
                       [] call.kind = "exact" -> ExactGate
                       [] call.kind = "legacy" -> LegacyGate
                       [] call.kind = "identity" -> IdentityGate
                       [] call.kind = "parity" -> TRUE
                  THEN "ok" ELSE "refused"
    /\ UNCHANGED <<call, step, queue, produced, held, memory, live,
                   registered, host, selected, peak>>

-----------------------------------------------------------------------------
(* The device runs the stream in order, when it likes.                     *)

Column(r, t) ==
    IF held /\ r \in produced THEN (IF r = 1 THEN call.keys ELSE call.other)[t]
                              ELSE "garbage"

\* build_distance_rows, reduce_rows, center_distance and self_moment.
Built(op) == [i \in DOMAIN op.columns |-> Column(op.residual, op.columns[i])]

Gathered(op) ==
    LET columns == memory["metadata"][op.field]
    IN  [i \in DOMAIN columns |-> Column(op.residual, columns[i])]

\* evaluate_pair, and the comparison of two components by key.
PairsElementwise ==
    [i \in DOMAIN memory["left"] |-> <<memory["left"][i], memory["right"][i]>>]

PairsIndexed ==
    LET pairs == memory["metadata"].pairs
    IN  [i \in DOMAIN pairs |-> <<memory["components"][pairs[i][1]],
                                 memory["components"][pairs[i][2]]>>]

Compared == [i \in DOMAIN call.keys |-> <<Column(1, i), Column(2, i)>>]

Effect(op) ==
    CASE op.do = "upload" -> op.value
      [] op.do = "build" -> Built(op)
      [] op.do = "gather" -> Gathered(op)
      [] op.do = "elementwise" -> PairsElementwise
      [] op.do = "indexed" -> PairsIndexed
      [] op.do = "compare" -> Compared

Device ==
    /\ queue # <<>>
    /\ LET op == Head(queue)
       IN  IF op.do = "after"
           THEN op.residual \in produced /\ UNCHANGED memory
           ELSE memory' = [memory EXCEPT ![op.at] = Effect(op)]
    /\ queue' = Tail(queue)
    /\ UNCHANGED <<call, step, outcome, produced, held, live, registered,
                   host, selected, peak>>

\* The producer's stream completes a residual batch.
Produce ==
    /\ held
    /\ \E r \in 1 .. IF call.kind \in Comparisons THEN 2 ELSE 1 :
           r \notin produced /\ produced' = produced \cup {r}
    /\ UNCHANGED <<call, step, outcome, queue, held, memory, live,
                   registered, host, selected, peak>>

-----------------------------------------------------------------------------
(* A CUDA call throws, or a pair or an eigensolve reports a failure.       *)

Throw ==
    /\ outcome = "running" /\ step \in DOMAIN Program(call)
    /\ outcome' = "unwinding"
    /\ UNCHANGED <<call, step, queue, produced, held, memory, live,
                   registered, host, selected, peak>>

\* Destructors, in reverse order: a buffer waits for the device.
Unwind ==
    /\ outcome = "unwinding" /\ live # <<>>
    /\ Last(live) # "stream" => queue = <<>>
    /\ live' = Front(live)
    /\ UNCHANGED <<call, step, outcome, queue, produced, held, memory,
                   registered, host, selected, peak>>

\* The producer's stream is awaited only if a consumer was registered.
Catch ==
    /\ outcome = "unwinding" /\ live = <<>>
    /\ registered /\ ~call.lent => queue = <<>>
    /\ held' = (held /\ call.lent)
    /\ selected' = "caller" /\ outcome' = "thrown"
    /\ UNCHANGED <<call, step, queue, produced, memory, live, registered,
                   host, peak>>

HostStep ==
    \/ SolveStep \/ OpenStep \/ AllocateStep \/ EnqueueStep \/ ReadStep
    \/ RegisterStep \/ SyncStep \/ CloseStep \/ ReleaseStep \/ RestoreStep

Next == Start \/ HostStep \/ Gate \/ Device \/ Produce \/ Throw \/ Unwind \/ Catch

Spec == Init /\ [][Next]_vars

-----------------------------------------------------------------------------

Ended == outcome \in {"ok", "thrown", "refused"}

(* No kernel that reads the residuals outlives the call or their storage.  *)
NoStrayReader ==
    (Ended \/ ~held) =>
        \A i \in DOMAIN queue : queue[i].do \notin {"build", "gather", "compare"}

(* What the call answers is of the targets its request was signed for.     *)
Answer(c) ==
    CASE c.kind = "parity" -> [i \in DOMAIN c.keys |-> <<c.keys[i], c.keys[i]>>]
      [] c.kind = "identity" ->
           [k \in DOMAIN Matched(c) |->
               <<c.keys[Matched(c)[k]], c.keys[Matched(c)[k]]>>]
      [] OTHER ->
           [i \in DOMAIN Pairs(c) |->
               <<c.request.signed[Pairs(c)[i].left],
                 c.request.signed[Pairs(c)[i].right]>>]
AnswersSigned ==
    outcome = "ok" => ~call.failed /\ host[1] = Answer(call)

(* A call no CUDA error stops passes its own structural gate, and however  *)
(* it ends it leaves nothing behind.                                       *)
NothingLeft ==
    /\ outcome # "refused"
    /\ Ended => live = <<>> /\ selected = "caller" /\ held = call.lent
=============================================================================
