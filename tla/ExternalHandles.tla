-------------------------- MODULE ExternalHandles --------------------------
(* The external pointers by which R holds device objects, in the process   *)
(* that made them and in a child forked from it: fixed-sp runtimes,        *)
(* prepared setups and residual tokens; prepared multi-penalty setups and  *)
(* their residuals; and the dense products of the spectral solver, with    *)
(* the buffers a product grows.                                            *)
(*                                                                         *)
(* A pointer leads to a holder, the holder to an object that is shared     *)
(* with the objects made from it.  R may run the finalizer of a pointer it *)
(* has dropped at any time, in either process.                             *)
EXTENDS Integers, Sequences, FiniteSets

CONSTANTS
    Families,    \* "fixed_sp", "multi_penalty", "matvec"
    MaxPointers, \* bound on the pointers made
    MaxProducts, \* bound on the product handles made
    MaxFaults    \* bound on the calls that fail

VARIABLES
    family,
    object,      \* device objects made: [kind, parent]
    life,        \* process -> object -> "usable", "teardown", "freed", "none"
    torn,        \* process -> object -> how often its resources were destroyed
    lease,       \* process -> setup -> the residual in its output slot, or 0
    pointer,     \* process -> pointers: [kind, holder, value, counted]
    owners,      \* process -> kind -> the live-owner counter
    forked,
    workspace,   \* product -> [rhs, output, size] of its grown buffers
    heap,        \* the device buffers ever made: their sizes, 0 once freed
    product,     \* the product being computed
    faults

vars == <<family, object, life, torn, lease, pointer, owners, forked,
          workspace, heap, product, faults>>

Processes == {1, 2}     \* the maker and its child
Kinds == {"runtime", "prepared", "residual", "mp_prepared", "mp_residual", "matvec"}
Counted == {"runtime", "prepared", "residual"}
Idle == [phase |-> "idle", object |-> 0, size |-> 0, rhs |-> 0, output |-> 0,
         temporary |-> FALSE]

Init ==
    /\ family \in Families
    /\ object = <<>> /\ forked = FALSE /\ faults = 0
    /\ life = [p \in Processes |-> <<>>]
    /\ torn = [p \in Processes |-> <<>>]
    /\ lease = [p \in Processes |-> <<>>]
    /\ pointer = [p \in Processes |-> <<>>]
    /\ owners = [p \in Processes |-> [k \in Counted |-> 0]]
    /\ workspace = <<>> /\ heap = <<>>
    /\ product = Idle

Fault == faults < MaxFaults /\ faults' = faults + 1
NoFault == UNCHANGED faults
NoProduct == product = Idle /\ UNCHANGED <<workspace, heap, product>>

-----------------------------------------------------------------------------
(* Shared ownership.  An object lives while a holder refers to it, or to   *)
(* an object made from it: a residual keeps its setup, a setup its runtime.*)

Lineage(x) ==
    LET maker == object[x].parent IN
    {x, maker} \cup (IF maker = 0 THEN {} ELSE {object[maker].parent})
Shared(P, o) ==
    \E h \in DOMAIN P : P[h].holder /\ P[h].value # 0 /\ o \in Lineage(P[h].value)

\* Whoever still refers to the object of pointer h besides that pointer.
OtherReferences(p, h) ==
    Shared([pointer[p] EXCEPT ![h].value = 0], pointer[p][h].value)

\* The destructors of the fixed-sp objects do nothing in a child; those of
\* the multi-penalty objects and of the products destroy in any process.
MutGuarded(o) == object[o].kind = "residual"
Guarded(o) == object[o].kind \in {"runtime", "prepared", "residual"}
Destroys(p, o) == p = 1 \/ ~Guarded(o)

Dying(p, P) == {o \in DOMAIN object :
                   life[p][o] \in {"usable", "teardown"} /\ ~Shared(P, o)}

\* What happens in process p once its pointers have become P: the objects
\* nobody refers to any more are destroyed and their leases given back.
Settle(p, P) ==
    LET dying == Dying(p, P) IN
    /\ pointer' = [pointer EXCEPT ![p] = P]
    /\ life' = [life EXCEPT ![p] =
           [o \in DOMAIN object |-> IF o \in dying THEN "freed" ELSE @[o]]]
    /\ torn' = [torn EXCEPT ![p] = [o \in DOMAIN object |->
           IF o \in dying /\ Destroys(p, o) THEN @[o] + 1 ELSE @[o]]]
    /\ lease' = [lease EXCEPT ![p] =
           [o \in DOMAIN object |-> IF @[o] \in dying THEN 0 ELSE @[o]]]

fixed_sp_owner_acquire(p, kind) == [owners EXCEPT ![p][kind] = @ + 1]
fixed_sp_owner_release(p, h) ==
    IF pointer[p][h].counted
    THEN [owners EXCEPT ![p][pointer[p][h].kind] = IF @ > 0 THEN @ - 1 ELSE 0]
    ELSE owners

Pointer(kind, value) ==
    [kind |-> kind, holder |-> value # 0, value |-> value,
     counted |-> value # 0 /\ kind \in Counted]

\* Only the maker can make objects: a child cannot use the CUDA context it
\* inherits, nor open one of its own.
Make(kind, parent) ==
    LET o == Len(object) + 1 IN
    /\ object' = Append(object, [kind |-> kind, parent |-> parent])
    /\ life' = [p \in Processes |-> Append(life[p], IF p = 1 THEN "usable" ELSE "none")]
    /\ torn' = [p \in Processes |-> Append(torn[p], 0)]
    /\ lease' = [lease EXCEPT ![1] =
           Append([x \in DOMAIN @ |->
               IF x = parent /\ kind \in {"residual", "mp_residual"}
               THEN o ELSE @[x]], 0),
                              ![2] = Append(@, 0)]
    /\ pointer' = [pointer EXCEPT ![1] = Append(@, Pointer(kind, o))]
    /\ owners' = IF kind \in Counted THEN fixed_sp_owner_acquire(1, kind) ELSE owners
    /\ UNCHANGED <<family, forked>> /\ NoProduct

Room == Len(pointer[1]) < MaxPointers
Present(p) == p = 1 \/ forked
Keep == UNCHANGED <<family, object, forked>> /\ NoProduct

\* Lookup of a holder: the tag, the address and, if asked for, the value.
Held(p, h, kind) ==
    Present(p) /\ h \in DOMAIN pointer[p] /\ pointer[p][h].kind = kind
Live(p, h, kind) ==
    Held(p, h, kind) /\ pointer[p][h].holder /\ pointer[p][h].value # 0
Value(p, h) == pointer[p][h].value
Usable(p, h) == p = 1 /\ life[p][Value(p, h)] = "usable"

\* The information and shadow entry points: they change nothing, and read
\* the object and whatever it was made from.
runtime_reader(h) == Live(1, h, "runtime")
prepared_reader(h) == Live(1, h, "prepared") /\ Usable(1, h)
residual_reader(h) == Live(1, h, "residual")
multi_penalty_reader(h) == Live(1, h, "mp_prepared") \/ Live(1, h, "mp_residual")

-----------------------------------------------------------------------------
(* The fixed-sp entry points.                                              *)

C_fixed_sp_cuda_runtime_create ==
    family = "fixed_sp" /\ Room /\ Make("runtime", 0) /\ NoFault

\* The setup is validated and uploaded before there is anything to hold.
C_fixed_sp_cuda_prepared_create(h) ==
    /\ Live(1, h, "runtime") /\ Usable(1, h) /\ Room
    /\ Make("prepared", Value(1, h)) /\ NoFault

\* What the two explicit closes share.  In a child they refuse; an object
\* that others still refer to is only let go; a close that could not start
\* leaves the object for another attempt, one that failed half way does not,
\* and neither gives the owner back.
Reset(p, h) == [pointer[p] EXCEPT ![h].value = 0]
Close(p, h) ==
    LET o == Value(p, h)
        released == [Reset(p, h) EXCEPT ![h].counted = FALSE]
    IN
    \/ /\ o = 0 /\ Settle(p, released) /\ owners' = fixed_sp_owner_release(p, h)
       /\ NoFault
    \/ /\ o # 0 /\ p # 1
       /\ UNCHANGED <<pointer, life, torn, lease, owners>> /\ NoFault
    \/ /\ o # 0 /\ p = 1
       /\ Settle(p, released) /\ owners' = fixed_sp_owner_release(p, h) /\ NoFault
    \/ /\ o # 0 /\ p = 1 /\ ~OtherReferences(p, h)
       /\ Settle(p, Reset(p, h)) /\ UNCHANGED owners /\ Fault
    \/ /\ o # 0 /\ p = 1 /\ ~OtherReferences(p, h)
       /\ life' = [life EXCEPT ![p][o] = "teardown"]
       /\ UNCHANGED <<pointer, torn, lease, owners>> /\ Fault

C_fixed_sp_cuda_runtime_free(p, h) ==
    Held(p, h, "runtime") /\ pointer[p][h].holder /\ Close(p, h) /\ Keep

C_fixed_sp_cuda_prepared_free(p, h) ==
    Held(p, h, "prepared") /\ pointer[p][h].holder /\ Close(p, h) /\ Keep

\* The pointer exists before the solve; a solve that throws, or finds the
\* output slot taken, leaves it empty and uncounted.
fixed_sp_cuda_submit_batch(h) ==
    /\ Live(1, h, "prepared") /\ Room
    /\ \/ Usable(1, h) /\ lease[1][Value(1, h)] = 0
          /\ Make("residual", Value(1, h)) /\ NoFault
       \/ /\ IF Usable(1, h) /\ lease[1][Value(1, h)] = 0 THEN Fault ELSE NoFault
          /\ pointer' = [pointer EXCEPT ![1] = Append(@, Pointer("residual", 0))]
          /\ UNCHANGED <<life, torn, lease, owners>> /\ Keep

Unleased(p, o) ==
    [lease EXCEPT ![p] = [x \in DOMAIN object |-> IF @[x] = o THEN 0 ELSE @[x]]]

\* A busy consumer refuses the release and the free; so does a child.
C_fixed_sp_cuda_residual_release(p, h) ==
    /\ Live(p, h, "residual")
    /\ \/ p = 1 /\ lease' = Unleased(p, Value(p, h)) /\ NoFault
       \/ UNCHANGED lease /\ IF p = 1 THEN Fault ELSE NoFault
    /\ UNCHANGED <<pointer, life, torn, owners>> /\ Keep

Emptied(p, h) == [pointer[p] EXCEPT ![h] = Pointer(@.kind, 0)]

C_fixed_sp_cuda_residual_free(p, h) ==
    /\ Held(p, h, "residual")
    /\ \/ /\ p = 1 \/ ~pointer[p][h].holder
          /\ Settle(p, Emptied(p, h))
          /\ owners' = fixed_sp_owner_release(p, h) /\ NoFault
       \/ /\ pointer[p][h].holder
          /\ IF p = 1 THEN Fault ELSE NoFault
          /\ UNCHANGED <<pointer, life, torn, lease, owners>>
    /\ Keep

-----------------------------------------------------------------------------
(* The multi-penalty entry points.                                         *)

C_full_cuda_ci_multi_penalty_gcv_prepared_create ==
    family = "multi_penalty" /\ Room /\ Make("mp_prepared", 0) /\ NoFault

\* optimize_batch and evaluate_fixed_batch: refused while the slot is out.
multi_penalty_batch(h) ==
    /\ Live(1, h, "mp_prepared") /\ Room
    /\ lease[1][Value(1, h)] = 0
    /\ Make("mp_residual", Value(1, h)) /\ NoFault

C_full_cuda_ci_multi_penalty_gcv_prepared_free(p, h) ==
    /\ Held(p, h, "mp_prepared") /\ pointer[p][h].holder
    /\ Settle(p, Reset(p, h))
    /\ UNCHANGED owners /\ NoFault /\ Keep

C_full_cuda_ci_multi_penalty_gcv_residual_release(p, h) ==
    /\ Live(p, h, "mp_residual")
    /\ lease' = Unleased(p, Value(p, h))
    /\ UNCHANGED <<pointer, life, torn, owners>> /\ NoFault /\ Keep

\* A second free finds no holder and is refused.
C_full_cuda_ci_multi_penalty_gcv_residual_free(p, h) ==
    /\ Held(p, h, "mp_residual") /\ pointer[p][h].holder
    /\ Settle(p, Emptied(p, h))
    /\ UNCHANGED owners /\ NoFault /\ Keep

-----------------------------------------------------------------------------
(* R's side: finalizers of dropped pointers, and the fork.                 *)

\* A pointer R has dropped and not finalized is like one it does not use.
\* In the maker a finalizer closes and swallows what the close throws; in
\* both processes the owner is given back and the holder deleted, and the
\* destructors do what the close did not.
Finalize(p, h) ==
    /\ Present(p) /\ h \in DOMAIN pointer[p]
    /\ pointer[p][h].holder
    /\ owners' = fixed_sp_owner_release(p, h)
    /\ Settle(p, Emptied(p, h))
    /\ NoFault /\ UNCHANGED <<family, object, forked>> /\ product = Idle
    /\ LET o == Value(p, h) IN
       IF pointer[p][h].kind = "matvec" /\ p = 1
       THEN /\ heap' = [b \in DOMAIN heap |->
                  IF b \in {workspace[o].rhs, workspace[o].output} THEN 0 ELSE heap[b]]
            /\ UNCHANGED <<workspace, product>>
       ELSE UNCHANGED <<workspace, heap, product>>

\* The child inherits the memory, not the device.
Fork ==
    /\ ~forked /\ forked' = TRUE
    /\ pointer' = [pointer EXCEPT ![2] = pointer[1]]
    /\ life' = [life EXCEPT ![2] = life[1]]
    /\ lease' = [lease EXCEPT ![2] = lease[1]]
    /\ owners' = [owners EXCEPT ![2] = owners[1]]
    /\ UNCHANGED <<family, object, torn, faults>> /\ NoProduct

-----------------------------------------------------------------------------
(* Products with a symmetric matrix that stays on the device.              *)

Sizes == {1, 2}
\* No address is used twice, so that one kept too long is noticed.
Address == Len(heap) + 1
Buffer(size) == heap' = Append(heap, size)
ProductIn(phase) == product.phase = phase
StepProduct == UNCHANGED <<family, forked, owners>>
SameObjects == UNCHANGED <<object, life, torn, lease, pointer>>

\* A handle R holds, or one of a single solve that its caller destroys.
\* A create that throws has freed what it allocated.
legacy_dcov_spectra_matvec_cuda_handle_create(temporary) ==
    LET o == Len(object) + 1 IN
    /\ family = "matvec" /\ product = Idle /\ Len(object) < MaxProducts
    /\ object' = Append(object, [kind |-> "matvec", parent |-> 0])
    /\ life' = [p \in Processes |-> Append(life[p], IF p = 1 THEN "usable" ELSE "none")]
    /\ torn' = [p \in Processes |-> Append(torn[p], 0)]
    /\ lease' = [p \in Processes |-> Append(lease[p], 0)]
    /\ pointer' = [pointer EXCEPT ![1] =
           IF temporary THEN @ ELSE Append(@, Pointer("matvec", o))]
    /\ workspace' = Append(workspace, [rhs |-> 0, output |-> 0, size |-> 0])
    /\ product' = IF temporary THEN [Idle EXCEPT !.phase = "solve", !.object = o,
                                                 !.temporary = TRUE]
                               ELSE Idle
    /\ UNCHANGED heap /\ NoFault /\ StepProduct

\* apply and project, called by R or by the solver in its iterations.  A
\* workspace that is large enough is used as it is.
StartProduct(o, size) ==
    /\ \/ ProductIn("solve") /\ o = product.object
       \/ ProductIn("idle") /\ \E h \in DOMAIN pointer[1] :
              Live(1, h, "matvec") /\ Value(1, h) = o
    /\ product' = [product EXCEPT
           !.phase = IF workspace[o].size < size THEN "grow" ELSE "multiply",
           !.object = o, !.size = size]
    /\ UNCHANGED <<workspace, heap>> /\ NoFault /\ StepProduct /\ SameObjects

\* What a failing call leaves: the old workspace, or nothing at all when
\* the handle was that of one solve.
Freed(B) == [b \in DOMAIN heap |-> IF b \in B THEN 0 ELSE heap[b]]
Abandon(B) ==
    LET o == product.object IN
    /\ product' = Idle
    /\ IF product.temporary
       THEN /\ heap' = Freed(B \cup {workspace[o].rhs, workspace[o].output})
            /\ life' = [life EXCEPT ![1][o] = "freed"]
            /\ torn' = [torn EXCEPT ![1][o] = @ + 1]
            /\ UNCHANGED <<object, lease, pointer>>
       ELSE heap' = Freed(B) /\ SameObjects
    /\ UNCHANGED workspace /\ StepProduct

GrowRhs ==
    /\ ProductIn("grow") /\ product.rhs = 0
    /\ \/ /\ Buffer(product.size)
          /\ product' = [product EXCEPT !.rhs = Address]
          /\ UNCHANGED workspace /\ NoFault /\ StepProduct /\ SameObjects
       \/ Abandon({}) /\ Fault

GrowOutput ==
    /\ ProductIn("grow") /\ product.rhs # 0 /\ product.output = 0
    /\ \/ /\ Buffer(product.size)
          /\ product' = [product EXCEPT !.output = Address]
          /\ UNCHANGED workspace /\ NoFault /\ StepProduct /\ SameObjects
       \/ Abandon({product.rhs}) /\ Fault

\* The old buffers go when both new ones are there.
Replace ==
    LET o == product.object IN
    /\ ProductIn("grow") /\ product.output # 0
    /\ heap' = Freed({workspace[o].rhs, workspace[o].output})
    /\ workspace' = [workspace EXCEPT ![o] =
           [rhs |-> product.rhs, output |-> product.output, size |-> product.size]]
    /\ product' = [product EXCEPT !.phase = "multiply", !.rhs = 0, !.output = 0]
    /\ NoFault /\ StepProduct /\ SameObjects

\* Copies, the multiplication and the wait.
Multiply ==
    /\ ProductIn("multiply")
    /\ \/ /\ product' = [product EXCEPT
                 !.phase = IF product.temporary THEN "solve" ELSE "idle",
                 !.object = IF product.temporary THEN @ ELSE 0, !.size = 0]
          /\ UNCHANGED <<workspace, heap>> /\ NoFault /\ StepProduct /\ SameObjects
       \/ Abandon({}) /\ Fault

\* The solver is done, or throws: either way its handle goes.
EndSolve ==
    /\ ProductIn("solve") /\ Abandon({}) /\ NoFault

Next ==
    \/ C_fixed_sp_cuda_runtime_create
    \/ C_full_cuda_ci_multi_penalty_gcv_prepared_create
    \/ \E h \in DOMAIN pointer[1] :
          \/ C_fixed_sp_cuda_prepared_create(h)
          \/ fixed_sp_cuda_submit_batch(h)
          \/ multi_penalty_batch(h)
    \/ \E p \in Processes : \E h \in DOMAIN pointer[p] :
          \/ C_fixed_sp_cuda_runtime_free(p, h)
          \/ C_fixed_sp_cuda_prepared_free(p, h)
          \/ C_fixed_sp_cuda_residual_release(p, h)
          \/ C_fixed_sp_cuda_residual_free(p, h)
          \/ C_full_cuda_ci_multi_penalty_gcv_prepared_free(p, h)
          \/ C_full_cuda_ci_multi_penalty_gcv_residual_release(p, h)
          \/ C_full_cuda_ci_multi_penalty_gcv_residual_free(p, h)
          \/ Finalize(p, h)
    \/ Fork
    \/ \E temporary \in BOOLEAN :
          legacy_dcov_spectra_matvec_cuda_handle_create(temporary)
    \/ \E o \in DOMAIN object, size \in Sizes : StartProduct(o, size)
    \/ GrowRhs \/ GrowOutput \/ Replace \/ Multiply \/ EndSolve

Spec == Init /\ [][Next]_vars

-----------------------------------------------------------------------------

(* The live-owner counters never lose an owner: each counts its holders,   *)
(* every live value is counted, and once R has let go of everything and    *)
(* the finalizers have run the counters of that process are zero.          *)
OwnersCounted ==
    \A p \in Processes :
        /\ \A k \in Counted :
              owners[p][k] = Cardinality({h \in DOMAIN pointer[p] :
                                 pointer[p][h].kind = k /\ pointer[p][h].counted})
        /\ \A h \in DOMAIN pointer[p] :
              /\ pointer[p][h].counted => pointer[p][h].holder
              /\ pointer[p][h].value # 0 /\ pointer[p][h].kind \in Counted
                    => pointer[p][h].counted

(* Device resources are destroyed once, in the process that made them, not *)
(* before everything made from them, and without being left behind when    *)
(* the last pointer of the maker is finalized; a child destroys none of    *)
(* the fixed-sp objects it inherits.                                       *)
TornDownOnce ==
    /\ \A o \in DOMAIN object :
          /\ torn[1][o] \in {0, 1}
          /\ torn[1][o] = 1 =>
                \A x \in DOMAIN object : object[x].parent = o => torn[1][x] = 1
          /\ object[o].kind \in Counted => torn[2][o] = 0
    /\ (\A h \in DOMAIN pointer[1] : ~pointer[1][h].holder) /\ product = Idle
          => \A o \in DOMAIN object : torn[1][o] = 1

(* An output slot is held by a residual that still exists in that process. *)
SlotsReturned ==
    \A p \in Processes : \A o \in DOMAIN object :
        lease[p][o] # 0 => life[p][lease[p][o]] = "usable"

(* What a reader reaches through a pointer that is still live exists,      *)
(* also when the pointers to what it was made from have been closed.       *)
ReadersSafe ==
    \A h \in DOMAIN pointer[1] :
        \/ runtime_reader(h) \/ prepared_reader(h) \/ residual_reader(h)
        \/ multi_penalty_reader(h)
        => LET o == Value(1, h)
               maker == object[o].parent
           IN  /\ torn[1][o] = 0
               /\ maker # 0 =>
                     /\ torn[1][maker] = 0
                     /\ object[maker].parent # 0 => torn[1][object[maker].parent] = 0

(* A product reads and writes buffers that are allocated and large enough, *)
(* and between calls nothing is allocated but the workspaces of handles    *)
(* that exist.                                                             *)
WorkspacesSound ==
    /\ ProductIn("multiply") =>
          LET w == workspace[product.object] IN
          heap[w.rhs] >= product.size /\ heap[w.output] >= product.size
    /\ ProductIn("idle") =>
          {b \in DOMAIN heap : heap[b] # 0} =
          UNION {{workspace[o].rhs, workspace[o].output} \ {0} :
                 o \in {x \in DOMAIN workspace : torn[1][x] = 0}}
=============================================================================
