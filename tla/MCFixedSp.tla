----------------------------- MODULE MCFixedSp ------------------------------
(* The fixed-sp runtime with what it is made of side by side: the batch it *)
(* solves, what it allocates, the persistent setups of the optimizer,      *)
(* whose tokens follow the same lease, and the pointers by which R holds   *)
(* them.  A variable two of them call alike carries the name of its        *)
(* instance.                                                               *)
EXTENDS FixedSpRuntime, Integers

CONSTANTS
    Targets,                                               \* a batch
    Keys, RootCapacity, MaxPenalties, MaxReserves, MaxCreates,   \* resources
    Setups, Workers, MaxTokens, MaxFailures,               \* prepared setups
    Families, MaxPointers, MaxProducts                     \* R's pointers

VARIABLES
    certified, failClosed, plan, deferred, reason, executed, status, output,
    theta, info, stable, finite, svdInfo, certificate, svdPending, pc,
    life, size, resourcesArena, staged, consumed, part, resourcesHandle,
    cache, setup, pending, roots, heap, calls, resourcesFaults, resourcesPc,
    preparedSetup, preparedToken, call, failures,
    family, object, handleLife, torn, lease, pointer, owners, forked,
    workspace, handleHeap, product, handleFaults

Solve == INSTANCE FixedSpSolve

Resources == INSTANCE FixedSpResources WITH
    MaxHandles <- MaxCreates, arena <- resourcesArena,
    handle <- resourcesHandle, faults <- resourcesFaults, pc <- resourcesPc

Prepared == INSTANCE PreparedGcv WITH
    Handles <- Setups, setup <- preparedSetup, token <- preparedToken

Handle == INSTANCE ExternalHandles WITH
    life <- handleLife, heap <- handleHeap, faults <- handleFaults

solveVars == <<certified, failClosed, plan, deferred, reason, executed, status,
               output, theta, info, stable, finite, svdInfo, certificate, svdPending,
               pc>>
resourcesVars == <<life, size, resourcesArena, staged, consumed, part,
                   resourcesHandle, cache, setup, pending, roots, heap, calls,
                   resourcesFaults, resourcesPc>>
preparedVars == <<preparedSetup, preparedToken, call, failures>>
handleVars == <<family, object, handleLife, torn, lease, pointer, owners,
                forked, workspace, handleHeap, product, handleFaults>>

ASSUME Prepared!PreparedAssumption

-----------------------------------------------------------------------------
(* A target reported as a success holds finite numbers of the route it is  *)
(* said to have executed, and passed its own certificate when the batch    *)
(* fails closed.                                                           *)
SuccessIsReal == Solve!SuccessIsReal

(* A target's failure stays with the target, in every batch without        *)
(* certificates; with them only the first Cholesky target can be failed by *)
(* another one.                                                            *)
FailureIsOwn == Solve!FailureIsOwn

(* Every route writes finite status by canonical target ordinal, as the     *)
(* comment in the batch says: also with certificates, what fails any       *)
(* target is its own route.                                                *)
FailureStaysOwn == Solve!FailureStaysOwn

(* Every allocation has exactly one owner and the ledger counts it; the    *)
(* penalty-root cache holds validated roots only.                          *)
OwnedOnce == Resources!OwnedOnce /\ Resources!RootsTrusted /\ Resources!UsableIsWhole

(* A slot is leased exactly while an unreleased token of its generation    *)
(* exists, and that token reads what its own batch wrote.                  *)
LeaseIsHeld == Prepared!LeaseIsHeld /\ Prepared!TokenReadsOwn

(* R's pointers to device objects, in the process that made them and in a  *)
(* forked child: owners are counted, resources destroyed once and by their  *)
(* maker, and what a live pointer leads to exists.                          *)
HandlesSound ==
    /\ Handle!OwnersCounted /\ Handle!TornDownOnce /\ Handle!SlotsReturned
    /\ Handle!ReadersSafe /\ Handle!WorkspacesSound
=============================================================================
