------------------------------ MODULE MCDevice ------------------------------
(* The device-side components on small instances. `subject` is the         *)
(* component whose behaviours are explored; the others stay in one of      *)
(* their initial states. A variable two components call alike carries the  *)
(* name of its instance.                                                   *)
EXTENDS MCFixedSp, TLC

CONSTANTS
    Subjects,
    Datas, RawColumn, ResidualColumn

VARIABLES
    subject,
    scheme, level, batches, memory, lowrankCache, phase, batch, items, found,
    next, worker, computed, first_error, result,
    bound, splineCache, splineCalls, splineCall, table, groups, g, ridge,
    active, best, fits, splinePc,
    phaseCall, step, outcome, queue, produced, held, phaseMemory, live,
    registered, host, selected, peak,
    task, flag, capacityStep, capacityOutcome, setups, capacityHandle, tokens,
    counts, detached, capacityFaults

\* The handles are interchangeable: nothing compares or orders them.
HandleSymmetry == Permutations(Handles)

SolveRest == ~certified /\ plan = [t \in Targets |-> "QR"]

TwoBatches ==
    {<< <<0, {1}>>, <<0, {2}>>, <<3, {1}>> >>,
     << <<1, {2}>>, <<0, {1, 2, 3}>>, <<4, {1, 2, 3}>> >>}

CapacityTask(kind, l, total, width, retain) ==
    [kind |-> kind, level |-> l, total |-> total, width |-> width,
     retain |-> retain]
CapacityTasks ==
    {CapacityTask("components", 2, n, 1, FALSE) : n \in {2, 17, 33}}
    \cup {CapacityTask("slot", l, 5, 1, TRUE) : l \in 3 .. 6}
    \cup {CapacityTask("slot", 3, 33, 1, TRUE)}
    \cup {CapacityTask("window", l, 3, 2, r) :
            l \in {3, 4, 5, 7, 8, 9, 21, 22, 42}, r \in BOOLEAN}
    \cup {CapacityTask("window", l, 17, 1, TRUE) : l \in {43, 62}}
    \cup {CapacityTask(k, l, 2, 1, FALSE) :
            k \in {"group", "qualify"}, l \in {2, 3, 4, 5, 8, 22, 62}}

Tie == << <<1, 1>>, <<1, 2>> >>
LateRidge == << <<-1, -1>>, <<1, -1>> >>
NeverFinite == << <<-1, -1>>, <<-1, -1>> >>

Names == <<"x", "y", "z">>
Request(pairs, signed) ==
    [pairs |-> pairs, capacity |-> 3, columns |-> 35, signed |-> signed]
PhaseCall(kind, lent, failed, other, request) ==
    [kind |-> kind, lent |-> lent, failed |-> failed, prepared |-> TRUE,
     keys |-> Names, other |-> other, request |-> request]
Two == <<[id |-> 3, left |-> 3, right |-> 2], [id |-> 5, left |-> 2, right |-> 3]>>
PhaseCalls ==
    LET signed == {Names, <<"z", "y", "x">>}
    IN  {PhaseCall("vertical", FALSE, f, <<>>, Request(<<Two[1]>>, s)) :
            f \in BOOLEAN, s \in signed}
        \cup {PhaseCall(k, l, f, <<>>, Request(Two, s)) :
            k \in {"exact", "legacy"}, l \in BOOLEAN, f \in BOOLEAN,
            s \in signed}
        \cup {PhaseCall(k, TRUE, FALSE, o, Request(<<>>, <<>>)) :
            k \in {"parity", "identity"}, o \in signed \cup {<<"z", "w">>}}

Lowrank == INSTANCE LowrankBatch WITH
    MaxEntries <- 2, BatchThreads <- 2, MaxBatch <- 2, MaxLevel <- 1,
    MaxBatches <- 2, cache <- lowrankCache

Spline == INSTANCE FastSplineBatch WITH
    Batches <- TwoBatches, Lambdas <- 2, Ridges <- 2,
    Tables <- {Tie, LateRidge, NeverFinite}, MaxColumns <- 2, MaxCalls <- 2,
    cache <- splineCache, calls <- splineCalls, call <- splineCall,
    pc <- splinePc

Phase == INSTANCE PhaseBatch WITH
    Calls <- PhaseCalls, call <- phaseCall, memory <- phaseMemory

Capacity == INSTANCE CapacityDispatch WITH
    Tasks <- CapacityTasks, Flags <- {"", "0", "1", "yes"}, MaxFaults <- 1,
    step <- capacityStep, outcome <- capacityOutcome,
    handle <- capacityHandle, faults <- capacityFaults

lowrankVars == <<scheme, level, batches, memory, lowrankCache, phase, batch,
                 items, found, next, worker, computed, first_error, result>>
splineVars == <<bound, splineCache, splineCalls, splineCall, table, groups, g,
                ridge, active, best, fits, splinePc>>
phaseVars == <<phaseCall, step, outcome, queue, produced, held, phaseMemory,
               live, registered, host, selected, peak>>
capacityVars == <<task, flag, capacityStep, capacityOutcome, setups,
                  capacityHandle, tokens, counts, detached, capacityFaults>>
all == <<subject, vars, solveVars, resourcesVars, preparedVars, lowrankVars, splineVars, phaseVars, capacityVars, handleVars>>

ASSUME Lowrank!LowrankAssumption
ASSUME Spline!FastSplineAssumption

MCInit ==
    /\ subject \in Subjects
    /\ Init
    /\ Solve!Init
    /\ subject # "solve" => SolveRest
    /\ Resources!Init
    /\ Prepared!Init
    /\ Lowrank!Init
    /\ subject # "lowrank" => scheme = "level"
    /\ Spline!Init
    /\ Phase!Init
    /\ subject # "phase" => phaseCall = CHOOSE c \in PhaseCalls : TRUE
    /\ Capacity!Init
    /\ subject # "capacity" => (task = CHOOSE t \in CapacityTasks : TRUE) /\ flag = ""
    /\ Handle!Init
    /\ subject # "handles" => family = "matvec"

MCNext ==
    /\ UNCHANGED subject
    /\ \/ subject = "runtime" /\ Next
          /\ UNCHANGED <<solveVars, resourcesVars, preparedVars, lowrankVars,
                            splineVars, phaseVars, capacityVars, handleVars>>
       \/ subject = "solve" /\ Solve!Next
          /\ UNCHANGED <<vars, resourcesVars, preparedVars, lowrankVars,
                            splineVars, phaseVars, capacityVars, handleVars>>
       \/ subject = "resources" /\ Resources!Next
          /\ UNCHANGED <<vars, solveVars, preparedVars, lowrankVars,
                            splineVars, phaseVars, capacityVars, handleVars>>
       \/ subject = "prepared" /\ Prepared!Next
          /\ UNCHANGED <<vars, solveVars, resourcesVars, lowrankVars,
                            splineVars, phaseVars, capacityVars, handleVars>>
       \/ subject = "lowrank" /\ Lowrank!Next
          /\ UNCHANGED <<vars, solveVars, resourcesVars, preparedVars,
                            splineVars, phaseVars, capacityVars, handleVars>>
       \/ subject = "spline" /\ Spline!Next
          /\ UNCHANGED <<vars, solveVars, resourcesVars, preparedVars,
                            lowrankVars, phaseVars, capacityVars, handleVars>>
       \/ subject = "phase" /\ Phase!Next
          /\ UNCHANGED <<vars, solveVars, resourcesVars, preparedVars,
                            lowrankVars, splineVars, capacityVars, handleVars>>
       \/ subject = "capacity" /\ Capacity!Next
          /\ UNCHANGED <<vars, solveVars, resourcesVars, preparedVars,
                            lowrankVars, splineVars, phaseVars, handleVars>>
       \/ subject = "handles" /\ Handle!Next
          /\ UNCHANGED <<vars, solveVars, resourcesVars, preparedVars,
                            lowrankVars, splineVars, phaseVars, capacityVars>>

MCSpec == MCInit /\ [][MCNext]_all

-----------------------------------------------------------------------------
(* Every pair's p-value is of that pair's own columns.                     *)
PairReadsOwn == Lowrank!PairReadsOwn

(* An evaluator of pairs leaves no kernel that reads the residuals, answers *)
(* of the targets its request was signed for, and passes its own gate.      *)
CallsSound == Phase!NoStrayReader /\ Phase!AnswersSigned /\ Phase!NothingLeft

(* No caller asks the dispatcher of the backends for what it refuses, none  *)
(* leaves a setup or a residual behind, and every target's residual is      *)
(* detached once.                                                           *)
DispatchSound ==
    Capacity!NeverRefused /\ Capacity!NothingKept /\ Capacity!DetachedOnce

(* Every request of a fast-spline batch gets its own fit.                  *)
EachFitOwn == Spline!EachFitOwn
=============================================================================
