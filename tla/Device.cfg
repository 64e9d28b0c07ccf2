SPECIFICATION MCSpec
CONSTANTS
    Subjects = {"runtime", "solve", "resources", "prepared", "lowrank", "spline", "phase", "capacity", "handles"}
    Handles = {h1, h2}
    Capacities = {1, 2}
    MaxSolves = 2
    Certified = FALSE
    MaxFaults = 1
    Targets = {1, 2, 3}
    Keys = {"a", "b"}
    RootCapacity = 2
    MaxPenalties = 2
    MaxReserves = 2
    MaxCreates = 2
    Setups = {"a", "b"}
    Workers = {"w1", "w2"}
    MaxTokens = 4
    MaxFailures = 2
    Families = {"fixed_sp", "multi_penalty", "matvec"}
    MaxPointers = 3
    MaxProducts = 2
    Datas = {d1, d2}
    RawColumn = {d1}
    ResidualColumn = {r1, r2}
    d1 = d1
    r1 = r1
    r2 = r2
INVARIANTS
    BatchesSound
    SuccessIsReal
    FailureIsOwn
    OwnedOnce
    LeaseIsHeld
    PairReadsOwn
    EachFitOwn
    CallsSound
    DispatchSound
    HandlesSound
SYMMETRY HandleSymmetry
CHECK_DEADLOCK FALSE
