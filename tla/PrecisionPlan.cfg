SPECIFICATION MCSpec
CONSTANTS
    Subjects = {"precision"}
    P = 4
    Alpha = 2
    PTop = 2
    MaxLevel = 2
    MarginalPairs <- LastTwoPairs
    BatchSize = 3
    NaDelete = TRUE
    CudaMemoryFallback = TRUE
INVARIANTS
    PlanAgrees
