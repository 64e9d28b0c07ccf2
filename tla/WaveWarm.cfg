SPECIFICATION MCSpec
CONSTANTS
    Subjects = {"wave"}
    Datasets = {d1}
    P = 4
    MultiPenalty <- OnlyMulti
    ResultCapacities = {8}
    StateCapacities = {8}
    ComponentCapacity = 8
    MaxCalls = 2
INVARIANT PredictionHolds
CHECK_DEADLOCK FALSE
