SPECIFICATION MCSpec
CONSTANTS
    Subjects = {"orientation", "wave", "level", "method", "group", "prefetch"}
    P = 4
    Datasets = {d1}
    MultiPenalty <- OnlyMulti
    ResultCapacities = {3}
    StateCapacities = {3, 8}
    ComponentCapacity = 3
    MaxCalls = 2
INVARIANTS
    WaveSound
    LevelSound
    GroupsSound
    ResidualsAreOwn
    PacksOwn
    SearchSound
PROPERTY
    OrientationsKept
CHECK_DEADLOCK FALSE
