CONSTANTS
  Subjects = {"publication", "host", "noisy", "clear", "single", "batch"}
  Payloads <- TwoPayloads
  Direct = TRUE
  MaxGen = 3
  MaxCrash = 2
  MaxFault = 2
  Points <- MCPoints
  Start = "p1"
  Steps <- MCSteps
  Penalties = 2
  MaxHalving = 5
  MaxIterations = 6
  MaxProbes = 2
SPECIFICATION MCSpec
INVARIANTS MarkersNeverMix NothingLost ConvergenceIsFresh ReportedIsStable
  EachTargetOwn
PROPERTIES PublicationSettles LanesRefineHost
CHECK_DEADLOCK FALSE
