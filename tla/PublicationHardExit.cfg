CONSTANTS
  Subjects = {"publication"}
  Payloads <- TwoPayloads
  Direct = FALSE
  MaxGen = 3
  MaxCrash = 2
  MaxFault = 0
  Points <- MCPoints
  Start = "p1"
  Steps <- MCSteps
  Penalties = 2
  MaxHalving = 5
  MaxIterations = 6
  MaxProbes = 2
SPECIFICATION MCSpec
PROPERTY HardExitCompletes
