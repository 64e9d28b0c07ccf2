CONSTANTS
  Subjects = {"frontier", "permuted", "ledger"}
  P = 4
  Alpha = 1
  PTop = 1
  MaxLevel = 2
  MarginalPairs <- LastTwoPairs
  WaveCapacity = 2
  PositiveMissOnly = TRUE
  LegacyRPermutation = FALSE
  LedgerOptions <- EveryRoute
SPECIFICATION MCSpec
INVARIANTS FrontierPartition FrontierAccounting ConsumedPrefix LedgerSound
PROPERTIES RefinesLevels PermutedStreamOrder FrontierEnds
CHECK_DEADLOCK FALSE
