CONSTANTS
  Subjects = {"ledger"}
  P = 4
  Alpha = 1
  PTop = 1
  MaxLevel = 2
  MarginalPairs <- LastTwoPairs
  WaveCapacity = 2
  PositiveMissOnly = TRUE
  LegacyRPermutation = FALSE
  LedgerOptions <- HsicOnly
SPECIFICATION MCSpec
INVARIANT ReplayAccepted
CHECK_DEADLOCK FALSE
