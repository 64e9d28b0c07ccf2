SPECIFICATION RestoreMayFail
CONSTANTS
  Subjects = {"slots"}
  NumRequests = 2
  SlotLimit = 2
  MayFail <- AnyFault
  Key = {1, 2, 3, 4, 5, 6}
  SinglePenalty <- Small
  SingleCapacity = 2
  MultiCapacity = 2
  HostCapacity = 5
  Levels <- SmallLevels
  Width <- UnitWidth
  WaveCap = 2
  Starts = {TRUE, FALSE}
PROPERTIES
  Terminates
CHECK_DEADLOCK FALSE
