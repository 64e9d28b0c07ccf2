SPECIFICATION MCSpec
CONSTANTS
  Subjects = {"slots", "windows"}
  NumRequests = 4
  SlotLimit = 2
  MayFail <- AnyFault
  Key = {1, 2, 3, 4, 5, 6}
  SinglePenalty <- Small
  SingleCapacity = 2
  MultiCapacity = 2
  HostCapacity = 5
  Levels <- SmallLevels
  Width <- UnitWidth
  WaveCap = 2
  Starts = {TRUE, FALSE}
INVARIANTS
  LeaseCoversCopies
  ResultComplete
  Quiesced
  PrefillSound
PROPERTIES
  EndsIfRestored
  WindowCollected
CHECK_DEADLOCK FALSE
