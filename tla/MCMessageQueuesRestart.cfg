SPECIFICATION FairSpec
CONSTANTS
  A = A
  B = B
  Transfers <- OneAndNone
  Reveals <- None
  MayClose = FALSE
  MaxInFlight = 1
  MaxCrashes = 1
PROPERTY QueuesSentAfterRestart
CHECK_DEADLOCK FALSE
