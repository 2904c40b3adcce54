SPECIFICATION FairSpec
CONSTANTS
  A = A
  B = B
  Transfers <- TwoAndNone
  Reveals <- None
  MayClose = FALSE
  MaxInFlight = 1
  MaxCrashes = 1
CHECK_DEADLOCK FALSE
PROPERTY EventuallyDrained
