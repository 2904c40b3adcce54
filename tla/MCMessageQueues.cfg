SPECIFICATION Spec
CONSTANTS
  A = A
  B = B
  Transfers <- OneAndNone
  Reveals <- OneAndNone
  MayClose = TRUE
  MaxInFlight = 2
  MaxCrashes = 1
INVARIANTS TypeOK UnacceptedStaysQueued GlobalLostOnlyByCutoff
CHECK_DEADLOCK FALSE
