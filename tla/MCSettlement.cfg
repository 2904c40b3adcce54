CONSTANTS
  A = A
  B = B
  MaxNonce = 1
  ProofsWithLocks <- FirstProofLocked
  SETTLE_TIMEOUT = 1
  LastOpenBlock = 2
  MaxCrashes = 1
SPECIFICATION FairSpec
CHECK_DEADLOCK FALSE
INVARIANTS
  TypeOK
  OwedIsPending
  ForgottenOnlyWhenEmpty
  NothingLeftPending
PROPERTIES
  PaysLastAccepted
  ClosingSettles
