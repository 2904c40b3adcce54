CONSTANTS
  A = A
  B = B
  MaxNonce = 1
  ProofsWithLocks <- FirstProofLocked
  SETTLE_TIMEOUT = 1
  LastOpenBlock = 2
  MaxCrashes = 0
SPECIFICATION FairSpec
CHECK_DEADLOCK FALSE
PROPERTY
  UnlocksSettledLocks
