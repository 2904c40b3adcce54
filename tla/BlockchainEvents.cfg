SPECIFICATION FairSpec
CONSTANTS
  TokenNetworks = {n1,n2}
  Registry = Registry
  SecretRegistry = SecretRegistry
  NoNetwork = NoNetwork
  CONFIRMATION_BLOCKS = 1
  FILTER_MAX_BLOCK_RANGE = 1
  MaxBlock = 3
  MaxCrashes = 1
CHECK_DEADLOCK FALSE
INVARIANTS
  TypeOK
  NoEventLost
  AppliedInChainOrder
PROPERTIES
  CatchesUp
