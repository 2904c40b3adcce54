SPECIFICATION FairSpec
CONSTANTS
  A = A
  B = B
  C = C
  T = T
  Nodes = {A, B, C, T}
  Initiator = A
  Target = T
  NoNode = NoNode
  Routes <- DeadEnd
  REVEAL_TIMEOUT = 2
  DEFAULT_NUMBER_OF_BLOCK_CONFIRMATIONS = 1
  MAX_LAG = 0
  MINING_DELAY = 1
  MaxBlock = 8
  MaxNodeChanges = 2
INVARIANTS MediatorNeverLoses LocksHaveTasks SanityChecksHold
PROPERTIES EveryLockResolved
CHECK_DEADLOCK FALSE
