SPECIFICATION Spec
CONSTANTS
  A = A
  B = B
  C = C
  T = T
  Nodes = {A, B, T}
  Initiator = A
  Target = T
  NoNode = NoNode
  Routes <- Line
  REVEAL_TIMEOUT = 3
  DEFAULT_NUMBER_OF_BLOCK_CONFIRMATIONS = 1
  MAX_LAG = 1
  MINING_DELAY = 1
  MaxBlock = 12
  MaxNodeChanges = 2
INVARIANTS TypeOK MediatorNeverLoses OnchainUnlocksAtomic LocksHaveTasks
CHECK_DEADLOCK FALSE
