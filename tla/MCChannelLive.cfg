SPECIFICATION FairSpec
CONSTANTS
  Alice = Alice
  Bob = Bob
  s1 = s1
  s2 = s2
  Locks <- EarlyAndLate
  InitialDeposit <- Deposit10
  DepositAmounts = {1}
  MaxDeposits = 1
  MaxBlock = 4
  MaxNonce = 2
  UINT256_MAX = 7
  MAXIMUM_PENDING_TRANSFERS = 2
  DEFAULT_NUMBER_OF_BLOCK_CONFIRMATIONS = 1
INVARIANTS BalanceProofsCovered LocksCoherent NeverStuck NoExpiryOfRegistered
PROPERTY EventuallyInSync
CHECK_DEADLOCK FALSE
