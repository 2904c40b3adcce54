SPECIFICATION Spec
CONSTANTS
  Alice = Alice
  Bob = Bob
  s1 = s1
  s2 = s2
  Locks <- TwoLocks
  InitialDeposit <- Deposit30
  DepositAmounts = {1}
  MaxDeposits = 0
  MaxBlock = 4
  MaxNonce = 3
  UINT256_MAX = 7
  MAXIMUM_PENDING_TRANSFERS = 2
  DEFAULT_NUMBER_OF_BLOCK_CONFIRMATIONS = 1
INVARIANTS TypeOK PartnerViewIsPast BalanceProofsCovered
PROPERTY OnlyPaymentRemovesClaimable
CHECK_DEADLOCK FALSE
