SPECIFICATION FairSpec
CONSTANTS
  s1 = s1
  s2 = s2
  NoCall = NoCall
  Secrets = {s1, s2}
  Calls = {c1, c2}
  Batches <- Mixed
  CONFIRMATIONS = 1
CHECK_DEADLOCK FALSE
INVARIANTS
  TypeOK
  RegisteredOnce
  ReturnMeansRegistered
PROPERTIES
  EndsUnlessDropped
