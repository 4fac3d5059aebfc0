SPECIFICATION FairSpec
CONSTANTS
  s1 = s1
  s2 = s2
  s3 = s3
  Site <- MCSite
  Accounts <- AllAccounts
  MaxAttempts = 2
  MaxMetrics = 1
INVARIANTS
  CounterExact
  OnePageLogin
  OneLogin
PROPERTY
  Answered
CHECK_DEADLOCK FALSE
