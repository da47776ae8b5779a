SPECIFICATION FairSpec
CONSTANTS
  N = 3
  LaunchLimit = 1
  LaunchInterval = 1
  RetryBase = 1
  RetryFactor = 2
  ShrinkDebounce = 1
  RecoveryInterval = 2
  MaxConcurrency = 2
  Limits <- EitherLimit
  MaxRetries = 2
  MaxBatchRetries = 2
  HostSignal = TRUE
  NoTimer = NoTimer
  Unsettled = Unsettled
  MaxNow = 12
INVARIANTS TypeOK EveryMemberAccounted NeverStalls
PROPERTIES LaunchesAreLawful KeepsContract RunResolves
CHECK_DEADLOCK FALSE
