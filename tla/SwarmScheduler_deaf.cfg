SPECIFICATION Spec
CONSTANTS
  N = 2
  LaunchLimit = 1
  LaunchInterval = 1
  RetryBase = 2
  RetryFactor = 2
  ShrinkDebounce = 1
  RecoveryInterval = 4
  MaxConcurrency = 1
  Limits <- AttemptLimit
  MaxRetries = 2
  MaxBatchRetries = 3
  HostSignal = FALSE
  NoTimer = NoTimer
  Unsettled = Unsettled
  MaxNow = 4
PROPERTIES StopReachesTheBatch
CHECK_DEADLOCK FALSE
