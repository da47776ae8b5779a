SPECIFICATION Spec
CONSTANTS
  c1 = c1
  c2 = c2
  Calls <- TwoCalls
  Supervised = TRUE
  MaxAttempts = 3
  InitialDelay = 2
  MaxDelay = 2
  Never = Never
  None = None
  MaxOpens = 4
  MaxTimers = 2
  MaxOrphans = 1
  MaxNow = 6
SYMMETRY CallSymmetry
INVARIANTS TypeOK StateIsHonest OneProcessInUse
CHECK_DEADLOCK FALSE
