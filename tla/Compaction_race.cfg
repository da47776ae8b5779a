SPECIFICATION Spec
CONSTANTS
  k1 = k1
  k2 = k2
  Requests <- OneRequest
  Threshold = 3
  KeepTurns = 1
  HeadTurns = 1
  None = None
  Initial = 3
  MaxTurns = 5
  MaxEditions = 2
INVARIANT NoRowAdrift
CHECK_DEADLOCK FALSE
