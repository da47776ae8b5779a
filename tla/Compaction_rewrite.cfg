SPECIFICATION Spec
CONSTANTS
  k1 = k1
  k2 = k2
  Requests <- TwoRequests
  Threshold = 3
  KeepTurns = 1
  HeadTurns = 1
  None = None
  Initial = 3
  MaxTurns = 6
  MaxEditions = 3
SYMMETRY RequestSymmetry
INVARIANTS TypeOK MirrorIsLog UnfinishedIsVisible SidecarFits IdsGrow
PROPERTY HistoryIsKept
CHECK_DEADLOCK FALSE
