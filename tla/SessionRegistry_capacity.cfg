CONSTANTS
  Sessions = {d, s1, s2}
  Detached = d
  GenIds = {1}
  None = None
  MaxLive = 1
  MaxTurns = 1
  Autowake = TRUE
  IdleTtl = TRUE
  Workers = TRUE
  BuildFails = TRUE
SYMMETRY Symmetry
SPECIFICATION Spec
PROPERTIES AdmissionWithinCaps KeepsLifecycle
CHECK_DEADLOCK FALSE
