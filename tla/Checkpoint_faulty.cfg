SPECIFICATION Spec
CONSTANTS
  g1 = g1
  g2 = g2
  m1 = m1
  m2 = m2
  Gens = {g1, g2}
  None = None
  NoSidecar = NoSidecar
  Msgs = {m1}
  MaxTurn = 2
  MaxCrashes = 2
  ConfigDuringTurn = TRUE
  SidecarFails = TRUE
INVARIANT LogWellFormed

CHECK_DEADLOCK FALSE
