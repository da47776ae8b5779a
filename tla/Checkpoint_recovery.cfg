SPECIFICATION Spec
CONSTANTS
  g1 = g1
  g2 = g2
  m1 = m1
  m2 = m2
  Gens = {g1, g2}
  None = None
  NoSidecar = NoSidecar
  Msgs = {m1, m2}
  MaxTurn = 3
  MaxCrashes = 2
  ConfigDuringTurn = FALSE
  SidecarFails = FALSE
INVARIANTS TypeOK CrashedTurnIsClosed CleanExitIsHonest
PROPERTY KeepsMessages
CHECK_DEADLOCK FALSE
