CONSTANTS
  Sessions = {d, s1}
  Detached = d
  GenIds = {1, 2}
  None = None
  MaxLive = 1
  MaxTurns = 1
  Autowake = FALSE
  IdleTtl = TRUE
  Workers = TRUE
  BuildFails = FALSE
SPECIFICATION FairSpec
INVARIANTS TypeOK SlotsMatchTurns LiveWorkKeepsItsGeneration
PROPERTIES KeepsLifecycle FreshAtTurnStart TeardownFinishes DeferredRebuildHappens
CHECK_DEADLOCK FALSE
