SPECIFICATION Spec
CONSTANTS
  h1 = h1
  h2 = h2
  w1 = w1
  w2 = w2
  Hosts = {h1, h2}
  Wids = {w1, w2}
  Pids = {1, 2}
  NoRow = NoRow
  Names <- OwnNames
  Driving = {h1}
  Reporting = {w1, w2}
  Claims <- FirstClaimedBySecond
  MaxRetries = 1
  Recover = TRUE
  MaxCrashes = 1
  MaxFaults = 1
INVARIANTS
  TypeOK
  DoneHasReport
PROPERTIES
  TerminalRowsFrozen
  AbandonedRowsSettle
CHECK_DEADLOCK FALSE
