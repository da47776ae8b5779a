SPECIFICATION Spec
CONSTANTS
  h1 = h1
  h2 = h2
  w1 = w1
  w2 = w2
  Hosts = {h1, h2}
  Wids = {w1}
  Pids = {1}
  NoRow = NoRow
  Names <- SameNames
  Driving = {h1, h2}
  Reporting = {w1}
  Claims <- FirstClaimedBySecond
  MaxRetries = 1
  Recover = FALSE
  MaxCrashes = 0
  MaxFaults = 0
PROPERTY
  TerminalRowsFrozen
CHECK_DEADLOCK FALSE
