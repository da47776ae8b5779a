SPECIFICATION Spec
CONSTANTS
  MaxSteps = 2
  MaxParallel = 2
  MaxExtensions = 1
  RepetitionRetries = 1
  MaxCalls = 3
  MaxArrivals = 2
  MaxRetries = 1
  ChainLengths <- BothChains
INVARIANTS
  AgentTypeOK
  ToolRowsAreHonest
  OutcomeIsHonest
  OneVoice
PROPERTIES
  LogKeepsProtocol
  TurnEnds
  LeftoversEnd
CHECK_DEADLOCK FALSE
