\* A request that is under way when the agent is cancelled.
SPECIFICATION Spec
CONSTANTS
  MaxSteps = 2
  MaxTurns = 3
  MaxUsage = 1
  MaxBlocks = 2
  MaxRuns = 2
  Attempts = 2
  HasContext = TRUE
  Slots = 2
  Answers <- OneAnswer
  NoAnswer = "none"
PROPERTIES
  NoRequestAfterCancel
CHECK_DEADLOCK FALSE
