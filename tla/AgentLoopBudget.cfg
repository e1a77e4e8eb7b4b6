\* The order of the budget check and the wait for the calls.
SPECIFICATION Spec
CONSTANTS
  MaxSteps = 2
  MaxTurns = 3
  MaxUsage = 1
  MaxBlocks = 2
  MaxRuns = 2
  Attempts = 2
  HasContext = TRUE
  Slots = 2
  Answers <- OneAnswer
  NoAnswer = "none"
PROPERTIES
  CallsAnsweredBeforeCheck
CHECK_DEADLOCK FALSE
