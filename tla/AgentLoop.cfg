\* Two runs of up to two turns with two tool_use blocks each, on one agent.
SPECIFICATION FairSpec
CONSTANTS
  MaxSteps = 2
  MaxTurns = 3
  MaxUsage = 1
  MaxBlocks = 2
  MaxRuns = 2
  Attempts = 2
  HasContext = TRUE
  Slots = 2
  Answers <- OneAnswer
  NoAnswer = "none"
INVARIANTS
  TypeOK
  HistoryPaired
  NaturalEnd
  OverrunBounded
  ConsumerSeesAll
PROPERTIES
  CancelEndsRun
CHECK_DEADLOCK FALSE
