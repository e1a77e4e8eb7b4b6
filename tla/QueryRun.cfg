SPECIFICATION FairSpec
CONSTANTS
  None = None
  Setups <- MCSetups
  MaxBlocks = 2
  Attempts = 3
  MaxCrashes = 1
  MaxShort = 1
INVARIANTS
  TypeOK
  TranscriptKeepsDelivered
  ResultIsTruthful
  ClosedByTheEnd
  InputChecked
  WireComplete
PROPERTY RunEnds
CHECK_DEADLOCK FALSE
