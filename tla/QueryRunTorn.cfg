SPECIFICATION Spec
CONSTANTS
  None = None
  Setups <- MCSetups
  MaxBlocks = 1
  Attempts = 1
  MaxCrashes = 1
  MaxShort = 0
INVARIANT PartialLinesAreSkipped
CHECK_DEADLOCK FALSE
