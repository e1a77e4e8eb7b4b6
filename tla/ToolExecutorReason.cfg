\* The reason text of a call that was running when the async-with body raised.
SPECIFICATION Spec
CONSTANTS
  N = 2
  MaxConcurrency = 1
  HasGate = FALSE
  Kinds <- TwoKinds
INVARIANTS
  AbortReasonMeansSiblingError
