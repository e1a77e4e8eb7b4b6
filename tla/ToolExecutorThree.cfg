\* Three calls and one slot for the safe ones, so that calls queue for both lines.
SPECIFICATION Spec
CONSTANTS
  N = 3
  MaxConcurrency = 1
  HasGate = FALSE
  Kinds <- TwoKinds
INVARIANTS
  TypeOK
  ConcurrencyLimits
  SlotsConserved
  PendingCountsTasks
  CancelReachesAll
  AbortHasCulprit
PROPERTIES
  OnlyDrainsAfterCancel
