\* Two calls behind a permission gate, with fairness of the event loop only.
SPECIFICATION FairSpec
CONSTANTS
  N = 2
  MaxConcurrency = 1
  HasGate = TRUE
  Kinds <- MixedKinds
INVARIANTS
  CompletionsAgree
  EveryTaskAnswers
  ReasonsNameTheCause
PROPERTIES
  ImplementsDispatch
  CancelSettles
  RaiseExits
  WaitAllReturns
