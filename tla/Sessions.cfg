\* Two handles, two sessions of at most one message, on either store.
SPECIFICATION Spec
CONSTANTS
  Handles = {h1, h2}
  Ids = {i1, i2}
  Backends = {"memory", "sqlite"}
  MaxLen = 1
  MaxClock = 1
  Absent = Absent
  NoId = NoId
  Idle = Idle
SYMMETRY Alike
PROPERTIES
  CreatedStable
  ForkNeverOverwrites
CHECK_DEADLOCK FALSE
