CONSTANTS
  Players = {p1}
  Capacity = 1
  MaxTurns = 2
SPECIFICATION Spec
INVARIANTS Settled
PROPERTY ShutdownIsFinal
CHECK_DEADLOCK FALSE
