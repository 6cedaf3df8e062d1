CONSTANTS
  Players = {p1}
  Capacity = 1
  MaxTurns = 2
SPECIFICATION Spec
PROPERTY NotRestarted
CHECK_DEADLOCK FALSE
