CONSTANTS
  Players = {p1}
  Capacity = 1
  MaxTurns = 2
SPECIFICATION Spec
CHECK_DEADLOCK FALSE
INVARIANT OfflineStays
