CONSTANTS
  Setups = {s1}
  Commands = {c1, c2}
  MaxFaults = 2
  MaxKills = 1
SPECIFICATION Spec
INVARIANTS AllOrNothing LeavesNothing
PROPERTIES NothingLost
CHECK_DEADLOCK FALSE
