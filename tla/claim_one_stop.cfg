CONSTANTS
  Interactions = {i1, i2, i3}
  Users = {u1, u2}
  Nobody = nobody
  MaxFaults = 1
  MaxMoves = 1
SPECIFICATION Spec
CHECK_DEADLOCK FALSE
INVARIANT OneStop
