CONSTANTS
  Interactions = {i1, i2, i3}
  Users = {u1, u2}
  Nobody = nobody
  MaxFaults = 1
  MaxMoves = 1
SPECIFICATION FairSpec
PROPERTIES StopIsConfirmed NoReplay StoreDrains
CHECK_DEADLOCK FALSE
