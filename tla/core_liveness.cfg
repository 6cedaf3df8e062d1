CONSTANTS
  StartOps = {s1}
  StopOps = {}
  MaxLife = 1
  MaxCliStops = 0
  MaxInspectFailureAttempts = 1
  LineKinds <- OnlyReady
  InspectFails = FALSE
  ReadySyncs = FALSE
  Watching = TRUE
SPECIFICATION FairSpec
CHECK_DEADLOCK FALSE
PROPERTIES StartReturns StartingEnds DownIsNoticed UpIsNoticed
