CONSTANTS
  StartOps = {}
  StopOps = {}
  MaxLife = 1
  MaxCliStops = 1
  MaxInspectFailureAttempts = 1
  LineKinds <- OnlyReady
  InspectFails = FALSE
  ReadySyncs = TRUE
  Watching = TRUE
SPECIFICATION ClaimSpec
CHECK_DEADLOCK FALSE
PROPERTY CliStopIsNoCrash
