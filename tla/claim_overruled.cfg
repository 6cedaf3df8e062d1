CONSTANTS
  StartOps = {s1, s2}
  StopOps = {}
  MaxLife = 1
  MaxCliStops = 0
  MaxInspectFailureAttempts = 1
  LineKinds <- OnlyReady
  InspectFails = FALSE
  ReadySyncs = FALSE
  Watching = TRUE
SPECIFICATION ClaimSpec
CHECK_DEADLOCK FALSE
SYMMETRY Symmetry
INVARIANT OverruledNeverSucceeds
