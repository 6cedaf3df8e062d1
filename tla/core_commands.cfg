CONSTANTS
  StartOps = {s1}
  StopOps = {p1}
  MaxLife = 1
  MaxCliStops = 0
  MaxInspectFailureAttempts = 1
  LineKinds <- OnlyFail
  InspectFails = TRUE
  ReadySyncs = FALSE
  Watching = TRUE
SPECIFICATION Spec
CHECK_DEADLOCK FALSE
INVARIANTS VerdictsSerialised StartingHasOwner StoppingHasOwner
