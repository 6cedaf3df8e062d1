CONSTANTS
  StartOps = {}
  StopOps = {}
  MaxLife = 2
  MaxCliStops = 1
  MaxInspectFailureAttempts = 1
  LineKinds <- OnlyShutdown
  InspectFails = FALSE
  ReadySyncs = TRUE
  Watching = TRUE
SPECIFICATION Spec
CHECK_DEADLOCK FALSE
INVARIANTS NoOrphanWatcher
PROPERTIES IntentPrevails SlotImplemented
