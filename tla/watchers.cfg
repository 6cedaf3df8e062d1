CONSTANTS
  Readies = {r1, r2}
  Runs = {k1, k2}
  Syncers = {w1, w2, w3}
SPECIFICATION Spec
SYMMETRY Symmetry
CHECK_DEADLOCK FALSE
INVARIANTS TypeOK RunsApart SyncersReached StopIsThorough
PROPERTIES SlotImplemented
