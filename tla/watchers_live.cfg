CONSTANTS
  Readies = {r1}
  Runs = {k1}
  Syncers = {w1, w2}
SPECIFICATION FairSpec
CHECK_DEADLOCK FALSE
PROPERTIES ShutdownEnds SyncReturns
