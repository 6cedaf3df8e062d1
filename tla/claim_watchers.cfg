CONSTANTS
  Readies = {r1, r2}
  Runs = {k1, k2}
  Syncers = {w1}
SPECIFICATION FairSpec
CHECK_DEADLOCK FALSE
PROPERTY RestartableAfterCrash
