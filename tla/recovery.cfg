CONSTANTS
  MaxLives = 2
  MaxAttempts = 1
  MaxFaults = 1
SPECIFICATION FairSpec
INVARIANTS OneRestart
PROPERTIES StopPrevails NoOldExcuse CrashIsRecovered
CHECK_DEADLOCK FALSE
