CONSTANTS
  MaxLives = 2
  MaxAttempts = 1
  MaxFaults = 1
SPECIFICATION Spec
CHECK_DEADLOCK FALSE
PROPERTY ButtonStopPrevails
