CONSTANTS
  Subs = {s1}
  Starts = {a1, a2}
  Stops = {b1}
  Closes = {c1, c2}
  MaxRuns = 2
  MaxLines = 1
  Cap = 1
  FollowCap = 1
SPECIFICATION FairSpec
CHECK_DEADLOCK FALSE
INVARIANTS OneRun InOrder CloseIsFinal
PROPERTIES NoSendOnClosed CloseEnds StopEnds
