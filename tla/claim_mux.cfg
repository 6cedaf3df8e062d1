CONSTANTS
  Subs = {s1}
  Starts = {a1, a2}
  Stops = {b1}
  Closes = {}
  MaxRuns = 2
  MaxLines = 1
  Cap = 1
  FollowCap = 1
SPECIFICATION Spec
CHECK_DEADLOCK FALSE
INVARIANT NoPanic
