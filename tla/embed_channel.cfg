CONSTANTS
  Channels = {c1, c2}
  Default = c1
  Retries = 1
  MaxFaults = 2
  MaxDeletes = 1
SPECIFICATION FairSpec
INVARIANTS TypeOK OwnMessage ConfigAgrees OneControl
PROPERTY Reappears
