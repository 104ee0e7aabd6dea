SPECIFICATION FairSpec
CONSTANTS
  w1 = w1
  w2 = w2
  None = None
  Destinations = {w1, w2}
  max_attempts = 2
  max_recovery_records = 1
  MaxCommands = 2
  MaxFaults = 1
  MaxReplays = 1
  MaxTight = 1
CHECK_DEADLOCK FALSE
INVARIANTS
  NoCommandLost
  
  AttemptsBounded
PROPERTIES
  EveryCommandEnds
