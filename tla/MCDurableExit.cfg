SPECIFICATION Spec
CONSTANTS
  w1 = w1
  w2 = w2
  None = None
  Destinations = {w1}
  max_attempts = 2
  max_recovery_records = 1
  MaxCommands = 2
  MaxFaults = 0
  MaxReplays = 0
  MaxTight = 0
CHECK_DEADLOCK FALSE
INVARIANTS
  DocumentedExit
