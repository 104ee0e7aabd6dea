SPECIFICATION DeliveryFairSpec
CONSTANTS
  p1 = p1
  w1 = w1
  None = None
  Partitions = {p1}
  Destinations = {w1}
  queue_capacity = 1
  commit_invalid_messages = FALSE
  MaxRecords = 2
  MaxFaults = 1
  max_attempts = 2
  max_recovery_records = 4
  MaxCommands = 4
  MaxRestarts = 1
CHECK_DEADLOCK FALSE
INVARIANTS
  PersistNeverWaits
PROPERTIES
  KeepsPromise
  EveryDeliverySettled
