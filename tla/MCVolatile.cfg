SPECIFICATION FairSpec
CONSTANTS
  w1 = w1
  w2 = w2
  Destinations = {w1, w2}
  queue_capacity = 1
  slow_consumer_strikes = 2
  max_attempts = 4
  initial_backoff = 2
  max_backoff = 7
  MaxMessages = 3
CHECK_DEADLOCK FALSE
INVARIANTS
  MessagesInOrder
PROPERTIES
  EveryDeliveryEnds
