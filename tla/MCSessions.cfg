SPECIFICATION ReadingSpec
CONSTANTS
  v = v
  w = w
  x = x
  Sessions = {v, w}
  Openings <- WebSocketAndAnother
  SubscriptionIds = {x}
  queue_capacity = 1
  slow_consumer_strikes = 1
  max_subscriptions = 1
  MaxMessages = 2
  MaxCommands = 2
CHECK_DEADLOCK FALSE
INVARIANTS
  NothingLeftBehind
  ViewAgrees
  AckFirst
  EndExplained

  
