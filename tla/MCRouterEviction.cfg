SPECIFICATION FairSpec
CONSTANTS
  t1 = t1
  t2 = t2
  a = a
  b = b
  c1 = c1
  c2 = c2
  s1 = s1
  s2 = s2
  Tenants = {t1}
  Values = {a, b}
  None = None
  Invalid = Invalid
  ConnectionIds = {c1}
  SubscriptionIds = {s1}
  Protocols = {"WebSocket"}
  Callers = {"api"}
  Dispatchers = {"ingestor", "other"}
  Filters <- OneFilter
  Messages <- OneMessage
  Capacities = {1}
  max_queue_capacity = 1
  max_connections = 2
  max_connections_per_tenant = 2
  max_subscriptions = 4
  max_subscriptions_per_tenant = 4
  max_subscriptions_per_connection = 2
  slow_consumer_strikes = 2
INVARIANTS
  StruckOutIsEvicted
  
PROPERTIES
  DispatchEnds
