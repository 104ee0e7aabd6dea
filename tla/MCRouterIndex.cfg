SPECIFICATION Spec
CONSTANTS
  t1 = t1
  t2 = t2
  a = a
  b = b
  c1 = c1
  c2 = c2
  s1 = s1
  s2 = s2
  Tenants = {t1, t2}
  Values = {a, b}
  None = None
  Invalid = Invalid
  ConnectionIds = {c1, c2}
  SubscriptionIds = {s1, s2}
  Protocols = {"WebSocket"}
  Callers = {"api"}
  Dispatchers = {"ingestor"}
  Filters <- IndexFilters
  Messages <- IndexMessages
  Capacities = {1}
  max_queue_capacity = 1
  max_connections = 2
  max_connections_per_tenant = 2
  max_subscriptions = 2
  max_subscriptions_per_tenant = 4
  max_subscriptions_per_connection = 2
  slow_consumer_strikes = 1
SYMMETRY MCSymmetry
INVARIANTS
  IndexExact
  NothingMissed
  NothingStale
  ChannelClosedLast
  TenantIsolation
  
