SPECIFICATION FairSpec
CONSTANTS
  c1 = c1
  c2 = c2
  Components = {c1, c2}
  success_threshold = 2
  failure_threshold = 3
  U32Max = 3
CHECK_DEADLOCK FALSE
PROPERTIES
  FailureEndsDaemon
  MonitoredGrpcAgrees
  ReadyFollowsKafka
