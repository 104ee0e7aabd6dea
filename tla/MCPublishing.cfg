SPECIFICATION PublishingSpec
CONSTANTS
  None = None
  Invalid = Invalid
  Tenants <- MCTenants
  Values <- MCValues
  principal <- MCPrincipal
  publish_max_payload_bytes = 4
  max_payload_bytes = 3
  Calls = {1, 2}
  Requests <- MCRequests
  ForeignRecords <- MCForeign
  MaxTraffic = 2
CHECK_DEADLOCK FALSE
INVARIANTS
  RoundTrip
  AnswerSettles
  
  IdNamesMessage
