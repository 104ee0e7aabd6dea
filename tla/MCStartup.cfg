SPECIFICATION FairSpec
CONSTANTS
  None = None
  Files <- MCFiles
  Environments <- MCEnvironments
  Documents <- MCDocuments
  Credentials <- MCAllCredentials
  Resolutions <- MCResolutions
  MaxResolved = 2
  MaxRewrites = 2
  MaxLookups = 2
CHECK_DEADLOCK FALSE
INVARIANTS AcceptedServes TrustIsLocal  PrincipalEarned EgressChecked
PROPERTIES RotationLands
