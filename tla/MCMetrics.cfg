SPECIFICATION Spec
CONSTANTS
  r1 = r1
  r2 = r2
  Recorders = {r1, r2}
  Buckets <- MCBuckets
  Bounds <- MCBounds
  Durations <- MCDurations
  MaxJobs = 2
  MaxScrapes = 2
SYMMETRY MCSymmetry
CHECK_DEADLOCK FALSE
INVARIANTS  TornByOverlapOnly
 
