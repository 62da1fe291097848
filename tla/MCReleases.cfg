SPECIFICATION FairSpec
CONSTANTS
  MaxReleases = 3
  Op = {o1, o2}
  Recovery = Recovery
  Rollbacks = FALSE
  RecoveryOverlaps = FALSE
  MaxCrashes = 2
  None = None
INVARIANTS RouteServes 
PROPERTY ReleasesSettle
CHECK_DEADLOCK FALSE
