SPECIFICATION Spec
CONSTANTS
  MaxReleases = 3
  Op = {o1}
  Recovery = Recovery
  Rollbacks = TRUE
  RecoveryOverlaps = FALSE
  MaxCrashes = 0
  None = None
INVARIANT RouteServes
CHECK_DEADLOCK FALSE
