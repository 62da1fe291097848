SPECIFICATION Spec
CONSTANTS
  Deployment = {d1}
  Worker = {w1}
  Client = {c1}
  MaxAttempts = 1
  ReaperRuns = FALSE
  MaxCrashes = 0
  CrashKinds = {}
  None = None
PROPERTY CancelledDeploymentStays
