SPECIFICATION FairSpec
CONSTANTS
  Deployment = {d1}
  Worker = {w1, w2}
  Client = {c1, c2}
  MaxAttempts = 2
  ReaperRuns = FALSE
  MaxCrashes = 0
  CrashKinds = {}
  None = None
INVARIANTS OneWorkerPerJob QueuedJobHasEntry RunningAttemptHasWorker
PROPERTIES ImplementsLifecycle JobsSettle
