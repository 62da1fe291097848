SPECIFICATION Spec
CONSTANTS
  Deployment = {d1}
  Worker = {w1, w2}
  Client = {c1}
  MaxAttempts = 2
  ReaperRuns = TRUE
  MaxCrashes = 1
  CrashKinds = {"worker", "request", "reaper"}
  None = None
INVARIANTS TypeOK OwnedIffRunning BuildsBounded
PROPERTIES SettledJobsStay LeaseIsTheWorkers
SYMMETRY WorkerSymmetry
