SPECIFICATION Spec
CONSTANTS
  MaxReleases = 2
  Op = {o1, o2}
  Recovery = Recovery
  Rollbacks = TRUE
  RecoveryOverlaps = TRUE
  MaxCrashes = 1
  None = None
INVARIANTS TypeOK HistoryComplete
PROPERTY LegalTransitions
CHECK_DEADLOCK FALSE
SYMMETRY OpSymmetry
