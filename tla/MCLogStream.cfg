\* Two attempts, pages and segments of two.
SPECIFICATION Spec
CONSTANTS
  Threshold = 2
  Limit = 2
  MaxLines <- AttemptLines
  MaxAttempts = 2
  MaxTrouble = 1
CHECK_DEADLOCK FALSE
INVARIANTS TypeOK StreamInOrder StreamSkipsOnlyLate BuiltLogStored 
PROPERTIES StreamEnds
