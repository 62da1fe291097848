\* Envelopes delivered late and more than once, two handled at a time.
SPECIFICATION Spec
CONSTANTS
  MaxSkew = 2
  Drift = {1, 5}
  Lag = 1
  Commands = {"create", "start", "stop", "forbidden"}
  Handler = {h1, h2}
  MaxTime = 8
  MaxCalls = 2
  MaxTrouble = 1
SYMMETRY HandlerSymmetry
CHECK_DEADLOCK FALSE
INVARIANTS TypeOK ExecutedOnce StopHolds RetiredStayInvalid
