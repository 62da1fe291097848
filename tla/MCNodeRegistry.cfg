\* The registry: heartbeats, operators and the monitor write the same rows.
SPECIFICATION Spec
CONSTANTS
  r1 = r1
  r2 = r2
  Node = {1}
  Release <- MCRelease
  Totals = {1, 2}
  Slots = {1}
  Size <- MCSize
  Caller = {c1}
  Handler = {h1, h2}
  MaxPlacements = 1
  MaxBeats = 2
  MaxChanges = 3
  None = None
SYMMETRY HandlerSymmetry
INVARIANT TypeOK
PROPERTY ReopenedOnPurpose
