\* The scheduler: releases are placed, moved, given back and expire.
SPECIFICATION Spec
CONSTANTS
  r1 = r1
  r2 = r2
  Node = {1, 2}
  Release <- MCRelease
  Totals = {3}
  Slots = {2}
  Size <- MCSize
  Caller = {c1, c2}
  Handler = {h1}
  MaxPlacements = 3
  MaxBeats = 0
  MaxChanges = 0
  None = None
SYMMETRY CallerSymmetry
INVARIANTS LedgerCovers 
