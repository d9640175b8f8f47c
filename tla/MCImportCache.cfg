SPECIFICATION Spec
CONSTANTS
  Proc = {p1, p2}
  f1 = f1
  f2 = f2
  t1 = t1
  HeaderGraphs <- TwoRoots
  Included = {}
  None = None
  Text = {v1, v2}
  MaxEdits = 1
  MaxRuns = 3
SYMMETRY Symmetry
INVARIANTS HitRootsFresh IdsCoverRoots
PROPERTY NoNeedlessMiss
CHECK_DEADLOCK FALSE
