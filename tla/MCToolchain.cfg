SPECIFICATION FairSpec
CONSTANTS
  Proc = {p1, p2}
  h1 = h1
  r1 = r1
  t1 = t1
  Hdr = {h1, h2}
  Rs = {r0, r1}
  HasRust = {r1}
  Modes = {"stubs", "both"}
  Tools = {t1, t2}
  Libclang = TRUE
  NoTool = NoTool
  None = None
  Torn = Torn
  First <- FirstBuild
  MaxEdits = 1
  MaxFaults = 1
INVARIANT IncrementalSound
PROPERTY BuildsConverge
CHECK_DEADLOCK FALSE
