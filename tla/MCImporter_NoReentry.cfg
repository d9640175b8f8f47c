SPECIFICATION Spec
CONSTANTS
  Usr = {"A", "B", "C"}
  NoUsr = "none"
  Scalar = "scalar"
  Unsupported = "unsupported"
  Programs <- MCPrograms
  MaxDepth = 6
INVARIANT
  NoReentry
CHECK_DEADLOCK FALSE
