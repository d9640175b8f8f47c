SPECIFICATION Spec
CONSTANTS
  Usr = {"A", "B", "C"}
  NoUsr = "none"
  Scalar = "scalar"
  Unsupported = "unsupported"
  Programs <- MCPrograms
  MaxDepth = 6
INVARIANTS
  DefinedIsImported
  OneClassPerRecord
  PolyClosed
  MethodsInOrder
PROPERTY
  UpgradeAtomic
CHECK_DEADLOCK FALSE
