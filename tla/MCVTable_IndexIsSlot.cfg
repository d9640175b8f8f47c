SPECIFICATION Spec
CONSTANTS
  Sig = {"f", "f2", "g", "h", "op", "dtor"}
  Programs <- MCPrograms
  NameOf <- MCNameOf
  ParamsOf <- MCParamsOf
  MsvcNameOf <- MCMsvcNameOf
  NoName = "none"
INVARIANT
  IndexIsSlot
CHECK_DEADLOCK FALSE
