SPECIFICATION Spec
CONSTANTS
  Sig = {"f", "f2", "g", "h", "op", "dtor"}
  Programs <- MCPrograms
  NameOf <- MCNameOf
  ParamsOf <- MCParamsOf
  MsvcNameOf <- MCMsvcNameOf
  NoName = "none"
INVARIANTS
  SlotsExtendBase
  FinalOverrider
  OneSlotEach
  SecondaryOverridden
  AttrRebuildsTable
  VttCoversTables
  MsvcTableExtendsBase
CHECK_DEADLOCK FALSE
