SPECIFICATION Spec
CONSTANT
  Crates <- MCCrates
INVARIANTS
  DeclaredIsDefined
  OrderFree
CHECK_DEADLOCK FALSE
