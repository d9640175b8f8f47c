SPECIFICATION Spec
CONSTANT
  Crates <- MCCrates
INVARIANTS
  NoSecondDrop
CHECK_DEADLOCK FALSE
