SPECIFICATION Spec
CONSTANTS
  PtrSize = 4
  PackTo = 2
  Programs <- MCPrograms
  Names = {"A", "~A", "f"}
  Overloads <- MCOverloads
INVARIANTS
  TypeOK
  SubobjectsDisjoint
  SubobjectsInside
  SubobjectsAligned
  BitfieldsReadBack
  LoweredCallsFit
  EmptyBasesApart
  MsvcNoTailReuse
CHECK_DEADLOCK FALSE
