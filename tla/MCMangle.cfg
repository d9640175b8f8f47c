SPECIFICATION Spec
CONSTANT
  Symbols <- MCSymbols
  Namespaces = {"N"}
INVARIANTS
  NameReadsBack
  MsvcNamesDiffer
  MacrosLink
CHECK_DEADLOCK FALSE
