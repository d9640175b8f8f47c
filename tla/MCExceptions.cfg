SPECIFICATION Spec
CONSTANTS
  Thread = {t1, t2}
  runtime_error = runtime_error
  range_error = range_error
  number = number
  lookup = lookup
  make = make
  pad = pad
  gccPad = gccPad
  Site = {lookup, make, pad, gccPad}
  Exc = {runtime_error, range_error, number}
  Std = {runtime_error, range_error}
  Bases <- MCBases
  Catches <- MCCatches
  Native = {pad, gccPad}
  Exact = {gccPad}
  Msg <- MCMsg
  Fixed = Fixed
  MaxDepth = 2
  Ret <- MCRet
  MaxRaise = 2
INVARIANTS CatchesBalanced SlotAgreesWithTag
PROPERTY ImplementsCalls
