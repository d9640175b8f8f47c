SPECIFICATION Spec
CONSTANT Programs <- MCPrograms
  WordBits = 8
INVARIANTS CallsDeliver LiteralsKeepValues ShimsDefined NamesUnique NearestForwarded DropRunsChain HeadersBuild
CHECK_DEADLOCK FALSE
