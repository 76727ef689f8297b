SPECIFICATION Spec
CONSTANTS
  Inputs <- MCInputs
  MaxDepth = 3
  MaxFiles = 9
  MaxEntries = 21
  MaxFileBytes = 2
  MaxTotal = 10
  MaxChanges = 2
  MaxMemoryLines = 3
  MaxMemoryBytes = 6
  MarkerBytes = 2
INVARIANTS LimitsKept LoadIsComplete FailureIsReal MemoryIsBounded
