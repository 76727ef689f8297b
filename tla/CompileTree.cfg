SPECIFICATION Spec
CONSTANTS
  Inputs <- MCInputs
  MaxDepth = 2
  MaxFiles = 10
  MaxFileBytes = 2
  MaxTotal = 11
  MaxChanges = 2
INVARIANTS TypeOK BoundsKept RecursionIsReal TooDeepIsReal ManifestIsComplete
PROPERTIES StopsAtBounds
