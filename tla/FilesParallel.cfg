SPECIFICATION Spec
CONSTANTS
  w1 = w1  w2 = w2  w3 = w3
  p1 = p1  p2 = p2  p3 = p3  p4 = p4
  Writers <- MCPair
  Paths <- MCPaths
  MaxEntries = 6
INVARIANT ParallelWritersAdd
CHECK_DEADLOCK FALSE
