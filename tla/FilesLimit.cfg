SPECIFICATION Spec
CONSTANTS
  w1 = w1  w2 = w2  w3 = w3
  p1 = p1  p2 = p2  p3 = p3  p4 = p4
  Writers <- MCWriters
  Paths <- MCPaths
  MaxEntries = 1
SYMMETRY MCSymmetry
INVARIANTS NothingHalfWritten WrittenStays OvershootBounded
CHECK_DEADLOCK FALSE
