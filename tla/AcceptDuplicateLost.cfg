SPECIFICATION Spec
CONSTANTS
  c1 = c1  c2 = c2  c3 = c3  d1 = d1  d2 = d2
  Calls <- MCPair
  Deliveries <- MCOne
  UseStore = TRUE
  Durable = TRUE
INVARIANT DuplicateMeansAccepted
CHECK_DEADLOCK FALSE
