SPECIFICATION Spec
CONSTANTS
  c1 = c1  c2 = c2  c3 = c3  d1 = d1  d2 = d2
  Calls <- MCCalls
  Deliveries <- MCTwo
  UseStore = FALSE
  Durable = TRUE
SYMMETRY MCSymmetry
INVARIANT LateRetryNotAccepted
CHECK_DEADLOCK FALSE
