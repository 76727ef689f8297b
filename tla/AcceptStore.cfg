SPECIFICATION FairSpec
CONSTANTS
  c1 = c1  c2 = c2  c3 = c3  d1 = d1  d2 = d2
  Calls <- MCCalls
  Deliveries <- MCTwo
  UseStore = TRUE
  Durable = TRUE
INVARIANTS TypeOK AcceptedOnce AcceptedIsComplete DuplicateHasRival
PROPERTIES DuplicateSettles ContractHolds
CHECK_DEADLOCK FALSE
