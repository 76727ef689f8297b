SPECIFICATION FairSpec
CONSTANTS
  r1 = r1  r2 = r2  d1 = d1
  Requests <- MCSingle
  Deliveries <- MCOne
  MaxCrashes = 0
PROPERTY AcceptedIsDispatched
CHECK_DEADLOCK FALSE
