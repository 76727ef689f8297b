SPECIFICATION FairSpec
CONSTANTS
  r1 = r1  r2 = r2  d1 = d1
  Requests <- MCPair
  Deliveries <- MCOne
  MaxCrashes = 1
INVARIANTS TypeOK OneRunPerDelivery ShutdownReachesRuns
PROPERTIES CloseReturns ReachableIsDispatched
CHECK_DEADLOCK FALSE
