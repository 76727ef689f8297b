SPECIFICATION TraceSpec
CONSTANTS
  MaxSteps = 3
  MaxCalls = 1
  i1 = i1  i2 = i2
  Ids <- MCIds
INVARIANT ObserversAreHarmless
CHECK_DEADLOCK FALSE
