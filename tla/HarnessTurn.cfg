SPECIFICATION FairTraceSpec
CONSTANTS
  MaxSteps = 6
  MaxCalls = 2
  i1 = i1  i2 = i2
  Ids <- MCIds
INVARIANTS BudgetHolds EveryCallAnswered ToolLinesClosed NothingOutlivesTurn
  AbortAdmitsOne
PROPERTIES FindingIsFresh SpansAreOwn AbortEndsTurn TurnEnds
CHECK_DEADLOCK FALSE
