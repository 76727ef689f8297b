SPECIFICATION FairSpec
CONSTANTS
  modelError = modelError
  Turns = 2
  MaxTools = 1
  Codes <- MCCodes
INVARIANTS TypeOK OutcomeIsGraphs StatusHappened StatusIsLastOutcome TranscriptInOrder
PROPERTY RunningIsReplaced
CHECK_DEADLOCK FALSE
