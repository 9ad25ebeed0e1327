SPECIFICATION Spec
CONSTANTS
  Events <- MCEvents
  Heads <- MCHeads
  Slots = {s1, s2}
  None = None
  MaxRequests = 2
  MaxMoves = 1
  MaxFaults = 2
  MaxCrashes = 1
INVARIANTS OneExecutor NoOrphanRuns SkipNeedsMove SummaryIsBacked
PROPERTIES DoneIsNotFailed ImplementsLedger AcceptedSettles HandlersAnswer
CHECK_DEADLOCK FALSE
