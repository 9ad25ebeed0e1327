SPECIFICATION MCSpec
CONSTANTS
  Replays <- MCReplays
  Budget = 6
  Reserves = {2, 3}
  MaxRequests = 3
  MaxCandidates = 2
  Paths = {"a", "b", "u"}
  Names = {"f", "g", "h", "k", "w"}
  PathOrder <- MCPathOrder
  UnsafePaths = {"u"}
  MaxBytes = 8
  MaxLines = 3
  Studies <- MCStudies
  MaxCalls = 2
  FileLimit = 10
  TotalLimit = 14
  Prices = {0, 1}
INVARIANTS SpendWithinBudget SavedAccounts ReportsAddUp ContextIsWhole RequestsAreWhole ExitZeroIsComplete
CHECK_DEADLOCK FALSE
