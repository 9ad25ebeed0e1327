SPECIFICATION PatchSpec
CONSTANTS
  MaxCount = 2
  MaxGap = 1
  MaxHunks = 2
  MaxSplits = 2
  MaxStart = 2
INVARIANTS MappedOrRejected
CHECK_DEADLOCK FALSE
