SPECIFICATION MCSpec
CONSTANTS
  Paths = {"a", "b"}
  Lines = {1, 2}
  Categories = {"bug", "contract"}
  PullRequests <- MCPullRequests
  Drafts <- MCDrafts
  MaxFiles = 2
  MaxCount = 2
  MaxGap = 1
  MaxHunks = 2
  MaxSplits = 2
  MaxStart = 2
INVARIANTS BudgetKeepsFirst OnePerPlace SoundIsServed MappedUnlessForged WholeIsParsed CutNeedsSplits
CHECK_DEADLOCK FALSE
