SPECIFICATION Spec
CONSTANTS
  Calls = {c1}
  Heads <- MCHeads
  Added <- MCAdded
  Shown <- MCShown
  Bodies = {"b1", "b2"}
  Drafts <- TwinDrafts
  MaxPushes = 0
INVARIANT EveryFindingPosted
CHECK_DEADLOCK FALSE
