SPECIFICATION Spec
CONSTANTS
  Calls = {c1, c2}
  Heads <- MCHeads
  Added <- MCAdded
  Shown <- MCShown
  Bodies = {"b1", "b2"}
  Drafts <- MCDrafts
  MaxPushes = 1
INVARIANT CommentsTargetAddedLines
CHECK_DEADLOCK FALSE
