SPECIFICATION Spec
CONSTANTS
  Calls = {c1, c2}
  Heads <- MCHeads
  Added <- MCAdded
  Shown <- MCShown
  Bodies = {"b1", "b2"}
  Drafts <- MCDrafts
  MaxPushes = 1
INVARIANTS NoRepost RecordFitsComments PostedFitsComments WriterOwnsRun
PROPERTIES ImplementsLedger RunsSettle
CHECK_DEADLOCK FALSE
