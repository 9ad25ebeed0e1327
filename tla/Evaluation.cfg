SPECIFICATION MCSpec
CONSTANTS
  Count = 3
  Labels = {1, 2, 3}
  Lines = {1, 2, 3, 4}
  EdgeLists <- MCEdgeLists
  Corpora <- MCCorpora
  Places = {"p", "q"}
  Refs = {"r", "s"}
  Retrievals = {{}, {"r"}}
  Reviews <- MCReviews
  Thresholds = {50, 60}
  MinConfidence = 60
  Enough = 1
  Bills = {0, 2}
  Scale = 10
  Grain = 3
  Comments = {1, 2}
  NoComment = 0
  Revisions = {1, 2}
  Threads <- MCThreads
  Added <- MCAdded
  Changes <- MCChanges
  Signals = {"defect", "accepted"}
  Decisions <- MCDecisions
  MaxHarvests = 2
  MaxEdits = 1
  MaxRows = 2
INVARIANTS OneToOne Maximum PassIsEarned ReportIsTheRun ScoredIsGroundTruth RefusedForCause
PROPERTIES MatchedStays
CHECK_DEADLOCK FALSE
