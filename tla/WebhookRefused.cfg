SPECIFICATION Spec
CONSTANTS
  Events <- MCEvents
  Heads <- MCHeads
  Slots = {s1, s2}
  None = None
  MaxRequests = 3
  MaxMoves = 1
  MaxFaults = 1
  MaxCrashes = 1
INVARIANT RefusedCanBeRedelivered
CHECK_DEADLOCK FALSE
