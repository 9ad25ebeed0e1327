SPECIFICATION Spec
CONSTANTS
  Threads = {t1, t2}
  Clients = {k1}
  Limit = 2
  Window = 3
  Second = 2
  PruneThreshold = 1
  NoClient = NoClient
  MaxClock = 6
INVARIANT AtMostLimit
CHECK_DEADLOCK FALSE
