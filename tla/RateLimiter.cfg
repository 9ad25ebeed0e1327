SPECIFICATION Spec
CONSTANTS
  Threads = {t1}
  Clients = {k1, k2}
  Limit = 2
  Window = 4
  Second = 2
  PruneThreshold = 1
  NoClient = NoClient
  MaxClock = 6
INVARIANTS AtMostLimit RetryFits TableStaysSmall
CHECK_DEADLOCK FALSE
