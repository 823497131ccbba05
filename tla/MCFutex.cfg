SPECIFICATION FairSpec
CONSTANTS
  w1 = w1
  w2 = w2
  n1 = n1
  n2 = n2
  Null = Null
  Waiters = {w1, w2}
  Notifiers = {n1, n2}
  Stoppable = {w1, w2}
  Overlap = FALSE
  Values = {0, 1}
INVARIANTS
  WaiterInOnePlace
PROPERTIES
  IsFutex
  ChangedWakes
CHECK_DEADLOCK FALSE
