SPECIFICATION Spec
CONSTANTS
  r1 = r1
  r2 = r2
  e1 = e1
  w1 = w1
  w2 = w2
  NoWork = NoWork
  Runtimes = {r1, r2}
  Externals = {e1}
  Works = {w1, w2}
  Waiters = {w1, w2}
  EventInterval = 1
  SqSize = 1
  MaxRuns = 1
  Exits <- PeerExits
  BufferedStores = FALSE
INVARIANTS
  WorkInOnePlace
  PendingIsOutstanding
  ExitIsQuiet
SYMMETRY Symmetry
CHECK_DEADLOCK FALSE
