SPECIFICATION FairSpec
CONSTANTS
  r1 = r1
  r2 = r2
  e1 = e1
  w1 = w1
  w2 = w2
  NoWork = NoWork
  Runtimes = {r1}
  Externals = {e1}
  Works = {w1}
  Waiters = {}
  EventInterval = 2
  SqSize = 1
  MaxRuns = 1
  Exits <- DoubleExits
  BufferedStores = TRUE
PROPERTIES
  ExitWakesRuntime
CHECK_DEADLOCK FALSE
