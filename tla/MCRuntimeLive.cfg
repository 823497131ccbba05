SPECIFICATION FairSpec
CONSTANTS
  r1 = r1
  r2 = r2
  e1 = e1
  w1 = w1
  w2 = w2
  NoWork = NoWork
  Runtimes = {r1}
  Externals = {e1}
  Works = {w1, w2}
  Waiters = {w1, w2}
  EventInterval = 2
  SqSize = 1
  MaxRuns = 2
  Exits <- DoubleExits
  BufferedStores = FALSE
PROPERTIES
  PostedWorkRuns
  ExitWakesRuntime
CHECK_DEADLOCK FALSE
