SPECIFICATION FairSpec
CONSTANTS
  p1 = p1
  p2 = p2
  c1 = c1
  c2 = c2
  Nobody = Nobody
  Pushers = {p1, p2}
  Poppers = {c1, c2}
  Setups <- MCSetups
  SizeBits = 2
  MaxForced = 1
INVARIANTS
  WaitersJustified
  WaiterInOnePlace
PROPERTIES
  IsFifo
  CloseReleases
CHECK_DEADLOCK FALSE
