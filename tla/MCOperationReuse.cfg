SPECIFICATION Spec
CONSTANTS
  Setups <- MCSetups
  MaxShots = 1
INVARIANTS
  CancelsOwnRound
CHECK_DEADLOCK FALSE
