SPECIFICATION FairSpec
CONSTANTS
  Setups <- MCSetups
  MaxShots = 1
INVARIANTS
  HandlesLive
  PendingIsInUse
  ResumedOnce
  WinnerNotCancelled
PROPERTIES
  StopCompletes
CHECK_DEADLOCK FALSE
