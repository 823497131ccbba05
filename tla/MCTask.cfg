SPECIFICATION FairSpec
CONSTANTS
  t1 = t1
  t2 = t2
  t3 = t3
  Main = Main
  Tasks <- MCTasks
  Parent <- MCParent
INVARIANTS
  NoUseAfterDestroy
  DestroyedOnce
  OnlyDocumentedPanics
  PendingIsJoiners
PROPERTIES
  Reclaimed
CHECK_DEADLOCK FALSE
