SPECIFICATION MCSpec
CONSTANTS
  a = a
  b = b
  c = c
  d = d
  p1 = p1
  p2 = p2
  c1 = c1
  Nobody = Nobody
  NoReq = NoReq
  Producers = {p1, p2}
  Consumers = {c1}
  Capacity = 1
  Produce = 2
  Consume = 4
  Generations = 8
INVARIANTS
  CopyIsExact
  InUseIsMapped
  ReadsAreComplete
  LinkedOrder
  CancelsOwnLink
PROPERTIES
  IsBoundedQueue
  SemaphoresBound
  QueuesReturn
  ProgramsEnd
  LinkCompletes
CHECK_DEADLOCK FALSE
