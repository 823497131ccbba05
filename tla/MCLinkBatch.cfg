SPECIFICATION Spec
CONSTANTS
  a = a
  b = b
  c = c
  d = d
  Nobody = Nobody
  Coros = {a, b, c, d}
  Length <- Lengths
  Hard = {b}
  Rejectable = {}
  Entries = 3
  SubmitBatch = 2
INVARIANTS
  LinkedOrder
CHECK_DEADLOCK FALSE
