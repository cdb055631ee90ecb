SPECIFICATION Spec
CONSTANTS
  Callers = {c1}
  Workers = {w1}
  Ids = {1, 2}
  Symbols = {s1}
  UNKNOWN = UNKNOWN
  Ptrs = {p1, p2}
  QueueCap = 1
  OutCap = 1
  BatchSize = 1
  Cancels = FALSE
  Stops = FALSE
  NONE = NONE
INVARIANT RestingIntact
CHECK_DEADLOCK FALSE
