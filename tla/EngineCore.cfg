SPECIFICATION Spec
CONSTANTS
  Callers = {c1, c2}
  Workers = {w1, w2}
  Ids = {1, 2}
  Symbols = {s1}
  UNKNOWN = UNKNOWN
  Ptrs = {p1, p2, p3}
  QueueCap = 1
  OutCap = 1
  BatchSize = 1
  Cancels = TRUE
  Stops = TRUE
  NONE = NONE
SYMMETRY Symmetric
INVARIANT TypeOK
INVARIANT OneHolder
INVARIANT AcceptedOnce
INVARIANT MatchedOnce
CHECK_DEADLOCK FALSE
