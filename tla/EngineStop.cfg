SPECIFICATION FairSpec
CONSTANTS
  Callers = {c1}
  Workers = {w1}
  Ids = {1, 2, 3}
  Symbols = {s1}
  UNKNOWN = UNKNOWN
  Ptrs = {p1, p2}
  QueueCap = 2
  OutCap = 1
  BatchSize = 2
  Cancels = FALSE
  Stops = TRUE
  NONE = NONE
INVARIANT AcceptedKept
INVARIANT MatchedInOrder
PROPERTY AcceptedMatched
PROPERTY StopReturns
CHECK_DEADLOCK FALSE
