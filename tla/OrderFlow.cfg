SPECIFICATION FairSpec
CONSTANTS
  Requests = {r1, r2}
  Clock = {1, 2}
  QueueCap = 1
  MaxLives = 2
  NOID = NOID
INVARIANT TypeOK
INVARIANT AcceptedDistinct
INVARIANT SuccessIsOwn
INVARIANT MarksOwned
PROPERTY AllEnd
CHECK_DEADLOCK FALSE
