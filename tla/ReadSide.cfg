SPECIFICATION FairSpec
CONSTANTS
  Symbols = {s1, s2}
  MaxChanges = 2
  MaxLives = 2
  ChanCap = 3
  NONE = NONE
  NIL = NIL
INVARIANT TypeOK
INVARIANT SnapshotsOrdered
INVARIANT LastPersistCovers
PROPERTY RedisForward
PROPERTY ReadersStop
CHECK_DEADLOCK FALSE
