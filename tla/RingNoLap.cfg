SPECIFICATION FairSpec
CONSTANTS
  Producers = {p1, p2}
  Poppers = {}
  Batchers = {b1, b2}
  Items = {i1, i2}
  Cap = 2
  MaxBatch = 2
  NONE = NONE
INVARIANT ClaimsDisjoint
INVARIANT AtMostOnce
PROPERTY ImplementsBag
PROPERTY ClaimsFinish
