SPECIFICATION FairSpec
CONSTANTS
  Producers = {p1}
  Poppers = {c1}
  Batchers = {}
  Items = {i1, i2, i3, i4}
  Cap = 2
  MaxBatch = 1
  NONE = NONE
INVARIANT TypeOK
PROPERTY ImplementsFifo
PROPERTY RejectOnlyWhenFull
PROPERTY AllDelivered
