SPECIFICATION Spec
CONSTANTS
  Producers = {p1, p2}
  Poppers = {}
  Batchers = {b1}
  Items = {i1, i2, i3}
  Cap = 2
  MaxBatch = 1
  NONE = NONE
SYMMETRY Symmetric
INVARIANT NothingLost
