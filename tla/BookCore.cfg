SPECIFICATION FairSpec
CONSTANTS
  Prices = {1, 2}
  Quantities = {1, 2}
  MaxOrders = 4
  SeqCap = 2
INVARIANT TypeOK
INVARIANT NoOversell
INVARIANT RestingIndexed
INVARIANT CrossedOnlyAtSpent
INVARIANT SnapshotHonest
INVARIANT TakerServed
PROPERTY MatchEnds
CHECK_DEADLOCK FALSE
