SPECIFICATION Spec
CONSTANTS
  Prices <- MCPrices
  Eps = 1
  MaxLevel = 2
  NIL = NIL
INVARIANT TypeOK
INVARIANT WellLinked
INVARIANT LookupsAgree
PROPERTY ImplementsPriceMap
