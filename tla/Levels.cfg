SPECIFICATION Spec
CONSTANTS
  Ids = {o1, o2, o3, o4}
  Capacity = 2
  NIL = NIL
  Prices = {1, 2}
  Quantities = {1, 2}
SYMMETRY Symmetric
INVARIANT TypeOK
INVARIANT LevelsAgree
PROPERTY ImplementsList
