SPECIFICATION Spec
CONSTANTS
  Prices = {1, 2}
  Quantities = {1, 2, 3}
  MaxOrders = 4
  SeqCap = 4
PROPERTY MakerIsEarliest
CHECK_DEADLOCK FALSE
