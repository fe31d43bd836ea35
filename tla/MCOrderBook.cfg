SPECIFICATION Spec
CONSTANTS
  MaxOrders = 3
  Prices = {1, 2}
  Quantities = {1, 2}
  Owners = {a, b}
  MaxLevels = 1
SYMMETRY OwnerSymmetry
INVARIANTS
  TypeOK
  BookConsistent
  Uncrossed
PROPERTIES
  ImplementsPriceTime
