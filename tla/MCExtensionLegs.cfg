SPECIFICATION Spec
CONSTANTS
  Users = {a, b}
  Base = base
  Quote = quote
  Tokens = {base, quote}
  Handlers = {h1, h2}
  Word = 16
  MaxSupply = 5
  InitialFunds = 2
  Funds <- MCFunds
  PricePrecision = 2
  Types = {"limit", "market"}
  Prices = {1, 3}
  Quantities = {1, 2}
  MaxOrdersPerUser = 2
  MaxLevels = 1
  MaxOrders = 2
  MaxExternals = 0
SYMMETRY Symmetry
INVARIANTS
  SettlesInFull
