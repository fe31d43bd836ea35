SPECIFICATION Spec
CONSTANTS
  Users = {a, b}
  Base = base
  Quote = quote
  Tokens = {base, quote}
  Handlers = {h1, h2}
  Word = 8
  MaxSupply = 7
  InitialFunds = 3
  Funds <- MCFunds
  PricePrecision = 3
  Types = {"limit"}
  Prices = {2, 3}
  Quantities = {1, 2, 3}
  MaxOrdersPerUser = 2
  MaxLevels = 1
  MaxOrders = 3
  MaxExternals = 0
SYMMETRY Symmetry
INVARIANTS
  Exclusive
  HeldCovers
  RestingIsTracked
  TrackedRests
  CapsHold
  NoPanic
