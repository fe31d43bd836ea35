SPECIFICATION FairSpec
CONSTANTS
  Users = {a, b}
  Base = base
  Quote = quote
  Tokens = {base, quote}
  Handlers = {h1, h2}
  Word = 7
  MaxSupply = 5
  InitialFunds = 2
  Funds <- MCFunds
  PricePrecision = 2
  Types = {"limit", "market", "other"}
  Prices = {0, 3}
  Quantities = {2, 3}
  MaxOrdersPerUser = 2
  MaxLevels = 1
  MaxOrders = 2
  MaxExternals = 1
INVARIANTS
  TypeOK
  Conserved
PROPERTIES
  RequestsEnd
