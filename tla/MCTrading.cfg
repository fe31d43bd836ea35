CONSTANTS
  u1 = u1
  u2 = u2
  bob = bob
  Users <- MCUsers
  Other = bob
  Pairs <- MCPairs
  FormSides <- MCSides
  Types <- MCTypes
  Prices <- MCPrices
  Quantities <- MCQuantities
  Funds <- MCFunds
  MaxSubmits = 1
  MaxCancels = 1
  MaxInterruptions = 2
  MaxVersion = 3
SPECIFICATION Spec
INVARIANTS TypeOK PlacedAsShown TrayTellsTheTruth ButtonFollowsCancel 
PROPERTIES FreshAfterSuccess CallsEnd
CHECK_DEADLOCK FALSE
