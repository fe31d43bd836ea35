CONSTANTS
  RingSize = 2
  CandleLimit = 2
  MaxBars = 2
  Rows = 2
  TapeRows = 2
  MatchLimit = 2
  Pairs <- MCPairs
  Timeframes <- MCTimeframes
  PairPrices <- MCPairPrices
  PairBooks <- MCPairBooks
  DefaultPair <- MCDefaultPair
  DefaultTimeframe = 1
  MaxTime = 3
  MaxTrades = 3
  MaxSteps = 3
  MaxEvents = 4
  MaxInflight = 1
SPECIFICATION Spec
INVARIANTS TypeOK ChartShowsBars BarsContinuous TimeframesAgree
  ShownIsSelected TapeMeetsChart
PROPERTIES PrefillOfSelectedPair
CHECK_DEADLOCK FALSE
