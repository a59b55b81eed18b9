\* Three trading days, one group a day: longer lives of longs, shorts and
\* spreads, content the converter refuses, and every group decided.
SPECIFICATION FairSpec
CONSTANTS
  a = a
  b = b
  Tickers = {a, b}
  StructureSpecs <- WideStructures
  TradeSpecs <- WideTrades
  Amounts = {1, 2}
  NDays = 3
  MaxPatch = 1
  MaxActions = 1
  MaxRuns = 1
INVARIANTS
  FillsExplainTheBookUnlessAborted
  EventLogReplays
  TradeLifecycle
PROPERTIES
  PositionsNeverFlip
  EveryGroupIsDecided
