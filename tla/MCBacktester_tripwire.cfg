\* The tripwire on structures with two legs on one ticker.
SPECIFICATION Spec
CONSTANTS
  a = a
  b = b
  Tickers = {a, b}
  StructureSpecs <- LadderStructures
  TradeSpecs <- LadderTrades
  Amounts = {1}
  NDays = 2
  MaxPatch = 2
  MaxActions = 1
  MaxRuns = 1
INVARIANTS
  TripwireSilent
