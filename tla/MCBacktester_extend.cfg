\* A same-day extension of a trade that an earlier group closes.
SPECIFICATION Spec
CONSTANTS
  a = a
  b = b
  Tickers = {a, b}
  StructureSpecs <- BasicStructures
  TradeSpecs <- BasicTrades
  Amounts = {1}
  NDays = 2
  MaxPatch = 2
  MaxActions = 1
  MaxRuns = 1
INVARIANTS
  FillsExplainTheBook
