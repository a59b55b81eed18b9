\* The valuation data of closed legs against their P&L.
SPECIFICATION Spec
CONSTANTS
  a = a
  b = b
  Tickers = {a, b}
  Closes <- TwoPrices
  Contents <- LongAndSpread
  Amounts = {1}
  Gives = {TRUE, FALSE}
  Fee = 1
  Foreign = {}
  NDays = 3
  MaxStructures = 2
INVARIANTS
  ValuationAligned
