\* Short positions and their fees.
SPECIFICATION ReportSpec
CONSTANTS
  a = a
  b = b
  Tickers = {a, b}
  Closes <- TwoPrices
  Contents <- Shorts
  Amounts = {1}
  Gives = {FALSE}
  NDays = 3
  MaxStructures = 2
  Fee = 1
  Foreign = {b}
  Factors <- SomeFactors
  PeriodOf <- TwoPeriods
INVARIANTS
  CostsAreNeverNegative
