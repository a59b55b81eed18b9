\* A structure that closes before its trade, read by Summary.
SPECIFICATION Spec
CONSTANTS
  a = a
  b = b
  Tickers = {a, b}
  Closes <- TwoPrices
  Contents <- LongAndSpread
  Amounts = {1}
  Gives = {TRUE, FALSE}
  Fee = 1
  Foreign = {}
  NDays = 3
  MaxStructures = 2
INVARIANTS
  SummaryReadsEveryStructure
