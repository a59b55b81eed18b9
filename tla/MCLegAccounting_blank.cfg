\* Some closes are blank cells, which csv_backend reads as NaN.
SPECIFICATION Spec
CONSTANTS
  a = a
  b = b
  Tickers = {a, b}
  Closes <- BlankCells
  Contents <- LongAndSpread
  Amounts = {1}
  Gives = {TRUE, FALSE}
  Fee = 1
  Foreign = {}
  NDays = 3
  MaxStructures = 2
INVARIANTS
  PnlExplainsFills
