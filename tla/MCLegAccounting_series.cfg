\* Three days, two structures of one or two trades, a long and a spread: adds,
\* unwinds and missing closes.
SPECIFICATION Spec
CONSTANTS
  a = a
  b = b
  Tickers = {a, b}
  Closes <- TwoPrices
  Contents <- LongAndSpread
  Amounts = {1}
  Gives = {TRUE, FALSE}
  Fee = 1
  Foreign = {}
  NDays = 3
  MaxStructures = 2
INVARIANTS
  TypeOK
  PnlExplainsFills
  PnlSpansTheLife
  InputsAligned
  ValuationAlignedWhileOpen
  SummaryReadsTradesThatCloseAtOnce
  DeferralKeepsTotals
