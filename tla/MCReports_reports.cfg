\* Three days, two structures with gaps in the closes, in both missing-data modes
\* and with rates that move and miss days.
SPECIFICATION ReportSpec
CONSTANTS
  a = a
  b = b
  Tickers = {a, b}
  Closes <- TwoPrices
  Contents <- LongAndSpread
  Amounts = {1}
  Gives = {FALSE}
  NDays = 3
  MaxStructures = 2
  Fee = 1
  Foreign = {b}
  Factors <- SomeFactors
  PeriodOf <- TwoPeriods
INVARIANTS
  NetIsGrossLessCosts
  ConvertedAtTheRateOfTheDay
  DrawdownTableIsExact
  UnderlyingsAddUp
  PeriodsAgreeWithTheTotal
  TradesAddUp
