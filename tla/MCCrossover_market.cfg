\* Four loop days of a week on two markets, one ticker of each.
SPECIFICATION MarketSpec
CONSTANTS
  a = a
  b = b
  Tickers = {a, b}
  StructureSpecs = {}
  TradeSpecs <- MCTradeSpecs
  Amounts = {}
  NDays = 4
  MaxPatch = 2
  MaxActions = 1
  MaxRuns = 1
  MaxLookahead = 5
  MaxStaleness = 3
  ViewCode <- MCViewCode
  SignalCode <- MCSignalCode
  SimCodes = {"US", "HK"}
  Watchlist <- MCWatchlist
  Start = 9
  End = 15
  Calendars <- MCCalendars
  History <- MCHistory
  ClosesOf <- MCClosesOf
  ShortWindow = 1
  LongWindow = 3
  LookbackSlack = 5
  Notional = 2
INVARIANTS
  NoLookAhead
  LoopRunsOnMarketDays
  EntriesAreSizedOnAFreshClose
PROPERTIES
  BookFollowsTheSignal
  CrossoverIsAProgram
  RunCompletes
