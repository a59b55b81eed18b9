\* Two trading days, patches of up to two groups: every pair of decisions
\* taken on one T-1 book.
SPECIFICATION Spec
CONSTANTS
  a = a
  b = b
  Tickers = {a, b}
  StructureSpecs <- BasicStructures
  TradeSpecs <- BasicTrades
  Amounts = {1, 2}
  NDays = 2
  MaxPatch = 2
  MaxActions = 1
  MaxRuns = 1
INVARIANTS
  TypeOK
  IndInv
  TripwireSilent
  PendingTargetsAreCurrent
  RefusedPatchHasNoEffect
  FillsExplainTheBookUnlessAborted
  EventLogReplays
  EventDatesIncrease
  GroupsAreDecidedInOrder
  BlockedOnlyForMissingData
  TradeLifecycle
PROPERTIES
  ClosedTradesAreFinal
  ImplementsLedger
