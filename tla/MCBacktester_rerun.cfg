\* run() called twice on one object, groups of two actions, and structures
\* with two legs on one ticker, on which the tripwire fires.
SPECIFICATION Spec
CONSTANTS
  a = a
  b = b
  Tickers = {a, b}
  StructureSpecs <- LadderStructures
  TradeSpecs <- LadderTrades
  Amounts = {1}
  NDays = 2
  MaxPatch = 1
  MaxActions = 2
  MaxRuns = 2
INVARIANTS
  RefusedPatchHasNoEffect
  GroupsAreDecidedInOrder
  TradeLifecycle
