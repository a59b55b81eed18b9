# A verification of the quant backtest framework

This directory holds a TLA+ development of `src/backtester`: modules that model
the daily loop of the backtester, the calendar, data view and signal that feed it,
and the summary and reports that read what it leaves behind; TLC configurations
that check them on small instances; and proofs for TLAPS. It is written from the
code; `design_notes.md` and the tests are quoted where they say something the code
does not do. `PROJECT.json` maps each definition to its lines.

Contents: 1 the system, 2 the modules, 3 the runs, 4 the proofs, 5 what the
checks found, 6 abstractions, 7 what is not modelled.

## 1. The system

A backtest is one thread that walks over trading days. What makes it hard is not
concurrency but **two views of one book**: a signal decides, and the converter
sizes orders, on a frozen snapshot of yesterday's positions (the *T-1 book*),
while orders are executed and committed on the live positions, which the day's
earlier groups have already changed. Logs are written before the commit and there
is no rollback. And every number the reports show comes from per-day lists that
several handlers append to on their own conditions, and which must still line up
with the calendar at the end.

| component | state | operations | what makes it correct |
|---|---|---|---|
| **Daily loop** `backtest_engine.py` | `active_trades`, `trade_history`, both logs, the T-1 snapshots | `run`: mark, emit, log, convert, check duplicates, dispatch each group (execute, log, finalize, commit), risk, snapshot | what was filled is what the book holds; a refused patch has no effect; the tripwire is silent; every group is decided |
| **Action grammar** `actions.py`, `orders.py` | immutable values | constructors with the shape matrix | every accepted action has one meaning in the converter |
| **Order assembly** `order_assembly.py` | none (reads the T-1 book) | `build_order_groups`, gates for multi-leg and short structures, full-close and delta legs | orders close or move exactly the position shown at T-1, never past zero |
| **Simulated execution** `execution.py` | none (reads the live book) | `execute_group`: probe all orders, then fill or block all | group atomicity; `DATA_MISSING` is about data |
| **Logs** `execution_log.py`, `action_group_log.py` | append-only records | append, `finalize` once | in emission order, one outcome per group |
| **Books and lifecycles** `trade.py`, `strategy_structure.py`, `position_books.py`, `snapshots.py` | structures with legs, event log, dates | open, `add_size`, `unwind`, `unwind_structure`, freeze | the event log replays to the sizes; a trade ends when its last structure does and then never changes |
| **Leg series** `instruments.py`, pricers, price provider | price, size, daily P&L, pricing inputs, valuation data | mark, open, resize, risk | P&L is what the fills explain; the series stay aligned |
| **Summary** `summary.py` | derived series, aggregation cache | extract, cost, adjust for missing legs, convert currency, aggregate, run reports | no P&L invented or lost between the loop and the report; net is gross less costs |
| **Calendar** `calendar_provider.py` | holidays per market | trading days of a union of markets, next and previous valid day | agrees with the set of weekdays that are not holidays |
| **Data view** `data_view.py` | read-only view up to T-1 | series, prices, last valid day, reference price | no look-ahead; a reference price is fresh |
| **Signal** `signals/` | none of its own (SMA) | `generate_action_groups` | emits what its T-1 position and the averages justify: a blocked entry is tried again, not doubled |
| **Market data** `data/` | files | closes and fx rates by date | "no close" and "a close" are told apart |
| **Costs** `cost_model.py` | none | cost per event, leg and date | a fee on every size change |
| **Reports and metrics** `reports/`, `metrics_registry.py` | none | drawdowns, periods, hit ratio, trades, underlyings, ratios, layout | tables computed on different paths agree |
| **Example program** `examples/` | none | composes the above | runs to the end |

How they interact, on a day T:

1. the loop marks every active leg to T's close (`_compute_pnl_for_date`);
2. the signal reads the T-1 snapshot and returns a *patch*: a list of action
   groups, which is appended to the action-group log at once;
3. order assembly converts the **whole** patch against the T-1 snapshot and the
   loop rejects a structure that two groups modify: either raises and ends the run;
4. for each group in turn: the backend probes it against the **live** book and T's
   closes; one execution record per order is appended; the action-group record is
   finalized; and, only if all its orders are filled, the group is committed to
   trades and structures, behind a tripwire that re-checks sizes and targets;
5. risk is recorded for what is still active, and the book is frozen for T+1.

The hazards of this design are listed at their lines in `PROJECT.json`; the
properties of section 3 exist because of them.

## 2. The modules

```
OrderAssembly <- Execution <- Backtester <- BacktesterProperties <- MCBacktester (TLC)
                                   |            |      |            <- Backtester_proofs (TLAPS)
                                   |            |      |                 <- Book_proofs     <- Ledger_proofs
                                   |            |      |                 <- Dispatch_proofs <- Ledger_proofs
                                   |            |      '-- INSTANCE PositionLedger (refinement)
Calendar <- DataView <-------- Crossover <- CrossoverProperties <- MCCrossover (TLC)
                                                                <- Crossover_proofs (TLAPS)

LegAccounting <- Costs <- Summary <- LegAccountingProperties <- MCLegAccounting (TLC)
                             |                 |             <- LegAccounting_proofs (TLAPS)
                             '--- Reports <- ReportProperties <- MCReports (TLC)
                                                              <- Report_proofs (TLAPS)
SumTheorems <- Book_proofs, LegAccounting_proofs
```

`A <- B` reads "B extends A". `Crossover` extends both `Backtester` and `DataView`,
`ReportProperties` both `Reports` and `LegAccountingProperties`; of the proofs,
`Crossover_proofs` also extends `Book_proofs` and `Dispatch_proofs`, and
`Report_proofs` also extends `LegAccounting_proofs`.

### The daily loop

**OrderAssembly** - the action grammar (`ActionMatrix`: every row of the shape
matrix of `Action`) and the conversion of an action on a book: when the converter
raises (`ConvertibleAction`, `Convertible`) and the order group it returns
otherwise (`OrdersOf`, `DeltaLegs`). Operators only.

**Execution** - `SimulatedExecution`: `Available` probes one order on the live
book and the tickers that have a close, `Report` is the group-atomic outcome.
Operators only.

**Backtester** - the loop as a state machine with an explicit `phase`:

| action | code |
|---|---|
| `MarkToMarket` | the day begins; which tickers have a close is chosen (values are in LegAccounting) |
| `EmitPatch` / `SignalRaises` | `generate_action_groups`, `append_many` (`Emit` is the part every signal shares), or the signal raises and nothing of the day is on record |
| `Assemble` / `ConversionRaises` / `DuplicateRaises` | `build_order_groups`, `_validate_no_duplicate_structure_mods` |
| `Execute` | `_dispatch_synthesized_order`: execute, append records, `finalize` |
| `TripwireFires` | `_assert_commit_preconditions` raises |
| `CommitOpen`, `CommitExtend` / `ExtendRaises`, `CommitStructure` | `_commit_order_group`, with `StrategyStructure.open`, `add_size`, `unwind`, `Trade.unwind_structure` and the trailing `active_trades` filter inside the same action |
| `EndDay` | the snapshots, and the next day or the end |
| `RunAgain` | `run()` called once more on the same object, after it has returned or raised |
| `Stopped` | the run has returned or raised |

The variables carry the code's names (`portfolio_state` is the T-1 book;
`active_structures` is the union of the trades' lists). The signal is *any*
program: `EmitPatch` chooses any patch of accepted actions about any trade and
structure that ever existed, live or closed. An exception is a state
(`phase = "aborted"`, `raised` says what raised), because what the logs and the
book hold at that moment is precisely what the properties are about.

**PositionLedger** - the abstract specification of the book: no groups, orders,
logs or T-1 copy, just structures that are opened with their trade, added to a
living trade, resized or closed, each at most once a day, and never brought back.
`ImplementsLedger` says that the loop implements it. The mapping (`Ledger` in
BacktesterProperties) takes the live structures with their legs, and as the day
each was last touched the last date of its event log - so the refinement rests on
the log and the book agreeing.

### The market and the signal

**Calendar** and **DataView** - pure operators: the trading days of a union of
markets, next and previous valid day within the lookahead, and every read a signal has
(`GetSeries`, `LastValidDay`, `PriceDay`, `ReferenceDay`) on a feed and the loop
day T. A day is an integer counted from a Monday, so weekends are `% 7`. The
operators return the *day* a value is read on, because which row is read is what
can go wrong. Where the code raises - no valid day within the lookahead, a price
asked for after the cutoff - an operator of its own says so (`NextRaises`,
`PrevRaises`, `LastValidDayRaises`, `PriceRaises`).

**Crossover** - `Backtester` with the SMA crossover as its signal, on a calendar
and a feed of closes that grows day by day:

| action | code |
|---|---|
| `Quotes` | `MarkToMarket`, and the day's closes (missing or not) are in the feed *before* the signal runs, as they are in the code's data frames |
| `Signals` | `SmaCrossoverSignal.generate_action_groups`: for each watched ticker in order the calendar gate, the averages, `find_holding` on the T-1 book, the reference price and the sizing (`WantsEntry`, `WantsExit`, `Entry`, `Exit`) |
| `LookupRaises` | the same, when a reference price is asked for (`AsksForAPrice`) and `prev_valid_day` finds no day within the lookahead: its `RuntimeError` passes through `last_valid_day`, `reference_price` and the signal and ends the run |
| `Decides` | the rest of the loop body, Backtester's actions |

`CrossoverIsAProgram` states that every run of it is a run of Backtester, so
everything checked and proved of an arbitrary signal holds of this one.

### The accounts

**LegAccounting** - the daily lists of the legs with the prices Backtester leaves
out: marking (with and without a close, with a blank cell), opening at the close,
resizing and closing with the events and cost exposures they write, and the risk
pass. Which groups reach it is Backtester's business; that a structure is modified
at most once a day and never on the day it opens is checked and proved there
(`EventDatesIncrease`) and is a guard here (`Modifiable`). A float is a number or
NaN (`Num`, `NaN`, with `Plus`, `Minus`, `Times`). `paid`, the cash a leg's fills
have moved, is the one thing added to the code's state: the yardstick for P&L,
which no action reads.

**Costs** - `compute_costs`: fees by leg and date, read off the event logs.

**Summary** - operators over LegAccounting's state, in the order `generate()` applies
them: the dates a leg's series is indexed with and whether extraction raises;
gross, cost and net series; the missing-data modes `any` and `all` (the second moves
P&L to the next day on which every leg of the trade has a price); conversion to the
base currency by differencing the cumulative series at the rate of the day.

**Reports** - `Generate`, the one action of `ReportSpec` after a finished run, and
the numbers the standard reports read off its result: `DailySeries`, `Drawdown` and
`Episodes`, `ReturnOf`, `MaxDrawdown`, `PeriodCurve`, `HoldingDays`, `EnteredIn`,
`UnderlyingLegs`.

### Properties, instances, proofs

The `...Properties` modules state what must hold, the `MC...` modules and
`.cfg` files instantiate them, the `..._proofs` modules prove. **SumTheorems** holds
the facts about sums over finite sets, and about their least and greatest elements,
that the proofs share. Operators named
`X_...` beside an `X`, with a comment "Mutant of X", are plausible bugs; each
property is shown to fail on one of them.

## 3. The runs

| run | instance | checks |
|---|---|---|
| `patches` | 2 days, up to 2 groups a day, one long and a long-beside-short trade, amounts 1 and 2 | all safety properties of the loop, the inductive invariant and the refinement of PositionLedger |
| `lives` | 3 days, 1 group a day, spreads, shorts and content the converter refuses | the properties that need longer lives, and liveness |
| `rerun` | `run()` twice, after a return or a raise, groups of two actions, structures that hold one ticker twice | refusal, decision order and lifecycle when the loop's usual premises are gone |
| `market` | 4 loop days on two exchanges, one ticker on each, every combination of missing closes | the composition of calendar, view, crossover and loop |
| `series` | 3 days, 2 structures, a long and a spread, two prices and missing closes | all properties of the leg series and of extraction |
| `reports` | the same with one ticker in a foreign currency, both missing-data modes, rates that miss days | the reports of one run agree with each other |
| `tripwire`, `extend`, `blank`, `valuation`, `history`, `fees` | the same kind of instance with the one thing changed that matters | the disagreements of section 5: TLC finds each property violated |

What the passing runs establish:

- *T-1 against live.* `PendingTargetsAreCurrent`: until its group commits, every
  structure the patch targets is live exactly as the T-1 book shows it, though the
  groups before it have been committed. Hence `TripwireSilent`, and
  `BlockedOnlyForMissingData`: a probe never fails because an earlier group
  consumed its target.
- *Log against book.* `FillsExplainTheBookUnlessAborted`: per ticker the signed
  fills add up to the position held, after every group and every day.
  `EventLogReplays`: each structure's event log replays to its sizes (an unwind
  records magnitudes with the sign of the position, an add records signed deltas),
  and a structure is active iff something is left. `EventDatesIncrease`: one
  modification a day, none on the opening day.
- *Refusal and order.* `RefusedPatchHasNoEffect`: if conversion or the duplicate
  check raises, nothing of the patch is executed or finalized, if the signal raises
  nothing of its day is even logged, and the live book is still the T-1 book (of a
  first `run()`). `GroupsAreDecidedInOrder`: finalized records are a prefix of
  the log, a group has one outcome on all its orders, and a blocked group has an
  order that was itself unavailable.
- *Lifecycle.* `TradeLifecycle`, `ClosedTradesAreFinal`: `active_trades`,
  `exit_date` and the structures never disagree, and a closed trade is never
  touched, extended or reopened. `PositionsNeverFlip`: no leg crosses zero, and
  only single-leg longs are resized.
- *The loop as a ledger.* `ImplementsLedger`: whatever a signal emits and whichever
  closes are missing, the book goes through steps of PositionLedger.
- *No look-ahead.* `NoLookAhead`: the loop day's closes are in the feed, and every
  read of the view and every decision of the signal is the same as without them.
- *The calendar.* `LoopRunsOnMarketDays`: the loop runs on exactly the days on which
  at least one market is open, in order, and next and previous valid day, where
  they do not raise, lead back to a day a code is open on.
- *Entries.* `EntriesAreSizedOnAFreshClose`: the close an entry is sized on is
  before the loop day and within the staleness bound, rows passed over are from
  days the ticker's market was closed, and no entry is lost while there is a usable
  close: one within the bound and, for a ticker with a calendar code, with its last
  market day within the bound too. (Where that day is older, the code falls back to
  newer data only if the day has no row, so an entry can be lost although there is one.)
- *The position follows the signal.* `BookFollowsTheSignal`: at the end of a day on
  which a ticker is open, quoted and has its averages, it is held in exactly one
  structure if the short average is above and in none otherwise; on any other day
  nothing of it moves. A blocked entry or exit is thus retried and never doubled,
  and a held ticker is not touched on its market's holiday.
- *Liveness.* `EveryGroupIsDecided`: every logged group is finalized unless the
  run raises. `RunCompletes`: the crossover's runs end by returning - nothing
  it emits is refused or raises in the commit - on every calendar on which the
  lookahead finds the watched tickers a last valid day (`LookaheadReaches`). On
  others the signal itself may raise, as `prev_valid_day` documents.
- *Series.* `PnlExplainsFills`: at every moment a leg's P&L to date is
  the worth of its position less what its fills paid, across gaps, adds and unwinds.
  `PnlSpansTheLife`, `InputsAligned`, `ValuationAlignedWhileOpen`: the lists have
  an entry for every day and stay aligned when a key appears late or is left out.
  `SummaryReadsTradesThatCloseAtOnce`, `DeferralKeepsTotals`: Summary reads such
  series without raising and moves P&L without losing any.
- *Money in the summary.* `NetIsGrossLessCosts` survives deferral and conversion,
  which treat the three series apart. `ConvertedAtTheRateOfTheDay`: on a day that
  has a rate, the running total in base currency is the local one at that rate; a
  day without a rate shows nothing and loses nothing to the next that has one. So
  what a leg lacks at the end is exactly what came after its last rate.
- *Reports against reports.* `DrawdownTableIsExact`: the episodes cover exactly the
  days under water, start on a peak, end on a recovery or with the run, and the
  deepest is the maximum drawdown; that no two share a day is checked in name only,
  three days having room for one episode, and shown by the theorem `DrawdownsAreExact`. `UnderlyingsAddUp`, `PeriodsAgreeWithTheTotal`,
  `TradesAddUp`: the splits by ticker, period and trade each add up to the portfolio.

**Bounds, and why they suffice.**

- *Loop.* `NDays`: a structure lives through three kinds of day - opened, modified,
  closed - and the T-1 and live books differ only within a day; two days suffice for
  every *pair* of decisions on one snapshot, three for an add or unwind between
  opening and closing. `MaxPatch = 2`: each cross-group hazard (duplicate target,
  close then extend, an earlier group consuming a target) is about two groups.
  `MaxActions`: the gate refuses more than one action, so 1 wherever groups are to
  get through, and 2 in `rerun` so that the gate is seen. `MaxRuns = 2` for a
  repeated `run()`. Sizes up to 2 with amounts 1 and 2 reach a partial unwind, an
  unwind of everything by amount (refused) and an add. Two tickers suffice for one
  leg of a group to have a close and the other none.
- *Market.* The run is from a Wednesday to the next Tuesday. Each of the three calendars
  has a common holiday, which is not simulated, holidays of one market alone, which
  are, and a weekend: 4 loop days. One ticker has a code in the view, the other
  has none, so both branches of `LastValidDay` are taken. `ShortWindow = 1`,
  `LongWindow = 3`, two rows of history: the averages appear during the run, or
  later when closes are missing, and cross both ways on closes {1, 2} and {0, 1} (a close of
  0 cannot be sized). `MaxStaleness = 3`: over the weekend and a holiday a reference
  does become too old. `MaxLookahead = 5` reaches over every closing of the first two
  calendars and not over that of one market in the third: there the lookup on the
  last loop day raises, in the two others every run returns.
- *Series and reports.* 3 days give a gap between two marks; `MaxStructures = 2`,
  of one trade or of two. Rates: no series for the pair, one with a gap in the
  middle that moves, one with gaps at both ends. Two periods, of two days and one.

Every action fires in the passing runs. Deadlock is checked everywhere; the
stopped states stutter by a named action.

**Fairness.** The system is one thread without waiting: as long as the loop
body has a next statement it is executed. That is `WF_vars(Step)` in `FairSpec` and
`WF_marketVars(MarketStep)` in `MarketSpec`, and nothing more: calling `run()` again
is not assumed. Only `EveryGroupIsDecided` and `RunCompletes` use it.

## 4. The proofs

Every theorem is for every value of the constants: any tickers, content, amounts,
number of days, groups, actions per group and runs; any calendars, closes, windows
and limits; any prices and rates, and blank cells too unless `NoBlankCloses` is assumed.

| module | theorem | states | assuming |
|---|---|---|---|
| `Backtester_proofs` | `TypeCorrect` | `Spec => []TypeOK` | |
| | `PendingTargets` | `Spec => []PendingTargetsAreCurrent` | |
| | `Tripwire`, `Inductive` | `Spec => []TripwireSilent`, `Spec => []IndInv` | `OneLegPerTicker` |
| `Book_proofs` | `EventDates`, `TradesEnd` | `Spec => []EventDatesIncrease`, `Spec => []TradeLifecycle` | |
| | `EventsReplay` | `Spec => []EventLogReplays` | |
| | `ClosedFinal`, `NeverFlip` | `Spec => ClosedTradesAreFinal`, `Spec => PositionsNeverFlip` | |
| `Dispatch_proofs` | `RefusedPatch`, `DecidedInOrder`, `BlockedForData` | `Spec => []RefusedPatchHasNoEffect`, `... []GroupsAreDecidedInOrder`, `... []BlockedOnlyForMissingData` | |
| `Ledger_proofs` | `LoopImplementsLedger` | `Spec => ImplementsLedger` | `MaxRuns = 1` |
| | `FillsExplained` | `Spec => []FillsExplainTheBookUnlessAborted` | `MaxRuns = 1` |
| `Crossover_proofs` | `CrossoverProgram` | `MarketSpec => CrossoverIsAProgram` | |
| | `FreshEntries` | `MarketSpec => []EntriesAreSizedOnAFreshClose` | |
| | `LoopDays` | `MarketSpec => []LoopRunsOnMarketDays` | `SimCodes # {}` |
| | `DecisionsUseThePast` | `MarketSpec => []NoLookAhead` | |
| | `PositionFollows` | `MarketSpec => BookFollowsTheSignal` | |
| | `NothingIsRefused` | `MarketSpec => [](LookaheadReaches => phase # "aborted")` | `ClosesDivideTheNotional` |
| `LegAccounting_proofs` | `SeriesTypes`, `PnlSpans` | `Spec => []TypeOK`, `Spec => []PnlSpansTheLife` | |
| | `InputsAlign`, `ValuationAligns` | `Spec => []InputsAligned`, `Spec => []ValuationAlignedWhileOpen` | |
| | `SummaryReads` | `Spec => []SummaryReadsTradesThatCloseAtOnce` | |
| | `PnlIsExplained` | `Spec => []PnlExplainsFills` | `NoBlankCloses` |
| `Report_proofs` | `DeferralLosesNothing` | `Spec => []DeferralKeepsTotals` | `NoBlankCloses` |
| | `NetIsGrossLessItsCosts` | `ReportSpec => []NetIsGrossLessCosts` | `NoBlankCloses` |
| | `ConversionIsAtTheRateOfTheDay` | `ReportSpec => []ConvertedAtTheRateOfTheDay` | |
| | `UnderlyingsSplitThePortfolio`, `PeriodsAgree` | `ReportSpec => []UnderlyingsAddUp`, `... []PeriodsAgreeWithTheTotal` | |
| | `TradesCoverTheRun`, `DrawdownsAreExact` | `ReportSpec => []TradesAddUp`, `... []DrawdownTableIsExact` | |

**Assumptions.** On the constants, named and evaluated by TLC: `BoundsAssumption`
(bounds are positive), `ContentAssumption` (content is what the constructors
accept), `LookaheadAssumption`, `StalenessAssumption`, `MarketAssumption` (what the
configuration ensures: watched tickers distinct and mapped, positive windows, as
many loop days as the calendar has, history before the run), `SizesAssumption`,
`FeeAssumption`, `ForeignAssumption`, and `ReportsAssumption` (a rate or none for every
loop day, a period for each, finitely many tickers). In the theorems themselves:

- `OneLegPerTicker`, no structure's content names a ticker twice. Run `tripwire`
  shows that it is needed.
- `MaxRuns = 1`: a second `run()` starts the days again, which no ledger does, and
  empties the execution log under the positions it keeps.
- `NoBlankCloses`: no close is NaN. Run `blank` shows that it is needed.
- `ClosesDivideTheNotional`: shares are integers here and floats in the code, so the
  quotient has to be exact; with one that is cut off, an entry of size 0 would be
  refused, which in the code happens to none.
- `SimCodes # {}`: without a code the loop has no market.

`LookaheadReaches`, the premise of `NothingIsRefused`, is about the calendar the run
has drawn, and so part of the statement.

**The book.** `TripwireSilent` is not inductive: whether a commit trips depends
on how its order was sized, at a time when the book was another.
`BookInv == TypeOK /\ SnapshotIsCurrent /\ PlanIsThePatch /\ PendingTargetsAreCurrent`:

- `SnapshotIsCurrent` - from the snapshot to the day's first commit, everything the
  T-1 book shows is live and unchanged; the snapshot is taken by `EndDay` and no
  action before dispatch touches the book;
- `PlanIsThePatch` - during dispatch the order groups are the conversion of the
  logged patch on the T-1 book, and no structure is the target of two groups: the
  duplicate check, remembered;
- `PendingTargetsAreCurrent` - what the two give: a commit changes only the
  structures its own group targets, which by the duplicate check no later group does.

`IndInv` adds that the legs of every structure ever opened name distinct tickers, so
that `_match_leg`, which takes the first leg of a ticker, finds the leg the order was
sized on. Then a closing leg is exactly the negated live leg and a reducing one
smaller than it, so no disjunct of the tripwire holds (`NoTrip`). TLC checks
`IndInv` as an invariant of `patches`.

**History and lifecycle.** `BookHistory == BookInv /\ DatesInv /\ Lifecycle`.
`DatesInv` bounds the last event date of a structure by the day - and *before* the day
for what the current patch still targets, because a pending target is as the T-1
book shows it: that is why a structure is modified at most once a day. `Lifecycle`
ties `active_trades`, `exit_date` and the structures together. The two action properties
follow from the same invariant, one lemma per commit.

**Dispatch.** `DispatchInv` says which groups are decided at each moment
(`DecidedInv`), how the logs' dates split at the day's first group (`RecordDates`),
what an execution record may say (`ReportsInv`, `OutcomesInv`), and what an exception
leaves (`RaisedInv`, `SnapshotIsLive`); it stands beside `BookInv`, which gives
`BlockedForData`: the target a probe looks for is there.

**The ledger.** Each commit maps to a step of PositionLedger, everything else to a
stutter or `NextDay`. Of the mapping, `touched` (the last event date) needs
`DatesInv` to show that a resized or closed structure was not touched today, and a
closed trade's absence from `LiveTrades` needs `Lifecycle`.

**The market.** `MarketInv == BookInv /\ CalendarInv /\ FeedInv`: the n-th loop day is
the n-th of the calendar's trading days, and rows are positive days with closes a ticker may have.
The heart of `CrossoverProgram` is that a group of the crossover is a valid action
(`EntryIsAnAction` and its counterpart for exits), that of `FreshEntries` the lemma
`ReferenceIsFresh`, kept until conversion by `EntriesInv`; `LoopDays` rests on
least and greatest elements of sets of days and on counting (`UpTo`).

**The series.** `AccountInv == LoopIsRight /\ RowsAreRight`. How long a list should be
depends on the phase - in `mark` the day has no entry yet, in `trade` open legs have
today's P&L and not yet today's valuation - so a row is right *in a phase of a day*
(`RowIsRight(st, ph, d)`), and each action moves its rows from one to the next.

**Sums.** Whatever adds up - fills, events, P&L, costs - is a fold over a finite set or
a sequence. The library's induction theorems take the statement as an operator,
which no prover here can instantiate, so `SumTheorems` states induction with a *set*:
one that holds what comes first, and the next with each of its elements, holds all.
From it: a sum does not depend on the order in which the fold picks elements, splits
over disjoint sets, and changes by what one element adds.

**Logs against book.** `ReplayInv`: each leg's events, summed with the sign the code
gives them, are its size. It takes the commit's preconditions, because an unwind
logs magnitudes: they mean the right thing only while no leg crosses zero.
`FillsInv`: in phase `commit` the log is ahead of the book by exactly what the
group's orders will move (`Ordered`), in every other phase it agrees with it. That a
commit does move what was ordered is `PendingTargetsAreCurrent` again.

**Look-ahead.** Two feeds with the same rows before the day (`PastRows`) answer every
read alike (`SameReads`): the series, the last valid day, the reference price and so
each decision.

**The position follows the signal.** `FollowInv` follows one patch from the signal to
the end of the day. No ticker is held twice (`OneLegEach`), the patch has one
record for each ticker that has to move and no other (`PatchIsTheMoves`), a
group that is about to commit has a close (`FilledWhenPriced`), and the live
book is the T-1 book but for the moves the cursor has passed (`LiveFollows`). At the
end of the day all are passed, and that is the property. `NothingIsRefused` takes
from the same invariant that no two groups modify one structure and none extends a
trade, and from `ReplayInv` that what is held has a size: so conversion,
duplicate check and commits all pass. That the signal does not raise is
`LookaheadReaches`, which no step changes.

**P&L.** `PnlInv`: the entries of a leg add up to its size times its mark less `paid`. To
be inductive it needs that the mark of an open leg is the close of the day when there
is one, because fills are at the close. `NoBlankCloses` keeps NaN out of the sum.

**Money and reports.** `FeesInv` dates every cost on a day its leg has P&L,
without which a fee would drop out of the net series. Deferral is proved to move P&L to
a later entry of the same leg (`DeferralKeepsTotals`); conversion, a sum of differences,
to telescope to the running total at the rate of the day. `GeneratedIsRight` says what
`Generate` returned, and the report theorems are about sums of it, split by ticker,
period or trade. `DrawdownsAreExact` goes along `EpisodeWalk`, the state of the code's
loop after each day: which days the closed episodes cover, and whether one is open.

**Only model-checked.** The liveness properties `EveryGroupIsDecided` and
`RunCompletes`: the prover has no ENABLED. The safety half of the second, that a run of
the crossover does not raise where the lookahead reaches, is `NothingIsRefused`.

## 5. What the checks found

| run | code | disagreement |
|---|---|---|
| `tripwire` | `backtest_engine.py:413` | "it cannot fire" (docstring, line 389) - on a structure with two legs on one ticker it fires on a plain full unwind: both closing legs are compared with the first live leg. Such a structure can be opened and never closed. |
| `extend` | `backtest_engine.py:511` | "availability was decided by the execution backend ... so there is no pre-check" (line 444) - the backend does not look at the trade of an extension. If an earlier group of the day closed it, the extension is filled, logged and finalized, and then its commit raises. |
| `blank` | `data/csv_backend.py:106` | "updated **only** when the pricer returns a valid price" (`design_notes.md:191`) - an empty close cell comes back as NaN, not None, so the mark is overwritten, orders fill at NaN, and the P&L of the gap is gone. |
| `valuation` | `backtest_engine.py:169` | "to keep them aligned with `daily_total_pnl`" (`design_notes.md:207`) - a leg closed today has its P&L entry but, being inactive when risk runs, no valuation entry. `EquityPricer` supplies no valuation data; with a pricer that does, Summary raises on closed trades. |
| `history` | `summary.py:88` | "recorded each day the leg is alive" (`design_notes.md:189`) - Summary expects entries up to the *trade's* exit, and raises on a structure that closed before its trade did. |
| `fees` | `cost_model.py:90` | "Charges a constant bps fee on transacted notional." (`design_notes.md:1518`) - the notional is signed: a short is opened with a negative size change and unwound with one, so both fills cost less than nothing and raise the net P&L. |

Four limits are by design or without a document that says otherwise, and
therefore not findings: a second `run()` resets the logs and keeps the trades, so its
log does not explain the book it inherits; in mode `any` the P&L since the last rate
is lost when the rate is missing on a leg's last day, and in mode `all` it is deferred
to later days with a rate if there are any; a loss on the very first day is no
drawdown, the curve having no peak before it; and a period's drawdown leaves out
the P&L of its own first day, on which its curve is rebased.

## 6. Abstractions

- *Ids.* uuids are counters: the n-th trade or structure has id n, so that list
  order is id order. An order is identified by its content index or by its target
  structure; `order_id`, `fill_id` and lineage strings are left out. A group's
  orders are a function, so their order in the group, and with it the trigger
  order named in a `GROUP_ATOMICITY` code, is left out.
- *execution_log* is a set: a record's group, order and date identify it, and the
  order of records is the order of groups.
- *The synthesis chain* has no rule (the default of `OrderAssembly`): orders pass unchanged.
- *Delta legs.* On the only shape the gates let through - one long leg - the anchor
  formula moves the leg by the amount itself, and so does `DeltaLegs`.
- *Numbers* are integers, multipliers 1: the tolerance 1e-12 of full closes and
  rounding are out of reach. `entry_price` is not modelled. `Notional` is divided by
  the closes, so no share count is cut off; `Fee` is a whole number.
- *Dates* are day numbers in Calendar, DataView and Crossover, and the index of the
  loop day elsewhere; `trading_days` relates the two. A code without a holiday file and
  dates that are not ISO raise in the code and are outside.
- *Calendar codes.* `SignalCode` may be `"all"`, the code's calendar-blind setting.
  `MaxStaleness`, `MaxLookahead` and `LookbackSlack` are 7, 1000 and 100 in the code
  and constants here.
- *Blank closes* are modelled where a price is read (LegAccounting) and not in the
  crossover, where rows are numbers or missing.
- *Events* are `partial_add`, ... for the code's "partial add", ...; `roll` raises
  NotImplementedError in the code and has no action here.
- *Lists of pricing inputs and valuation data* are their lengths (0: no list yet).
  Whether the pricer gives the key is one choice per pass, for all legs.
- *Conversion.* One foreign currency, whose series is one of `Factors`, so that direct,
  inverse and triangulated rates are not told apart.
- *Reports* are the numbers, not the tables: sort order, the cut at `top_n`,
  formatting and percentages are left out. One asset class has costs.
- *Excluded states*: an empty calendar (`run` returns at once), asset classes
  without a pricer (configuration errors), and what constructors reject.
- *Composition.* MarketSpec joins calendar, view, signal and loop; ReportSpec joins
  series, costs, summary and reports. The two meet in what LegAccounting takes for
  granted of the loop, which is proved there (`EventDates`, `TradesEnd`).
- *Left out*: wording, notes, tags, contract parameters.

## 7. What is not modelled

- *Ratios* (Sharpe, Calmar, annualized return and volatility, percentages): divisions
  and square roots of floats, with nothing stateful about them.
- *The report tree*, its filters and the output files: layout and I/O over what
  Reports computes. The example's filter on tags selects whole trades.
- *Missing-data mode* `per_leg` of Summary, which skips the aggregation and hands out
  one column per leg: a layout.
- *The aggregation cache* keyed by the ids of leg dictionaries: object identity, and
  whether a freed id is reused, is outside a model of values.
- *File parsing* in `data/`: I/O. What it can yield - a row, no row, a blank cell - is
  modelled where it is read.
- *FX triangulation* and the choice of a rate series: a lookup over files, constant here.
- *Instrument resolution and pricer registries*: configuration, fixed before the run.
- *Component P&L*: `EquityPricer` supplies none.
- *Read-only look-ups* of the logs by fill, order, structure or trade.
- *Later phases* of `design_notes.md`, which have no code.
