------------------------------ MODULE Reports ------------------------------
(***************************************************************************)
(* Summary.generate on a finished run, and the numbers the standard        *)
(* reports read off its per-leg series: the equity curve, the drawdown     *)
(* table, scalar and periodic metrics, the hit ratio, the trade summary    *)
(* and the breakdown by underlying (reports/*.py, metrics_registry.py).    *)
(***************************************************************************)
EXTENDS Summary

CONSTANTS
  Factors,    \* the conversion series an FxRateProvider may return
  PeriodOf    \* trading day |-> label of its period (a year or a month)

ASSUME ReportsAssumption ==
  /\ Factors \subseteq {<<>>} \cup [Days -> [nan : BOOLEAN, value : Int]]
  /\ DOMAIN PeriodOf = Days
  /\ IsFiniteSet(Tickers)

VARIABLE summary   \* what generate() keeps; mode "" before it is called

Modes == {"any", "all"}

-----------------------------------------------------------------------------
(* generate: extraction and costs, the missing-data mode, the conversion, and  *)
(* the missing-data mode once more for the days without a rate.                *)

Handled(mode, data) == IF mode = "all" THEN AdjustForMissingLegs(data) ELSE data

Generate ==
  /\ phase = "done" /\ Extracts
  /\ summary.mode = ""
  /\ \E mode \in Modes, factor \in Factors :
       LET local == Handled(mode, ExtractLegData)
       IN  summary' = [mode          |-> mode,
                       factor        |-> factor,
                       leg_data      |-> local,
                       base_leg_data |-> Handled(mode, BuildBaseLegData(local, factor))]
  /\ UNCHANGED vars

ReportInit ==
  /\ Init
  /\ summary = [mode |-> "", factor |-> <<>>, leg_data |-> <<>>, base_leg_data |-> <<>>]
ReportNext == (Next /\ UNCHANGED summary) \/ Generate
ReportSpec == ReportInit /\ [][ReportNext]_<<vars, summary>>

-----------------------------------------------------------------------------
(* get_daily_series, get_cumulative_series, get_trade_totals                    *)

OnDay(series, d) == IF d \in DOMAIN series THEN Filled(series[d]) ELSE 0

DailySeries(data, ids, key) ==
  [d \in Days |-> SumFunction([id \in ids |-> OnDay(data[id][key], d)])]

CumulativeSeries(daily) ==
  [d \in Days |-> SumFunctionOnSet(daily, 1..d)]

LegsOfTrade(data, t) == {id \in DOMAIN data : data[id].trade_id = t}

TradeTotal(data, ids, key) ==
  SumFunction([id \in ids |-> SumFunction([d \in Days |-> OnDay(data[id][key], d)])])

-----------------------------------------------------------------------------
(* drawdown_table.py *)

Drawdown(cumulative) ==
  [d \in DOMAIN cumulative |->
     cumulative[d] - Max({cumulative[e] : e \in {f \in DOMAIN cumulative : f <= d}})]

Episode(drawdown, start, end) ==
  [start |-> start, end |-> end,
   drawdown |-> Min({drawdown[d] : d \in start..end}),
   underwater_days |-> end - start + 1]

\* One day of the walk: an episode starts on the day before the first day under
\* water and ends on the day of the recovery.
Walked(drawdown, before, d) ==
  IF drawdown[d] < 0 /\ before.start = None
  THEN [start |-> Max({d - 1, 1}), found |-> before.found]
  ELSE IF drawdown[d] >= 0 /\ before.start # None
  THEN [start |-> None, found |-> before.found \cup {Episode(drawdown, before.start, d)}]
  ELSE before

EpisodeWalk(drawdown) ==
  LET walk[d \in 0..NDays] ==
        IF d = 0 THEN [start |-> None, found |-> {}] ELSE Walked(drawdown, walk[d - 1], d)
  IN  walk

\* Mutant of Episodes: an episode that does not recover is not reported.
Episodes_DropsOpen(drawdown) == EpisodeWalk(drawdown)[NDays].found

\* _compute_drawdown_table_from_cum: an episode that does not recover ends on the
\* last day.  The order of the table and its cut at top_n are left out.
Episodes(drawdown) ==
  LET last == EpisodeWalk(drawdown)[NDays]
  IN  IF last.start = None THEN last.found
      ELSE last.found \cup {Episode(drawdown, last.start, NDays)}

-----------------------------------------------------------------------------
(* metrics_registry.py and periodic_metrics.py *)

ReturnOf(daily) == SumFunction(daily)
MaxDrawdown(cumulative) == Min(LET dd == Drawdown(cumulative) IN {dd[d] : d \in DOMAIN dd})

Periods == {PeriodOf[d] : d \in Days}

\* Mutant of PeriodDays: a period takes in the day before it.
PeriodDays_Overlap(p) == {d \in Days : PeriodOf[d] = p \/ (d < NDays /\ PeriodOf[d + 1] = p)}

PeriodDays(p) == {d \in Days : PeriodOf[d] = p}

\* cum_period: the curve of a period, from its own first day.
PeriodCurve(cumulative, p) ==
  [d \in PeriodDays(p) |-> cumulative[d] - cumulative[Min(PeriodDays(p))]]

PeriodReturn(daily, p) == ReturnOf([d \in PeriodDays(p) |-> daily[d]])

-----------------------------------------------------------------------------
(* hit_ratio.py, trade_summary.py and by_underlying.py *)

\* The trades of a row of the hit ratio: by the period they were entered in.
EnteredIn(data, p) ==
  {t \in {data[id].trade_id : id \in DOMAIN data} : PeriodOf[trades[t].entry_date] = p}

\* Mutant of HoldingDays: nights, not days.
HoldingDays_Nights(t) ==
  (IF trades[t].exit_date = None THEN NDays ELSE trades[t].exit_date) - trades[t].entry_date

HoldingDays(t) ==
  (IF trades[t].exit_date = None THEN NDays ELSE trades[t].exit_date)
    - trades[t].entry_date + 1

\* Mutant of UnderlyingLegs: the legs of the trades on the ticker.
UnderlyingLegs_OfTrades(data, k) ==
  {id \in DOMAIN data : \E other \in DOMAIN data :
     data[other].ticker = k /\ data[other].trade_id = data[id].trade_id}

\* by_ticker[k]
UnderlyingLegs(data, k) == {id \in DOMAIN data : data[id].ticker = k}
=============================================================================
