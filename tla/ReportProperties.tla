-------------------------- MODULE ReportProperties --------------------------
(***************************************************************************)
(* What the reports of one generate() must agree on, in both missing-data  *)
(* modes, with gaps in the closes and in the rates.                        *)
(***************************************************************************)
EXTENDS Reports, LegAccountingProperties

Generated == summary.mode # ""
Keys == {"gross", "cost", "net"}

Portfolio(data, key) == DailySeries(data, DOMAIN data, key)
Base == summary.base_leg_data

\* Net is gross less costs for every trade, in local and in base currency: what
\* the gaps defer, defers costs and P&L alike, and the conversion treats them
\* alike.
NetIsGrossLessCosts ==
  Generated =>
    \A data \in {summary.leg_data, Base} : \A t \in DOMAIN trades :
      LET total(key) == TradeTotal(data, LegsOfTrade(data, t), key)
      IN  total("net") = total("gross") - total("cost")

\* The conversion is path-independent (design_notes.md:1177): up to any day that
\* has a rate, what a foreign leg shows in base currency is what it shows in its
\* own, at that day's rate; days without a rate lose nothing to the next that
\* has one.  They show nothing themselves, so that what is lost at the end of a
\* leg is exactly what came after its last rate.
ConvertedAtTheRateOfTheDay ==
  Generated /\ summary.factor # <<>> =>
    \A id \in DOMAIN Base, key \in Keys :
      Base[id].ticker \in Foreign =>
        \A d \in DOMAIN Base[id][key] :
          IF summary.factor[d].nan THEN Filled(Base[id][key][d]) = 0
          ELSE RunningTotal(Base[id][key], d)
                 = RunningTotal(summary.leg_data[id][key], d) * summary.factor[d].value

\* The drawdown table is exact: the days under water are the inner days of its
\* episodes, an episode starts on a peak and ends on a recovery or with the run,
\* no two share a day under water, and the deepest is the maximum drawdown the
\* metrics report.
DrawdownTableIsExact ==
  Generated =>
    LET cumulative == CumulativeSeries(Portfolio(Base, "net"))
        drawdown   == Drawdown(cumulative)
        table      == Episodes(drawdown)
        inner(e)   == {d \in e.start..e.end : drawdown[d] < 0}
    IN  /\ {d \in Days : drawdown[d] < 0} = UNION {inner(e) : e \in table}
        /\ \A e \in table :
             /\ drawdown[e.start] = 0
             /\ inner(e) = (e.start + 1)..(IF drawdown[e.end] = 0 THEN e.end - 1 ELSE NDays)
        /\ \A e, f \in table : e # f => inner(e) \cap inner(f) = {}
        /\ Min({0} \cup {e.drawdown : e \in table}) = MaxDrawdown(cumulative)

\* The breakdown by underlying splits the portfolio: on every day the tickers'
\* series add up to the portfolio's, spreads included.
UnderlyingsAddUp ==
  Generated =>
    \A key \in Keys, d \in Days :
      SumFunction([k \in Tickers |-> DailySeries(Base, UnderlyingLegs(Base, k), key)[d]])
        = Portfolio(Base, key)[d]

\* The rows of the periodic metrics agree with its total: the returns of the
\* periods add up to the return of the run, and no period's drawdown is deeper.
PeriodsAgreeWithTheTotal ==
  Generated =>
    LET daily      == Portfolio(Base, "net")
        cumulative == CumulativeSeries(daily)
    IN  /\ SumFunction([p \in Periods |-> PeriodReturn(daily, p)]) = ReturnOf(daily)
        /\ \A p \in Periods :
             MaxDrawdown(PeriodCurve(cumulative, p)) >= MaxDrawdown(cumulative)

\* The reports by trade cover the run once: the totals of the trade summary add
\* up to the return of the portfolio, every trade is in one row of the hit ratio,
\* and it is held as many days as its first structure has P&L.
TradesAddUp ==
  Generated =>
    /\ \A key \in {"gross", "net"} :
         SumFunction([t \in DOMAIN trades |-> TradeTotal(Base, LegsOfTrade(Base, t), key)])
           = ReturnOf(Portfolio(Base, key))
    /\ \A t \in DOMAIN trades :
         /\ Cardinality({p \in Periods : t \in EnteredIn(Base, p)}) = 1
         /\ HoldingDays(t) =
              Len(structures[Min(StructuresOf(t))].legs[1].daily_total_pnl)

\* A fee is charged: no fill costs less than nothing ("Charges a constant bps
\* fee on transacted notional.", design_notes.md:1518).
CostsAreNeverNegative ==
  \A s \in DOMAIN structures : \A i \in DOMAIN structures[s].legs, d \in Days :
    CostOn(s, i, d).value >= 0
=============================================================================
