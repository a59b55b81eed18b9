------------------------------ MODULE Summary ------------------------------
(***************************************************************************)
(* What summary.py makes of the trade history a run leaves behind: the     *)
(* alignment of every leg's P&L series with the trading days, its costs,   *)
(* the missing-data mode "all", which moves the P&L of the days on which   *)
(* any leg of a trade has no price to the next day on which all have one,  *)
(* and the conversion to the base currency.  A series is a function from   *)
(* dates to floats.                                                        *)
(***************************************************************************)
EXTENDS Costs

\* The tickers whose contracts are not in the base currency; there is one other
\* currency.
CONSTANT Foreign

ASSUME ForeignAssumption == Foreign \subseteq Tickers

-----------------------------------------------------------------------------
(* _extract_leg_data *)

\* Mutant of LastPnlDate: every trade lasts to the end.
LastPnlDate_End(s) == NDays

\* The dates a structure's series are indexed with run to its trade's exit, or
\* to the last trading day.
LastPnlDate(s) ==
  LET exit == trades[structures[s].trade_id].exit_date
  IN  IF exit = None THEN NDays ELSE exit
PnlDates(s) == structures[s].original_entry_date..LastPnlDate(s)

\* Extraction does not raise for the P&L of a structure, or for its pricing
\* inputs, or for its valuation data.
PnlExtracts(s) ==
  \A i \in DOMAIN structures[s].legs :
    Len(structures[s].legs[i].daily_total_pnl) = Cardinality(PnlDates(s))
SeriesExtract(s) ==
  \A i \in DOMAIN structures[s].legs :
    LET leg == structures[s].legs[i]
    IN  /\ leg.pricing_inputs \in {0, Cardinality(PnlDates(s))}
        /\ leg.valuation_data \in {0, Cardinality(PnlDates(s))}
Extracts == \A s \in DOMAIN structures : PnlExtracts(s) /\ SeriesExtract(s)

LegIds == UNION {{<<s, i>> : i \in DOMAIN structures[s].legs} : s \in DOMAIN structures}

LegRow(s, i) ==
  LET gross == [d \in PnlDates(s) |->
                  structures[s].legs[i].daily_total_pnl[d - structures[s].original_entry_date + 1]]
      cost  == [d \in PnlDates(s) |-> CostOn(s, i, d)]
  IN  [trade_id |-> structures[s].trade_id,
       ticker   |-> structures[s].legs[i].ticker,
       gross    |-> gross,
       cost     |-> cost,
       net      |-> [d \in PnlDates(s) |-> Minus(gross[d], cost[d])]]

ExtractLegData == [id \in LegIds |-> LegRow(id[1], id[2])]

-----------------------------------------------------------------------------
(* fillna(0.0), cumsum() and diff() over the days of a running total *)

Filled(x) == IF x.nan THEN 0 ELSE x.value

RunningTotal(series, d) ==
  SumFunction([e \in {x \in DOMAIN series : x <= d} |-> Filled(series[e])])

\* The first difference is the first total.
Increment(total, d) ==
  LET earlier == {e \in DOMAIN total : e < d}
  IN  total[d] - (IF earlier = {} THEN 0 ELSE total[Max(earlier)])

-----------------------------------------------------------------------------
(* _adjust_for_missing_legs *)

\* combined_mask: a leg of the trade has no P&L that day.
MaskedDays(data, t) ==
  UNION {{d \in DOMAIN data[id].gross : data[id].gross[d].nan} :
           id \in {id \in DOMAIN data : data[id].trade_id = t}}

\* Mutant of Deferred: the masked days are zeroed, not deferred.
Deferred_Drops(series, masked) ==
  [d \in Days |-> IF d \in masked \/ d \notin DOMAIN series THEN Num(0)
                  ELSE Num(Filled(series[d]))]

\* Differences between the unmasked days, zero on the masked ones.
Deferred(series, masked) ==
  LET total == [d \in Days \ masked |-> RunningTotal(series, d)]
  IN  [d \in Days |-> IF d \in masked THEN Num(0) ELSE Num(Increment(total, d))]

\* Mutant of AdjustForMissingLegs: the costs stay on their dates.
AdjustForMissingLegs_KeepsCosts(data) ==
  [id \in DOMAIN data |->
     LET masked == MaskedDays(data, data[id].trade_id)
     IN  [data[id] EXCEPT !.gross = Deferred(@, masked), !.net = Deferred(@, masked)]]

AdjustForMissingLegs(data) ==
  [id \in DOMAIN data |->
     LET masked == MaskedDays(data, data[id].trade_id)
     IN  [data[id] EXCEPT !.gross = Deferred(@, masked),
                          !.cost  = Deferred(@, masked),
                          !.net   = Deferred(@, masked)]]

-----------------------------------------------------------------------------
(* _build_base_leg_data.  factor is aligned with the trading days, NaN where    *)
(* the pair has no rate; it is <<>> when the pair has no series at all.         *)

\* Mutant of SpotConverted: every day at its own rate, a gap is lost.
SpotConverted_Daily(series, factor) ==
  [d \in DOMAIN series |-> IF factor[d].nan THEN NaN
                           ELSE Num(Filled(series[d]) * factor[d].value)]

\* _cumulative_spot_convert: the cumulative local series at the rate of the day,
\* differenced between the days of the series that have a rate.
SpotConverted(series, factor) ==
  LET total == [d \in {e \in DOMAIN series : ~factor[e].nan} |->
                  RunningTotal(series, d) * factor[d].value]
  IN  [d \in DOMAIN series |-> IF factor[d].nan THEN NaN ELSE Num(Increment(total, d))]

\* Legs in the base currency, or without a series for the pair, stay as they are.
BuildBaseLegData(data, factor) ==
  [id \in DOMAIN data |->
     IF data[id].ticker \notin Foreign \/ factor = <<>> THEN data[id]
     ELSE [data[id] EXCEPT !.gross = SpotConverted(@, factor),
                           !.cost  = SpotConverted(@, factor),
                           !.net   = SpotConverted(@, factor)]]
=============================================================================
