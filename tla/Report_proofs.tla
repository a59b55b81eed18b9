----------------------------- MODULE Report_proofs -----------------------------
(***************************************************************************)
(* Proofs about what summary.py and the reports make of a finished run,    *)
(* for every history, every conversion series and both missing-data modes: *)
(* deferral and conversion lose nothing, net is gross less costs, and the  *)
(* reports agree with each other.                                          *)
(***************************************************************************)
EXTENDS ReportProperties, LegAccounting_proofs

-----------------------------------------------------------------------------
(***************************************************************************)
(* Series over the days of the run: their running totals and what          *)
(* differencing and deferring (summary.py) make of them.                   *)
(***************************************************************************)
IsSeries(series) ==
  DOMAIN series \subseteq Days /\ \A d \in DOMAIN series : series[d] \in Floats

FilledSeries(series) == [d \in DOMAIN series |-> Filled(series[d])]

LEMMA DaysAreFinite ==
  /\ Days \subseteq Int /\ IsFiniteSet(Days) /\ NDays \in Days
  /\ \A D \in SUBSET Days : D \subseteq Int /\ IsFiniteSet(D)
<1>1. NDays \in Int /\ NDays >= 1
  BY SizesAssumption
<1>2. Days \subseteq Int /\ NDays \in Days
  BY <1>1 DEF Days
<1>3. IsFiniteSet(Days)
  BY <1>1, FiniteInterval DEF Days
<1>4. \A D \in SUBSET Days : IsFiniteSet(D)
  BY <1>3, FS_Subset, Zenon
<1> QED BY <1>2, <1>3, <1>4, Zenon

LEMMA RunningTotalIs ==
  ASSUME NEW series, NEW d
  PROVE  RunningTotal(series, d)
           = SumFunctionOnSet(FilledSeries(series), {e \in DOMAIN series : e <= d})
<1> DEFINE D == {e \in DOMAIN series : e <= d}
           f == [e \in D |-> Filled(series[e])]
<1>1. RunningTotal(series, d) = SumFunctionOnSet(f, D)
  BY Zenon DEF RunningTotal, SumFunction
<1>2. \A e \in D : f[e] = FilledSeries(series)[e]
  BY DEF FilledSeries
<1> HIDE DEF f, D
<1>3. SumFunctionOnSet(f, D) = SumFunctionOnSet(FilledSeries(series), D)
  BY <1>2, SumEqual, Zenon
<1> QED BY <1>1, <1>3, Zenon DEF D

LEMMA RunningTotalIsInt ==
  ASSUME NEW series, IsSeries(series), NEW d
  PROVE  RunningTotal(series, d) \in Int
<1> DEFINE D == {e \in DOMAIN series : e <= d}
<1>1. D \subseteq DOMAIN series /\ IsFiniteSet(D)
  BY DaysAreFinite, Zenon DEF IsSeries
<1>2. \A e \in D : FilledSeries(series)[e] \in Int
  BY <1>1, FilledIsInt, Zenon DEF IsSeries, FilledSeries
<1> HIDE DEF D
<1>3. SumFunctionOnSet(FilledSeries(series), D) \in Int
  BY <1>1, <1>2, SumInt, Zenon
<1> QED BY <1>3, RunningTotalIs, Zenon DEF D

\* diff() of whole numbers on some days.
LEMMA IncrementIsInt ==
  ASSUME NEW total, DOMAIN total \subseteq Days, \A d \in DOMAIN total : total[d] \in Int,
         NEW d \in DOMAIN total
  PROVE  Increment(total, d) \in Int
<1> DEFINE earlier == {e \in DOMAIN total : e < d}
<1>1. earlier \subseteq DOMAIN total /\ earlier \subseteq Int /\ IsFiniteSet(earlier)
  BY DaysAreFinite, Zenon
<1>2. earlier # {} => total[Max(earlier)] \in Int
  <2> HIDE DEF earlier
  <2> QED BY <1>1, FiniteExtremes, Zenon
<1>3. Increment(total, d) = total[d] - (IF earlier = {} THEN 0 ELSE total[Max(earlier)])
  BY Zenon DEF Increment
<1> HIDE DEF earlier
<1> QED BY <1>2, <1>3

\* Differencing a total loses nothing: what is shown up to a day of the total is
\* the total of that day, if nothing is shown on the other days.
LEMMA DifferencesAddUp ==
  ASSUME NEW total, DOMAIN total \subseteq Days, \A d \in DOMAIN total : total[d] \in Int,
         NEW series, IsSeries(series), DOMAIN total \subseteq DOMAIN series,
         \A d \in DOMAIN total : Filled(series[d]) = Increment(total, d),
         \A d \in DOMAIN series \ DOMAIN total : Filled(series[d]) = 0,
         NEW last \in DOMAIN total
  PROVE  RunningTotal(series, last) = total[last]
<1> DEFINE D == DOMAIN total
           step == FilledSeries(series)
           all == {e \in DOMAIN series : e <= last}
           part == {e \in D : e <= last}
<1>1. /\ part \subseteq all /\ D \subseteq Int /\ IsFiniteSet(D) /\ IsFiniteSet(all)
      /\ \A e \in all \ part : step[e] = 0
      /\ \A e \in part : step[e] = Increment(total, e)
  BY DaysAreFinite, Zenon DEF IsSeries, FilledSeries
<1>2. \A e \in part : step[e] \in Int
  <2>1. \A e \in D : Increment(total, e) \in Int
    BY IncrementIsInt, Zenon
  <2> HIDE DEF step
  <2> QED BY <1>1, <2>1, Zenon
<1>3. SumFunctionOnSet(step, all) = SumFunctionOnSet(step, part)
  <2> HIDE DEF step, all, part
  <2> QED BY <1>1, <1>2, SumOfPart, Zenon
<1>4. \A d \in D : LET earlier == {e \in D : e < d}
                   IN  step[d] = total[d] - (IF earlier = {} THEN 0 ELSE total[Max(earlier)])
  BY Zenon DEF Increment, FilledSeries
<1>5. SumFunctionOnSet(step, part) = total[last]
  <2>1. last \in D /\ \A e \in D : total[e] \in Int
    OBVIOUS
  <2>2. D \in SUBSET Int /\ IsFiniteSet(D)
    BY <1>1, Zenon
  <2> HIDE DEF step, D, all
  <2>3. SumFunctionOnSet(step, {d \in D : d <= last}) = total[last]
    BY <1>4, <2>1, <2>2, Telescope
  <2> QED BY <2>3, Zenon
<1> QED BY <1>3, <1>5, RunningTotalIs, Zenon

-----------------------------------------------------------------------------
(* Deferral. *)

DeferredTotal(series, masked) == [d \in Days \ masked |-> RunningTotal(series, d)]

LEMMA DeferredIs ==
  ASSUME NEW series, IsSeries(series), NEW masked
  PROVE  LET new   == Deferred(series, masked)
             total == DeferredTotal(series, masked)
         IN  /\ IsSeries(new) /\ DOMAIN new = Days
             /\ \A d \in Days \cap masked : new[d] = Num(0)
             /\ \A d \in Days \ masked :
                  total[d] \in Int /\ Increment(total, d) \in Int
                    /\ Filled(new[d]) = Increment(total, d)
<1> DEFINE total == DeferredTotal(series, masked)
           new == Deferred(series, masked)
<1>1. DOMAIN total = Days \ masked /\ \A d \in Days \ masked : total[d] \in Int
  BY RunningTotalIsInt, Zenon DEF DeferredTotal
<1>2. \A d \in Days \ masked : Increment(total, d) \in Int
  <2> HIDE DEF total
  <2> QED BY <1>1, IncrementIsInt, Zenon
<1>3. new = [d \in Days |-> IF d \in masked THEN Num(0) ELSE Num(Increment(total, d))]
  BY Zenon DEF Deferred, DeferredTotal
<1> HIDE DEF total, new
<1>4. DOMAIN new = Days
  BY <1>3, Zenon
<1>5. \A d \in Days \cap masked : new[d] = Num(0)
  BY <1>3, Zenon
<1>6. \A d \in Days \ masked : new[d] = Num(Increment(total, d))
  BY <1>3, Zenon
<1>7. IsSeries(new)
  <2>1. 0 \in Int
    OBVIOUS
  <2> QED BY <1>2, <1>4, <1>5, <1>6, <2>1, FloatOperations, Zenon DEF IsSeries
<1>8. \A n : Filled(Num(n)) = n
  BY DEF Filled, Num
<1> QED BY <1>1, <1>2, <1>4, <1>5, <1>6, <1>7, <1>8, Zenon DEF total, new

\* Up to a day that is not masked, what deferral shows is what there was.
LEMMA DeferralKeepsRunningTotal ==
  ASSUME NEW series, IsSeries(series), NEW masked, NEW d \in Days \ masked
  PROVE  RunningTotal(Deferred(series, masked), d) = RunningTotal(series, d)
<1> DEFINE total == DeferredTotal(series, masked)
           new == Deferred(series, masked)
<1>1. /\ IsSeries(new) /\ DOMAIN new = Days
      /\ \A e \in Days \cap masked : new[e] = Num(0)
      /\ \A e \in Days \ masked :
           total[e] \in Int /\ Increment(total, e) \in Int
             /\ Filled(new[e]) = Increment(total, e)
  BY DeferredIs, Zenon
<1>2. DOMAIN total = Days \ masked /\ total[d] = RunningTotal(series, d)
  BY Zenon DEF DeferredTotal
<1>3. Filled(Num(0)) = 0
  BY DEF Filled, Num
<1> HIDE DEF total, new
<1>4. \A e \in DOMAIN new \ DOMAIN total : Filled(new[e]) = 0
  BY <1>1, <1>2, <1>3, Zenon
<1>5. RunningTotal(new, d) = total[d]
  BY <1>1, <1>2, <1>4, DifferencesAddUp, Zenon
<1> QED BY <1>2, <1>5, Zenon DEF new

-----------------------------------------------------------------------------
(* What Summary extracts. *)

LEMMA PnlDatesAreDays ==
  ASSUME AccountInv, NEW s \in DOMAIN structures
  PROVE  /\ LastPnlDate(s) \in Days /\ structures[s].original_entry_date \in Days
         /\ PnlDates(s) \subseteq Days /\ structures[s] \in Rows
<1>1. structures[s] \in Rows /\ structures[s].trade_id \in DOMAIN trades
  BY Zenon DEF AccountInv, RowsAreRight, RowIsRight
<1>2. structures[s].original_entry_date \in Days
  BY <1>1 DEF Rows
<1>3. trades[structures[s].trade_id].exit_date \in Days \cup {None}
  <2> DEFINE Trades == [entry_date : Days, exit_date : Days \cup {None}]
  <2>1. trades \in Seq(Trades)
    BY Zenon DEF AccountInv, LoopIsRight
  <2>2. trades[structures[s].trade_id] \in Trades
    <3> HIDE DEF Trades
    <3> QED BY <1>1, <2>1
  <2> QED BY <2>2
<1>4. LastPnlDate(s) \in Days
  BY <1>3, DaysAreFinite DEF LastPnlDate
<1>5. \A a, b \in Days : a..b \subseteq Days
  BY SizesAssumption DEF Days
<1> QED BY <1>1, <1>2, <1>4, <1>5, Zenon DEF PnlDates

\* A leg's extracted P&L is its series, day by day, and adds up to its total.
LEMMA GrossSeries ==
  ASSUME AccountInv, NEW s \in DOMAIN structures, PnlExtracts(s),
         NEW i \in DOMAIN structures[s].legs
  PROVE  /\ IsSeries(LegRow(s, i).gross) /\ DOMAIN LegRow(s, i).gross = PnlDates(s)
         /\ RunningTotal(LegRow(s, i).gross, NDays) = TotalPnl(structures[s].legs[i])
<1> DEFINE leg == structures[s].legs[i]
           pnl == leg.daily_total_pnl
           entry == structures[s].original_entry_date
           last == LastPnlDate(s)
           dates == PnlDates(s)
           n == Len(pnl)
           gross == LegRow(s, i).gross
<1>1. entry \in Days /\ last \in Days /\ dates \subseteq Days /\ structures[s] \in Rows
  BY PnlDatesAreDays, Zenon
<1>2. pnl \in Seq(Floats)
  <2>1. leg \in LegStates
    BY <1>1, LegsOfRow, Zenon
  <2> QED BY <2>1 DEF LegStates
<1>3. entry \in Int /\ last \in Int /\ dates = entry..last
  BY <1>1, DaysAreFinite, Zenon DEF PnlDates
<1>4. n = IF entry > last THEN 0 ELSE last - entry + 1
  <2>1. n = Cardinality(entry..last)
    BY <1>3, Zenon DEF PnlExtracts
  <2> QED BY <1>3, <2>1, FS_Interval, Zenon
<1>5. gross = [d \in dates |-> pnl[d - entry + 1]]
  BY DEF LegRow
<1> HIDE DEF leg, pnl, entry, last, dates, n, gross
<1>6. DOMAIN pnl = 1..n /\ n \in Nat /\ \A k \in 1..n : pnl[k] \in Floats
  BY <1>2 DEF n
<1>7. \A d \in dates : d - entry + 1 \in 1..n /\ d \in Int
  BY <1>3, <1>4
<1>8. DOMAIN gross = dates /\ \A d \in dates : gross[d] = pnl[d - entry + 1]
  BY <1>5, Zenon
<1>9. IsSeries(gross)
  BY <1>1, <1>6, <1>7, <1>8, Zenon DEF IsSeries
<1> DEFINE p == [d \in dates |-> d - entry + 1]
           h == [k \in 1..n |-> Filled(pnl[k])]
           f == FilledSeries(gross)
<1>10. \A d \in dates : d <= NDays
  BY <1>1, SizesAssumption DEF Days
<1>11. RunningTotal(gross, NDays) = SumFunctionOnSet(f, dates)
  <2>1. {e \in DOMAIN gross : e <= NDays} = dates
    BY <1>8, <1>10, Zenon
  <2> QED BY <2>1, RunningTotalIs, Zenon
<1>12. TotalPnl(leg) = SumFunctionOnSet(h, 1..n)
  BY <1>6, Zenon DEF TotalPnl, SumFunction, pnl
<1>13. \A d \in dates : f[d] \in Int /\ h[p[d]] = f[d] /\ p[d] \in 1..n
  BY <1>6, <1>7, <1>8, FilledIsInt, Zenon DEF FilledSeries
<1>14. ASSUME NEW k \in 1..n PROVE \E d \in dates : p[d] = k
  <2>1. k + entry - 1 \in dates /\ (k + entry - 1) - entry + 1 = k
    BY <1>3, <1>4, <1>6
  <2> QED BY <2>1
<1>15. \A d, e \in dates : p[d] = p[e] => d = e
  BY <1>3, <1>7
<1>16. IsFiniteSet(dates) /\ IsFiniteSet(1..n)
  BY <1>1, <1>6, DaysAreFinite, FiniteInterval
<1> HIDE DEF p, h, f
<1> DEFINE J == 1..n
<1>17. SumFunctionOnSet(h, J) = SumFunctionOnSet(f, dates)
  <2>1. /\ IsFiniteSet(dates) /\ IsFiniteSet(J)
        /\ (\A x \in dates : p[x] \in J) /\ \A j \in J : \E x \in dates : p[x] = j
    BY <1>13, <1>14, <1>16, Zenon
  <2>2. (\A x \in dates : f[x] \in Int) /\ \A x \in dates : h[p[x]] = f[x]
    BY <1>13, Zenon
  <2> HIDE DEF J
  <2>3. \A x, y \in dates : p[x] = p[y] => x = y
    BY <1>15, Zenon
  <2> QED BY <2>1, <2>2, <2>3, SumAlong
<1> QED BY <1>8, <1>9, <1>11, <1>12, <1>17, Zenon DEF leg, gross, dates

LEMMA ExtractedLeg ==
  ASSUME NEW id \in LegIds
  PROVE  /\ id[1] \in DOMAIN structures /\ id[2] \in DOMAIN structures[id[1]].legs
         /\ ExtractLegData[id] = LegRow(id[1], id[2]) /\ DOMAIN ExtractLegData = LegIds
<1>1. PICK s \in DOMAIN structures : \E i \in DOMAIN structures[s].legs : id = <<s, i>>
  BY Zenon DEF LegIds
<1>2. PICK i \in DOMAIN structures[s].legs : id = <<s, i>>
  BY <1>1, Zenon
<1>3. id[1] = s /\ id[2] = i
  BY <1>2
<1> QED BY <1>3, Zenon DEF ExtractLegData

LEMMA MaskedDaysAreDays ==
  ASSUME AccountInv, Extracts, NEW t
  PROVE  MaskedDays(ExtractLegData, t) \subseteq Days
<1>1. ASSUME NEW id \in LegIds PROVE DOMAIN ExtractLegData[id].gross \subseteq Days
  <2>1. /\ id[1] \in DOMAIN structures /\ id[2] \in DOMAIN structures[id[1]].legs
        /\ ExtractLegData[id] = LegRow(id[1], id[2])
    BY ExtractedLeg, Zenon
  <2>2. PnlExtracts(id[1])
    BY <2>1, Zenon DEF Extracts
  <2> QED BY <2>1, <2>2, GrossSeries, Zenon DEF IsSeries
<1>2. DOMAIN ExtractLegData = LegIds
  BY Zenon DEF ExtractLegData
<1> QED BY <1>1, <1>2, Zenon DEF MaskedDays

\* _adjust_for_missing_legs: what the gaps of a trade hold back is shown on the next
\* day all its legs have a price; without blank closes nothing is lost by the end.
THEOREM DeferralLosesNothing ==
  ASSUME NoBlankCloses
  PROVE  Spec => []DeferralKeepsTotals
<1>1. ASSUME PnlInv, Extracts, NEW id \in LegIds
      PROVE  LET data   == AdjustForMissingLegs(ExtractLegData)
                 leg    == structures[id[1]].legs[id[2]]
                 masked == MaskedDays(ExtractLegData, data[id].trade_id)
             IN  /\ NDays \notin masked =>
                      Num(RunningTotal(data[id].gross, NDays))
                        = Minus(Times(leg.current_size, leg.current_price), leg.paid)
                 /\ \A d \in masked : data[id].gross[d] = Num(0)
  <2> DEFINE s == id[1]
             i == id[2]
             row == LegRow(s, i)
             leg == structures[s].legs[i]
             masked == MaskedDays(ExtractLegData, row.trade_id)
             new == AdjustForMissingLegs(ExtractLegData)[id]
  <2>1. /\ s \in DOMAIN structures /\ i \in DOMAIN structures[s].legs
        /\ ExtractLegData[id] = row /\ id \in DOMAIN ExtractLegData
    BY <1>1, ExtractedLeg, Zenon
  <2>2. new.trade_id = row.trade_id /\ new.gross = Deferred(row.gross, masked)
    <3>1. new = [row EXCEPT !.gross = Deferred(row.gross, masked),
                            !.cost  = Deferred(row.cost, masked),
                            !.net   = Deferred(row.net, masked)]
      BY <2>1 DEF AdjustForMissingLegs
    <3> HIDE DEF masked, new
    <3> QED BY <3>1 DEF LegRow
  <2>3. IsSeries(row.gross) /\ RunningTotal(row.gross, NDays) = TotalPnl(leg)
    BY <1>1, <2>1, GrossSeries, Zenon DEF PnlInv, Extracts
  <2>4. masked \subseteq Days /\ NDays \in Days
    BY <1>1, MaskedDaysAreDays, DaysAreFinite, Zenon DEF PnlInv
  <2>5. LegAddsUp(leg)
    BY <1>1, <2>1, Zenon DEF PnlInv, RowIsExplained, LegIsExplained
  <2> HIDE DEF new, row, leg, masked
  <2>6. \A d \in masked : new.gross[d] = Num(0)
    BY <2>2, <2>3, <2>4, DeferredIs
  <2>7. NDays \notin masked => RunningTotal(new.gross, NDays) = TotalPnl(leg)
    BY <2>2, <2>3, <2>4, DeferralKeepsRunningTotal
  <2>8. Minus(Times(leg.current_size, leg.current_price), leg.paid) = Num(TotalPnl(leg))
    BY <2>5 DEF LegAddsUp, Minus, Times, Num
  <2> QED BY <2>2, <2>6, <2>7, <2>8, Zenon DEF new, leg, masked
<1>2. PnlInv => DeferralKeepsTotals
  BY <1>1, Zenon DEF DeferralKeepsTotals
<1> QED BY <1>2, PnlInvariant, PTL

-----------------------------------------------------------------------------
(***************************************************************************)
(* What a run charges.  A fill has a number as exposure, and its date is a *)
(* day on which its legs show a P&L: no cost falls into a gap.             *)
(***************************************************************************)
EventIsCharged(st, event) ==
  /\ \A i \in DOMAIN event.cost_exposures : ~event.cost_exposures[i].nan
  /\ \A i \in DOMAIN st.legs :
       LET pnl == st.legs[i].daily_total_pnl
           n   == event.date - st.original_entry_date + 1
       IN  n \in DOMAIN pnl /\ ~pnl[n].nan

LastIsShown(st, closes) ==
  st.closed = None =>
    \A i \in DOMAIN st.legs :
      LET pnl == st.legs[i].daily_total_pnl
      IN  st.legs[i].ticker \in DOMAIN closes => Len(pnl) \in DOMAIN pnl /\ ~pnl[Len(pnl)].nan

RowIsCharged(st, closes) ==
  /\ \A e \in DOMAIN st.event_log : EventIsCharged(st, st.event_log[e])
  /\ LastIsShown(st, closes)

FeesInv == PnlInv /\ \A s \in DOMAIN structures : RowIsCharged(structures[s], quote)

\* The P&L of old is a beginning of that of new.
PnlIsKept(old, new) ==
  /\ DOMAIN new.legs = DOMAIN old.legs
  /\ new.original_entry_date = old.original_entry_date
  /\ \A i \in DOMAIN old.legs : \A k \in DOMAIN old.legs[i].daily_total_pnl :
       /\ k \in DOMAIN new.legs[i].daily_total_pnl
       /\ new.legs[i].daily_total_pnl[k] = old.legs[i].daily_total_pnl[k]

LEMMA EventStaysCharged ==
  ASSUME NEW old, NEW new, PnlIsKept(old, new), NEW event, EventIsCharged(old, event)
  PROVE  EventIsCharged(new, event)
<1> DEFINE n == event.date - old.original_entry_date + 1
<1>1. new.original_entry_date = old.original_entry_date /\ DOMAIN new.legs = DOMAIN old.legs
  BY Zenon DEF PnlIsKept
<1>2. event.date - new.original_entry_date + 1 = n
  BY <1>1
<1>3. \A i \in DOMAIN event.cost_exposures : ~event.cost_exposures[i].nan
  BY Zenon DEF EventIsCharged
<1> SUFFICES ASSUME NEW i \in DOMAIN old.legs
             PROVE  n \in DOMAIN new.legs[i].daily_total_pnl /\ ~new.legs[i].daily_total_pnl[n].nan
  BY <1>1, <1>2, <1>3, Zenon DEF EventIsCharged
<1>4. n \in DOMAIN old.legs[i].daily_total_pnl /\ ~old.legs[i].daily_total_pnl[n].nan
  BY Zenon DEF EventIsCharged
<1> HIDE DEF n
<1>5. /\ n \in DOMAIN new.legs[i].daily_total_pnl
      /\ new.legs[i].daily_total_pnl[n] = old.legs[i].daily_total_pnl[n]
  BY <1>4, Zenon DEF PnlIsKept
<1> QED BY <1>4, <1>5, Zenon

LEMMA LogStaysCharged ==
  ASSUME NEW old, NEW new, PnlIsKept(old, new), new.event_log = old.event_log,
         \A e \in DOMAIN old.event_log : EventIsCharged(old, old.event_log[e])
  PROVE  \A e \in DOMAIN new.event_log : EventIsCharged(new, new.event_log[e])
BY EventStaysCharged, Zenon

\* A fill of a row is logged on a day its legs have a close.
LEMMA FillIsCharged ==
  ASSUME PnlInv, NoBlankCloses, phase = "trade", NEW s \in DOMAIN structures,
         RowIsCharged(structures[s], quote), structures[s].closed = None,
         Priced(structures[s].legs), NEW event_type, NEW changes
  PROVE  EventIsCharged(structures[s], Event(event_type, structures[s].legs, changes))
<1> DEFINE st == structures[s]
           event == Event(event_type, st.legs, changes)
<1>1. event.date = day /\ event.cost_exposures = CostExposures(st.legs)
  BY DEF Event
<1>2. st \in Rows /\ LoopIsRight
  BY Zenon DEF PnlInv, AccountInv, RowsAreRight, RowIsRight
<1>3. ASSUME NEW i \in DOMAIN CostExposures(st.legs)
      PROVE  ~CostExposures(st.legs)[i].nan
  <2>1. DOMAIN st.legs = 1..Len(st.legs)
    BY <1>2, PricedLegs, Zenon
  <2>2. i \in DOMAIN st.legs /\ CostExposures(st.legs)[i] = quote[st.legs[i].ticker]
    <3> HIDE DEF st
    <3> QED BY <2>1 DEF CostExposures
  <2>3. st.legs[i].ticker \in DOMAIN quote
    BY <2>2, Zenon DEF Priced
  <2> QED BY <1>2, <2>2, <2>3, QuotesAreNumbers, Zenon
<1>4. ASSUME NEW i \in DOMAIN st.legs
      PROVE  LET pnl == st.legs[i].daily_total_pnl
                 n   == day - st.original_entry_date + 1
             IN  n \in DOMAIN pnl /\ ~pnl[n].nan
  <2>1. Len(st.legs[i].daily_total_pnl) = day - st.original_entry_date + 1
    BY EveryLegIsRight, Zenon DEF PnlInv, LegIsRight, LastMarked
  <2>2. st.legs[i].ticker \in DOMAIN quote
    BY Zenon DEF Priced
  <2> QED BY <2>1, <2>2, Zenon DEF RowIsCharged, LastIsShown
<1> HIDE DEF event, st
<1> QED BY <1>1, <1>3, <1>4, Zenon DEF EventIsCharged, event, st

\* A commit: the P&L stays, the fill is logged.
LEMMA CommittedRowIsCharged ==
  ASSUME NEW old \in Rows, NEW new, RowIsCharged(old, quote), NEW event,
         EventIsCharged(old, event), new.event_log = Append(old.event_log, event),
         DOMAIN new.legs = DOMAIN old.legs,
         new.original_entry_date = old.original_entry_date,
         new.closed = None => old.closed = None,
         \A i \in DOMAIN old.legs :
           /\ new.legs[i].daily_total_pnl = old.legs[i].daily_total_pnl
           /\ new.legs[i].ticker = old.legs[i].ticker
  PROVE  RowIsCharged(new, quote)
<1>1. PnlIsKept(old, new)
  BY Zenon DEF PnlIsKept
<1>2. \A e \in DOMAIN new.event_log :
        new.event_log[e] = event \/ (e \in DOMAIN old.event_log /\ new.event_log[e] = old.event_log[e])
  <2>1. old.event_log \in Seq(EventStates)
    BY DEF Rows
  <2> DEFINE log == old.event_log
  <2> HIDE DEF log
  <2>2. log \in Seq(EventStates) /\ new.event_log = Append(log, event)
    BY <2>1 DEF log
  <2>3. \A e \in DOMAIN Append(log, event) :
          Append(log, event)[e] = event \/ (e \in DOMAIN log /\ Append(log, event)[e] = log[e])
    BY <2>2
  <2> QED BY <2>2, <2>3, Zenon DEF log
<1>3. \A e \in DOMAIN new.event_log : EventIsCharged(new, new.event_log[e])
  BY <1>1, <1>2, EventStaysCharged, Zenon DEF RowIsCharged
<1>4. LastIsShown(new, quote)
  BY Zenon DEF LastIsShown, RowIsCharged
<1> QED BY <1>3, <1>4, Zenon DEF RowIsCharged

LEMMA MarkCharges ==
  ASSUME FeesInv, NoBlankCloses, MarkToMarket
  PROVE  \A s \in DOMAIN structures' : RowIsCharged(structures'[s], quote')
<1>1. PICK given \in Gives :
        structures' = [s \in DOMAIN structures |->
          IF IsOpen(s)
          THEN [structures[s] EXCEPT !.legs =
                  [i \in DOMAIN structures[s].legs |->
                     Marked(structures[s].legs[i], quote', given)]]
          ELSE structures[s]]
  BY Zenon DEF MarkToMarket
<1>2. \A k \in DOMAIN quote' : quote'[k] \in Floats /\ ~quote'[k].nan
  BY ClosesAreFloats, Zenon DEF MarkToMarket, NoBlankCloses
<1> SUFFICES ASSUME NEW s \in DOMAIN structures PROVE RowIsCharged(structures'[s], quote')
  BY <1>1, Zenon
<1> DEFINE st == structures[s]
           legs == [i \in DOMAIN st.legs |-> Marked(st.legs[i], quote', given)]
           new == [st EXCEPT !.legs = legs]
<1>3. RowIsCharged(st, quote) /\ RowIsExplained(st, quote) /\ st \in Rows
  BY Zenon DEF FeesInv, PnlInv, AccountInv, RowsAreRight, RowIsRight
<1>4. CASE IsOpen(s)
  <2>1. structures'[s] = new
    BY <1>1, <1>4, Zenon
  <2>2. /\ new.legs = legs /\ new.event_log = st.event_log
        /\ new.original_entry_date = st.original_entry_date /\ new.closed = st.closed
    BY <1>3 DEF Rows
  <2>3. ASSUME NEW i \in DOMAIN st.legs
        PROVE  LET old == st.legs[i].daily_total_pnl
                   pnl == legs[i].daily_total_pnl
               IN  /\ \A k \in DOMAIN old : k \in DOMAIN pnl /\ pnl[k] = old[k]
                   /\ Len(pnl) \in DOMAIN pnl
                   /\ legs[i].ticker \in DOMAIN quote' => ~pnl[Len(pnl)].nan
    <3> DEFINE leg == st.legs[i]
               price == quote'[leg.ticker]
               x == IF leg.ticker \in DOMAIN quote'
                    THEN Times(leg.current_size, Minus(price, leg.current_price)) ELSE NaN
    <3>1. leg \in LegStates /\ LegAddsUp(leg)
      BY <1>3, LegsOfRow, Zenon DEF RowIsExplained, LegIsExplained
    <3>2. /\ legs[i].daily_total_pnl = Append(leg.daily_total_pnl, x)
          /\ legs[i].ticker = leg.ticker
      <4>1. legs[i] = Marked(leg, quote', given)
        BY Zenon
      <4> HIDE DEF legs, leg
      <4> QED BY <3>1, <4>1 DEF Marked, LegStates
    <3>3. leg.ticker \in DOMAIN quote' => ~x.nan
      <4>1. ~leg.current_price.nan
        BY <3>1, Zenon DEF LegAddsUp
      <4> HIDE DEF leg
      <4> QED BY <1>2, <4>1 DEF Times, Minus, Num
    <3>4. leg.daily_total_pnl \in Seq(Floats)
      BY <3>1 DEF LegStates
    <3> DEFINE old == leg.daily_total_pnl
    <3> HIDE DEF x, old
    <3>5. /\ \A k \in DOMAIN old : k \in DOMAIN Append(old, x) /\ Append(old, x)[k] = old[k]
          /\ Len(Append(old, x)) \in DOMAIN Append(old, x)
          /\ Append(old, x)[Len(Append(old, x))] = x
      <4>1. old \in Seq(Floats)
        BY <3>4 DEF old
      <4> QED BY <4>1
    <3> QED BY <3>2, <3>3, <3>5, Zenon DEF old
  <2>4. DOMAIN legs = DOMAIN st.legs
    BY Zenon
  <2> HIDE DEF legs, new, st
  <2>5. PnlIsKept(st, new)
    BY <2>2, <2>3, <2>4, Zenon DEF PnlIsKept
  <2>6. \A e \in DOMAIN new.event_log : EventIsCharged(new, new.event_log[e])
    BY <1>3, <2>2, <2>5, LogStaysCharged, Zenon DEF RowIsCharged
  <2>7. LastIsShown(new, quote')
    BY <2>2, <2>3, <2>4, Zenon DEF LastIsShown
  <2> QED BY <2>1, <2>6, <2>7, Zenon DEF RowIsCharged
<1>5. CASE ~IsOpen(s)
  BY <1>1, <1>3, <1>5, Zenon DEF IsOpen, RowIsCharged, LastIsShown
<1> QED BY <1>4, <1>5

LEMMA EndDayCharges ==
  ASSUME FeesInv, EndDay
  PROVE  \A s \in DOMAIN structures' : RowIsCharged(structures'[s], quote')
<1>1. PICK given \in Gives :
        structures' = [s \in DOMAIN structures |->
          IF IsOpen(s)
          THEN [structures[s] EXCEPT !.legs =
                  [i \in DOMAIN structures[s].legs |-> Valued(structures[s].legs[i], given)]]
          ELSE structures[s]]
  BY Zenon DEF EndDay
<1>2. DOMAIN quote' = {}
  BY DEF EndDay
<1> SUFFICES ASSUME NEW s \in DOMAIN structures PROVE RowIsCharged(structures'[s], quote')
  BY <1>1, Zenon
<1> DEFINE st == structures[s]
           legs == [i \in DOMAIN st.legs |-> Valued(st.legs[i], given)]
           new == [st EXCEPT !.legs = legs]
<1>3. RowIsCharged(st, quote) /\ st \in Rows
  BY Zenon DEF FeesInv, PnlInv, AccountInv, RowsAreRight, RowIsRight
<1>4. CASE IsOpen(s)
  <2>1. structures'[s] = new
    BY <1>1, <1>4, Zenon
  <2>2. /\ new.legs = legs /\ new.event_log = st.event_log
        /\ new.original_entry_date = st.original_entry_date /\ new.closed = st.closed
    BY <1>3 DEF Rows
  <2>3. ASSUME NEW i \in DOMAIN st.legs
        PROVE  legs[i].daily_total_pnl = st.legs[i].daily_total_pnl
    <3> DEFINE leg == st.legs[i]
    <3>1. leg \in LegStates /\ legs[i] = Valued(leg, given)
      BY <1>3, LegsOfRow, Zenon
    <3> HIDE DEF leg, legs
    <3> QED BY <3>1 DEF Valued, LegStates, leg
  <2>4. DOMAIN legs = DOMAIN st.legs
    BY Zenon
  <2> HIDE DEF legs, new, st
  <2>5. PnlIsKept(st, new)
    BY <2>2, <2>3, <2>4, Zenon DEF PnlIsKept
  <2> QED BY <1>2, <1>3, <2>1, <2>2, <2>5, LogStaysCharged, Zenon DEF RowIsCharged, LastIsShown
<1>5. CASE ~IsOpen(s)
  BY <1>1, <1>3, <1>5, Zenon DEF IsOpen, RowIsCharged, LastIsShown
<1> QED BY <1>4, <1>5

LEMMA OpeningCharges ==
  ASSUME FeesInv, NoBlankCloses, NEW t, NEW content \in Contents, NewStructure(t, content)
  PROVE  \A s \in DOMAIN structures' : RowIsCharged(structures'[s], quote')
<1>1. PICK given \in Gives :
        structures' = Append(structures,
          [trade_id |-> t, original_entry_date |-> day, closed |-> None,
           legs |-> [i \in DOMAIN content |-> OpenedLeg(content[i], given)],
           event_log |-> <<Event("open", content,
                                 [i \in DOMAIN content |-> content[i].size])>>])
  BY Zenon DEF NewStructure
<1> DEFINE legs == [i \in DOMAIN content |-> OpenedLeg(content[i], given)]
           event == Event("open", content, [i \in DOMAIN content |-> content[i].size])
           row == [trade_id |-> t, original_entry_date |-> day, closed |-> None,
                   legs |-> legs, event_log |-> <<event>>]
<1>2. Priced(content) /\ quote' = quote
  BY Zenon DEF NewStructure
<1>3. /\ structures' = Append(structures, row) /\ row.legs = legs /\ row.event_log = <<event>>
      /\ row.original_entry_date = day
  BY <1>1, Zenon
<1>4. ASSUME NEW i \in DOMAIN legs
      PROVE  LET pnl == legs[i].daily_total_pnl
             IN  1 \in DOMAIN pnl /\ Len(pnl) = 1 /\ ~pnl[1].nan
  <2>1. legs[i].daily_total_pnl = <<Num(0)>>
    BY DEF OpenedLeg
  <2> HIDE DEF legs
  <2> QED BY <2>1 DEF Num
<1>5. DOMAIN content = 1..Len(content)
  <2> DEFINE Orders == [ticker : Tickers, size : Int \ {0}, cost_leg : BOOLEAN]
  <2>1. content \in Seq(Orders)
    BY SizesAssumption, Zenon
  <2> HIDE DEF Orders
  <2> QED BY <2>1
<1>6. ASSUME NEW i \in DOMAIN event.cost_exposures PROVE ~event.cost_exposures[i].nan
  <2>1. event.cost_exposures = CostExposures(content)
    BY DEF Event
  <2>2. i \in DOMAIN content /\ CostExposures(content)[i] = quote[content[i].ticker]
    BY <1>5, <2>1 DEF CostExposures
  <2>3. content[i].ticker \in DOMAIN quote
    BY <1>2, <2>2, Zenon DEF Priced
  <2> HIDE DEF event
  <2> QED BY <2>1, <2>2, <2>3, QuotesAreNumbers, Zenon DEF FeesInv, PnlInv, AccountInv
<1>7. event.date - day + 1 = 1
  <2>1. day \in Int
    BY SizesAssumption DEF FeesInv, PnlInv, AccountInv, LoopIsRight, Days
  <2> QED BY <2>1 DEF Event
<1> HIDE DEF row, legs, event
<1>8. EventIsCharged(row, event)
  BY <1>3, <1>4, <1>6, <1>7, Zenon DEF EventIsCharged
<1>9. RowIsCharged(row, quote)
  <2>1. \A e \in DOMAIN <<event>> : <<event>>[e] = event
    OBVIOUS
  <2> QED BY <1>3, <1>4, <1>8, <2>1, Zenon DEF RowIsCharged, LastIsShown
<1>10. structures \in Seq(Rows) /\ DOMAIN structures = 1..Len(structures) /\ Len(structures) \in Nat
  BY StructureRows, Zenon DEF FeesInv, PnlInv, AccountInv, RowsAreRight
<1>11. ASSUME NEW s \in DOMAIN structures'
       PROVE  structures'[s] = row \/ (s \in DOMAIN structures /\ structures'[s] = structures[s])
  <2>1. /\ DOMAIN structures' = 1..(Len(structures) + 1)
        /\ structures'[Len(structures) + 1] = row
        /\ \A r \in 1..Len(structures) : structures'[r] = structures[r]
    BY <1>3, <1>10
  <2> QED BY <1>10, <2>1
<1> QED BY <1>2, <1>9, <1>11, Zenon DEF FeesInv

LEMMA ResizeCharges ==
  ASSUME FeesInv, NoBlankCloses, NEW s \in DOMAIN structures, NEW delta \in Int,
         Resize(s, delta)
  PROVE  \A r \in DOMAIN structures' : RowIsCharged(structures'[r], quote')
<1> DEFINE st == structures[s]
           leg == Moved(st.legs[1], delta)
           event == IF delta > 0 THEN Event("partial add", st.legs, <<delta>>)
                    ELSE Event("partial unwind", st.legs, <<-delta>>)
           log == Append(st.event_log, event)
           row == [st EXCEPT !.legs = <<leg>>, !.event_log = log]
<1>1. /\ s \in Modifiable /\ Len(st.legs) = 1 /\ Priced(st.legs) /\ quote' = quote
      /\ phase = "trade"
  BY Zenon DEF Resize
<1>2. structures' = [structures EXCEPT ![s] = row]
  BY DEF Resize
<1>3. st.closed = None /\ st \in Rows /\ RowIsCharged(st, quote) /\ LoopIsRight
  BY <1>1, Zenon DEF FeesInv, PnlInv, AccountInv, RowsAreRight, RowIsRight, Modifiable,
     OpenStructures, IsOpen
<1>4. EventIsCharged(st, event)
  BY <1>1, <1>3, FillIsCharged, Zenon DEF FeesInv
<1>5. DOMAIN st.legs = {1} /\ st.legs[1] \in LegStates
  BY <1>1, <1>3, PricedLegs
<1>6. leg.daily_total_pnl = st.legs[1].daily_total_pnl /\ leg.ticker = st.legs[1].ticker
  <2> DEFINE old == st.legs[1]
  <2> HIDE DEF old
  <2>1. Moved(old, delta).daily_total_pnl = old.daily_total_pnl /\ Moved(old, delta).ticker = old.ticker
    BY <1>5 DEF Moved, LegStates, old
  <2> QED BY <2>1 DEF old
<1> HIDE DEF leg, event, st, log
<1>7. /\ row.legs = <<leg>> /\ DOMAIN <<leg>> = {1} /\ <<leg>>[1] = leg
      /\ row.event_log = Append(st.event_log, event) /\ row.closed = st.closed
      /\ row.original_entry_date = st.original_entry_date
  BY <1>3 DEF Rows, log
<1> HIDE DEF row
<1>8. RowIsCharged(row, quote)
  <2>1. \A i \in DOMAIN st.legs :
          /\ row.legs[i].daily_total_pnl = st.legs[i].daily_total_pnl
          /\ row.legs[i].ticker = st.legs[i].ticker
    BY <1>5, <1>6, <1>7
  <2>2. DOMAIN row.legs = DOMAIN st.legs
    BY <1>5, <1>7, Zenon
  <2> QED BY <1>3, <1>4, <1>7, <2>1, <2>2, CommittedRowIsCharged, Zenon
<1>9. \A r \in DOMAIN structures : structures'[r] = IF r = s THEN row ELSE structures[r]
  BY <1>2, Zenon
<1> QED BY <1>1, <1>2, <1>8, <1>9, Zenon DEF FeesInv

LEMMA CloseCharges ==
  ASSUME FeesInv, NoBlankCloses, NEW t, NEW closing, Close(t, closing)
  PROVE  \A s \in DOMAIN structures' : RowIsCharged(structures'[s], quote')
<1> DEFINE legs(st) == [i \in DOMAIN st.legs |-> Moved(st.legs[i], -st.legs[i].current_size)]
           event(st) == Event("full close", st.legs,
                              [i \in DOMAIN st.legs |-> st.legs[i].current_size])
           closed(st) == [st EXCEPT !.closed = day, !.legs = legs(st),
                                    !.event_log = Append(@, event(st))]
<1>1. /\ closing \subseteq Modifiable /\ quote' = quote /\ phase = "trade"
      /\ \A s \in closing : Priced(structures[s].legs)
  BY Zenon DEF Close
<1>2. structures' = [s \in DOMAIN structures |->
        IF s \in closing THEN closed(structures[s]) ELSE structures[s]]
  BY Zenon DEF Close
<1> SUFFICES ASSUME NEW s \in DOMAIN structures PROVE RowIsCharged(structures'[s], quote)
  BY <1>1, <1>2, Zenon
<1> DEFINE st == structures[s]
<1>3. RowIsCharged(st, quote) /\ st \in Rows /\ LoopIsRight
  BY Zenon DEF FeesInv, PnlInv, AccountInv, RowsAreRight, RowIsRight
<1>4. CASE s \in closing
  <2>1. structures'[s] = closed(st)
    BY <1>2, <1>4, Zenon
  <2>2. st.closed = None /\ Priced(st.legs)
    BY <1>1, <1>4, Zenon DEF Modifiable, OpenStructures, IsOpen
  <2>3. EventIsCharged(st, event(st))
    BY <1>1, <1>3, <2>2, FillIsCharged, Zenon DEF FeesInv
  <2>4. ASSUME NEW i \in DOMAIN st.legs
        PROVE  /\ legs(st)[i].daily_total_pnl = st.legs[i].daily_total_pnl
               /\ legs(st)[i].ticker = st.legs[i].ticker
    <3> DEFINE leg == st.legs[i]
               delta == -leg.current_size
    <3>1. leg \in LegStates /\ legs(st)[i] = Moved(leg, delta)
      BY <1>3, LegsOfRow, Zenon
    <3> HIDE DEF legs, leg, delta
    <3> QED BY <3>1 DEF Moved, LegStates, leg
  <2>5. /\ closed(st).legs = legs(st) /\ DOMAIN legs(st) = DOMAIN st.legs
        /\ closed(st).event_log = Append(st.event_log, event(st))
        /\ closed(st).original_entry_date = st.original_entry_date
    BY <1>3 DEF Rows
  <2> DEFINE new == closed(st)
             fill == event(st)
  <2>6. /\ new.event_log = Append(st.event_log, fill) /\ EventIsCharged(st, fill)
        /\ DOMAIN new.legs = DOMAIN st.legs
        /\ new.original_entry_date = st.original_entry_date
        /\ \A i \in DOMAIN st.legs :
             /\ new.legs[i].daily_total_pnl = st.legs[i].daily_total_pnl
             /\ new.legs[i].ticker = st.legs[i].ticker
    BY <2>3, <2>4, <2>5, Zenon
  <2> HIDE DEF legs, event, closed, st, new, fill
  <2>7. RowIsCharged(new, quote)
    BY <1>3, <2>2, <2>6, CommittedRowIsCharged
  <2> QED BY <2>1, <2>7, Zenon DEF new
<1>5. CASE s \notin closing
  BY <1>2, <1>3, <1>5, Zenon
<1> QED BY <1>4, <1>5

LEMMA FeesInvStep == ASSUME FeesInv, NoBlankCloses, [Next]_vars PROVE FeesInv'
<1> DEFINE Charged == \A s \in DOMAIN structures : RowIsCharged(structures[s], quote)
<1>1. ASSUME MarkToMarket PROVE Charged'
  BY <1>1, MarkCharges, Zenon
<1>2. ASSUME NEW content \in Contents,
             OpenTrade(content) \/ \E t \in DOMAIN trades : ExtendTrade(t, content)
      PROVE  Charged'
  BY <1>2, OpeningCharges, Zenon DEF OpenTrade, ExtendTrade
<1>3. ASSUME NEW s \in DOMAIN structures, NEW n \in Amounts, Resize(s, n) \/ Resize(s, -n)
      PROVE  Charged'
  <2>1. n \in Int /\ -n \in Int
    BY SizesAssumption
  <2> QED BY <1>3, <2>1, ResizeCharges, Zenon
<1>4. ASSUME CloseSome PROVE Charged'
  BY <1>4, CloseCharges, Zenon DEF CloseSome
<1>5. ASSUME EndDay PROVE Charged'
  BY <1>5, EndDayCharges, Zenon
<1>6. ASSUME UNCHANGED vars PROVE Charged'
  <2>1. UNCHANGED <<quote, structures>>
    BY <1>6, Zenon DEF vars
  <2> QED BY <2>1, Zenon DEF FeesInv, RowIsCharged, LastIsShown, EventIsCharged
<1>7. Charged'
  BY <1>1, <1>2, <1>3, <1>4, <1>5, <1>6, Zenon DEF Next, Stopped
<1>8. PnlInv'
  BY PnlInvStep, Zenon DEF FeesInv
<1> QED BY <1>7, <1>8, Zenon DEF FeesInv

LEMMA FeesInit == NoBlankCloses /\ Init => FeesInv
<1>1. Init => DOMAIN structures = {}
  BY DEF Init
<1> QED BY <1>1, AccountInit, Zenon DEF FeesInv, PnlInv

LEMMA PartOfALog ==
  ASSUME NEW log \in Seq(EventStates), NEW charged \in SUBSET DOMAIN log
  PROVE  IsFiniteSet(charged) /\ \A e \in DOMAIN log : log[e] \in EventStates
<1>1. DOMAIN log = 1..Len(log) /\ Len(log) \in Int /\ \A e \in DOMAIN log : log[e] \in EventStates
  OBVIOUS
<1>2. IsFiniteSet(DOMAIN log)
  BY <1>1, FiniteInterval
<1> QED BY <1>1, <1>2, FS_Subset, Zenon

\* The cost of an event is a float, and a number when its exposure is one.
LEMMA EventCost ==
  ASSUME NEW event \in EventStates, NEW i \in DOMAIN event.cost_exposures
  PROVE  /\ TransactionCost(event, i).value \in Int
         /\ ~event.cost_exposures[i].nan => ~TransactionCost(event, i).nan
<1> DEFINE x == event.cost_exposures[i]
           n == event.leg_size_changes[i]
<1>1. x \in Floats /\ n \in Int
  <2>1. /\ DOMAIN event.cost_exposures \subseteq DOMAIN event.leg_size_changes
        /\ event.leg_size_changes \in Seq(Int)
        /\ event.cost_exposures \in UNION {[I -> Floats] : I \in SUBSET Nat}
    BY DEF EventStates
  <2> QED BY <2>1
<1>2. TransactionCost(event, i) = Times(Fee * n, x)
  BY DEF TransactionCost
<1> HIDE DEF x, n
<1>3. Fee * n \in Int
  BY <1>1, FeeAssumption
<1> QED BY <1>1, <1>2, <1>3 DEF Times, Num, NaN, Floats, x

\* A cost is a number, and none falls on a day without P&L.
LEMMA CostsFallOnShownDays ==
  ASSUME FeesInv, NEW s \in DOMAIN structures, NEW i \in DOMAIN structures[s].legs, NEW date
  PROVE  /\ CostOn(s, i, date) \in Floats /\ ~CostOn(s, i, date).nan
         /\ LET pnl == structures[s].legs[i].daily_total_pnl
                n   == date - structures[s].original_entry_date + 1
            IN  pnl[n].nan => CostOn(s, i, date).value = 0
<1> DEFINE st == structures[s]
           log == st.event_log
           charged == {e \in DOMAIN log : log[e].date = date /\ i \in DOMAIN log[e].cost_exposures}
           cost == [e \in charged |-> TransactionCost(log[e], i)]
           f == [e \in charged |-> cost[e].value]
<1>1. RowIsCharged(st, quote) /\ st \in Rows
  BY Zenon DEF FeesInv, PnlInv, AccountInv, RowsAreRight, RowIsRight
<1>2. IsFiniteSet(charged) /\ \A e \in DOMAIN log : log[e] \in EventStates
  <2>1. log \in Seq(EventStates)
    BY <1>1 DEF Rows
  <2> HIDE DEF log
  <2> QED BY <2>1, PartOfALog, Zenon
<1>3. ASSUME NEW e \in charged PROVE ~cost[e].nan /\ cost[e].value \in Int
  <2>1. /\ log[e] \in EventStates /\ i \in DOMAIN log[e].cost_exposures
        /\ ~log[e].cost_exposures[i].nan
    BY <1>1, <1>2, Zenon DEF RowIsCharged, EventIsCharged
  <2> QED BY <2>1, EventCost, Zenon
<1>4. CostOn(s, i, date) = Num(SumFunctionOnSet(f, charged))
  <2>1. DOMAIN cost = charged /\ CostOn(s, i, date) = TotalOfFloats(cost)
    BY Zenon DEF CostOn
  <2> HIDE DEF cost, charged
  <2> QED BY <1>3, <2>1, Zenon DEF TotalOfFloats, SumFunction
<1>5. \A e \in charged : f[e] \in Int
  BY <1>3, Zenon
<1>6. SumFunctionOnSet(f, charged) \in Int
  <2> HIDE DEF f, charged
  <2> QED BY <1>2, <1>5, SumInt
<1>7. ASSUME st.legs[i].daily_total_pnl[date - st.original_entry_date + 1].nan
      PROVE  SumFunctionOnSet(f, charged) = 0
  <2>1. charged = {}
    BY <1>1, <1>7, Zenon DEF RowIsCharged, EventIsCharged
  <2> HIDE DEF f, charged
  <2> QED BY <2>1, SumEmpty
<1> HIDE DEF f, charged
<1> QED BY <1>4, <1>6, <1>7 DEF Num, Floats

-----------------------------------------------------------------------------
(***************************************************************************)
(* Conversion, and the split of gross P&L into net and cost, which both    *)
(* deferral and conversion keep.                                           *)
(***************************************************************************)
IsFactor(factor) == factor \in [Days -> Floats]

ConvertedTotal(series, factor) ==
  [d \in {e \in DOMAIN series : ~factor[e].nan} |->
     RunningTotal(series, d) * factor[d].value]

LEMMA SpotConvertedIs ==
  ASSUME NEW series, IsSeries(series), NEW factor, IsFactor(factor)
  PROVE  LET new   == SpotConverted(series, factor)
             total == ConvertedTotal(series, factor)
         IN  /\ IsSeries(new) /\ DOMAIN new = DOMAIN series
             /\ DOMAIN total \subseteq DOMAIN series
             /\ \A d \in DOMAIN series \ DOMAIN total : Filled(new[d]) = 0
             /\ \A d \in DOMAIN total :
                  total[d] \in Int /\ Increment(total, d) \in Int
                    /\ Filled(new[d]) = Increment(total, d)
<1> DEFINE total == ConvertedTotal(series, factor)
           new == SpotConverted(series, factor)
           D == {e \in DOMAIN series : ~factor[e].nan}
<1>1. DOMAIN total = D /\ D \subseteq DOMAIN series /\ DOMAIN series \subseteq Days
  BY Zenon DEF ConvertedTotal, IsSeries
<1>2. ASSUME NEW d \in D PROVE total[d] \in Int
  <2>1. RunningTotal(series, d) \in Int
    BY RunningTotalIsInt, Zenon
  <2>2. factor[d] \in Floats
    BY <1>1, Zenon DEF IsFactor
  <2>3. total[d] = RunningTotal(series, d) * factor[d].value
    BY Zenon DEF ConvertedTotal
  <2> HIDE DEF total, D
  <2>4. factor[d].value \in Int
    BY <2>2 DEF Floats
  <2> QED BY <2>1, <2>3, <2>4
<1>3. \A d \in D : Increment(total, d) \in Int
  <2> HIDE DEF total, D
  <2> QED BY <1>1, <1>2, IncrementIsInt, Zenon
<1>4. new = [d \in DOMAIN series |->
               IF factor[d].nan THEN NaN ELSE Num(Increment(total, d))]
  BY Zenon DEF SpotConverted, ConvertedTotal
<1>5. \A d \in DOMAIN series : d \in D <=> ~factor[d].nan
  OBVIOUS
<1> HIDE DEF total, new, D
<1>6. DOMAIN new = DOMAIN series
  BY <1>4, Zenon
<1>7. \A d \in DOMAIN series \ D : new[d] = NaN
  BY <1>4, <1>5, Zenon
<1>8. \A d \in D : new[d] = Num(Increment(total, d))
  BY <1>1, <1>4, <1>5, Zenon
<1>9. IsSeries(new)
  BY <1>1, <1>3, <1>6, <1>7, <1>8, FloatOperations, Zenon DEF IsSeries
<1>10. Filled(NaN) = 0 /\ \A n : Filled(Num(n)) = n
  BY DEF Filled, Num, NaN
<1> QED BY <1>1, <1>2, <1>3, <1>6, <1>7, <1>8, <1>9, <1>10, Zenon DEF total, new

\* Up to a day that has a rate, what conversion shows is the total at that rate.
LEMMA ConversionKeepsRunningTotal ==
  ASSUME NEW series, IsSeries(series), NEW factor, IsFactor(factor),
         NEW d \in DOMAIN series, ~factor[d].nan
  PROVE  RunningTotal(SpotConverted(series, factor), d)
           = RunningTotal(series, d) * factor[d].value
<1> DEFINE total == ConvertedTotal(series, factor)
           new == SpotConverted(series, factor)
<1>1. /\ IsSeries(new) /\ DOMAIN new = DOMAIN series
      /\ DOMAIN total \subseteq DOMAIN series
      /\ \A e \in DOMAIN series \ DOMAIN total : Filled(new[e]) = 0
      /\ \A e \in DOMAIN total :
           total[e] \in Int /\ Increment(total, e) \in Int
             /\ Filled(new[e]) = Increment(total, e)
  BY SpotConvertedIs, Zenon
<1>2. d \in DOMAIN total /\ total[d] = RunningTotal(series, d) * factor[d].value
  BY Zenon DEF ConvertedTotal
<1>3. DOMAIN series \subseteq Days
  BY DEF IsSeries
<1> HIDE DEF total, new
<1>4. DOMAIN total \subseteq Days
  BY <1>1, <1>3, Zenon
<1>5. RunningTotal(new, d) = total[d]
  BY <1>1, <1>2, <1>4, DifferencesAddUp, Zenon
<1> QED BY <1>2, <1>5, Zenon DEF new

\* Three series of a leg: gross is net and cost.
Splits(gross, cost, net) ==
  /\ IsSeries(gross) /\ IsSeries(cost) /\ IsSeries(net)
  /\ DOMAIN cost = DOMAIN gross /\ DOMAIN net = DOMAIN gross
  /\ \A d \in DOMAIN gross : Filled(gross[d]) = Filled(net[d]) + Filled(cost[d])

LEMMA RunningTotalsSplit ==
  ASSUME NEW gross, NEW cost, NEW net, Splits(gross, cost, net), NEW d
  PROVE  RunningTotal(gross, d) = RunningTotal(net, d) + RunningTotal(cost, d)
<1> DEFINE D == {e \in DOMAIN gross : e <= d}
           f == FilledSeries(net)
           g == FilledSeries(cost)
           h == FilledSeries(gross)
<1>1. IsFiniteSet(D) /\ D \subseteq DOMAIN gross
  BY DaysAreFinite, Zenon DEF Splits, IsSeries
<1>2. ASSUME NEW x \in D PROVE f[x] \in Int /\ g[x] \in Int /\ h[x] = f[x] + g[x]
  <2>1. x \in DOMAIN gross /\ net[x] \in Floats /\ cost[x] \in Floats
    BY <1>1, Zenon DEF Splits, IsSeries
  <2>2. f[x] = Filled(net[x]) /\ g[x] = Filled(cost[x]) /\ h[x] = Filled(gross[x])
    BY <2>1, Zenon DEF FilledSeries, Splits
  <2> QED BY <2>1, <2>2, FilledIsInt, Zenon DEF Splits
<1>3. /\ RunningTotal(gross, d) = SumFunctionOnSet(h, D)
      /\ RunningTotal(net, d) = SumFunctionOnSet(f, D)
      /\ RunningTotal(cost, d) = SumFunctionOnSet(g, D)
  BY RunningTotalIs, Zenon DEF Splits
<1> HIDE DEF D, f, g, h
<1>4. SumFunctionOnSet(h, D) = SumFunctionOnSet(f, D) + SumFunctionOnSet(g, D)
  BY <1>1, <1>2, SumPlus
<1> QED BY <1>3, <1>4, Zenon

LEMMA IncrementsSplit ==
  ASSUME NEW h, NEW f, NEW g, DOMAIN h \subseteq Days, DOMAIN f = DOMAIN h, DOMAIN g = DOMAIN h,
         \A d \in DOMAIN h : f[d] \in Int /\ g[d] \in Int /\ h[d] = f[d] + g[d],
         NEW d \in DOMAIN h
  PROVE  Increment(h, d) = Increment(f, d) + Increment(g, d)
<1> DEFINE earlier == {e \in DOMAIN h : e < d}
           before(x) == IF earlier = {} THEN 0 ELSE x[Max(earlier)]
<1>1. earlier \subseteq DOMAIN h /\ earlier \subseteq Int /\ IsFiniteSet(earlier)
  BY DaysAreFinite, Zenon
<1>2. earlier # {} => Max(earlier) \in DOMAIN h
  <2> HIDE DEF earlier
  <2> QED BY <1>1, FiniteExtremes, Zenon
<1>3. /\ Increment(h, d) = h[d] - before(h) /\ Increment(f, d) = f[d] - before(f)
      /\ Increment(g, d) = g[d] - before(g)
  BY Zenon DEF Increment
<1>4. before(f) \in Int /\ before(g) \in Int /\ before(h) = before(f) + before(g)
  <2>1. CASE earlier = {}
    BY <2>1
  <2>2. CASE earlier # {}
    <3> DEFINE m == Max(earlier)
    <3>1. before(f) = f[m] /\ before(g) = g[m] /\ before(h) = h[m]
      BY <2>2, Zenon
    <3> QED BY <1>2, <2>2, <3>1, Zenon
  <2> QED BY <2>1, <2>2
<1> HIDE DEF before
<1> QED BY <1>3, <1>4

LEMMA DeferralSplits ==
  ASSUME NEW gross, NEW cost, NEW net, Splits(gross, cost, net), NEW masked
  PROVE  Splits(Deferred(gross, masked), Deferred(cost, masked), Deferred(net, masked))
<1> DEFINE h == DeferredTotal(gross, masked)
           f == DeferredTotal(net, masked)
           g == DeferredTotal(cost, masked)
           new(x) == Deferred(x, masked)
<1>1. /\ IsSeries(new(gross)) /\ DOMAIN new(gross) = Days
      /\ \A d \in Days \cap masked : new(gross)[d] = Num(0)
      /\ \A d \in Days \ masked : Filled(new(gross)[d]) = Increment(h, d)
  BY DeferredIs, Zenon DEF Splits
<1>2. /\ IsSeries(new(net)) /\ DOMAIN new(net) = Days
      /\ \A d \in Days \cap masked : new(net)[d] = Num(0)
      /\ \A d \in Days \ masked : f[d] \in Int /\ Filled(new(net)[d]) = Increment(f, d)
  BY DeferredIs, Zenon DEF Splits
<1>3. /\ IsSeries(new(cost)) /\ DOMAIN new(cost) = Days
      /\ \A d \in Days \cap masked : new(cost)[d] = Num(0)
      /\ \A d \in Days \ masked : g[d] \in Int /\ Filled(new(cost)[d]) = Increment(g, d)
  BY DeferredIs, Zenon DEF Splits
<1>4. DOMAIN h = Days \ masked /\ DOMAIN f = DOMAIN h /\ DOMAIN g = DOMAIN h
  BY Zenon DEF DeferredTotal
<1>5. \A d \in Days \ masked : h[d] = f[d] + g[d]
  <2>1. \A d \in Days : RunningTotal(gross, d) = RunningTotal(net, d) + RunningTotal(cost, d)
    BY RunningTotalsSplit
  <2> QED BY <2>1, Zenon DEF DeferredTotal
<1> HIDE DEF h, f, g, new
<1>6. \A d \in Days \ masked : Increment(h, d) = Increment(f, d) + Increment(g, d)
  <2>1. DOMAIN h \subseteq Days /\ \A d \in DOMAIN h : f[d] \in Int /\ g[d] \in Int /\ h[d] = f[d] + g[d]
    BY <1>2, <1>3, <1>4, <1>5, Zenon
  <2> QED BY <1>4, <2>1, IncrementsSplit
<1>7. Filled(Num(0)) = Filled(Num(0)) + Filled(Num(0))
  BY DEF Filled, Num
<1>8. \A d \in Days : Filled(new(gross)[d]) = Filled(new(net)[d]) + Filled(new(cost)[d])
  BY <1>1, <1>2, <1>3, <1>6, <1>7, Zenon
<1>9. Splits(new(gross), new(cost), new(net))
  BY <1>1, <1>2, <1>3, <1>8, Zenon DEF Splits
<1> QED BY <1>9, Zenon DEF new

LEMMA ConversionSplits ==
  ASSUME NEW gross, NEW cost, NEW net, Splits(gross, cost, net), NEW factor, IsFactor(factor)
  PROVE  Splits(SpotConverted(gross, factor), SpotConverted(cost, factor),
                SpotConverted(net, factor))
<1> DEFINE h == ConvertedTotal(gross, factor)
           f == ConvertedTotal(net, factor)
           g == ConvertedTotal(cost, factor)
           new(x) == SpotConverted(x, factor)
<1>1. /\ IsSeries(new(gross)) /\ DOMAIN new(gross) = DOMAIN gross
      /\ DOMAIN h \subseteq DOMAIN gross
      /\ \A d \in DOMAIN gross \ DOMAIN h : Filled(new(gross)[d]) = 0
      /\ \A d \in DOMAIN h : Filled(new(gross)[d]) = Increment(h, d)
  BY SpotConvertedIs, Zenon DEF Splits
<1>2. /\ IsSeries(new(net)) /\ DOMAIN new(net) = DOMAIN gross
      /\ \A d \in DOMAIN gross \ DOMAIN f : Filled(new(net)[d]) = 0
      /\ \A d \in DOMAIN f : f[d] \in Int /\ Filled(new(net)[d]) = Increment(f, d)
  <2>1. IsSeries(net) /\ DOMAIN net = DOMAIN gross
    BY Zenon DEF Splits
  <2>2. /\ IsSeries(new(net)) /\ DOMAIN new(net) = DOMAIN net
        /\ \A d \in DOMAIN net \ DOMAIN f : Filled(new(net)[d]) = 0
        /\ \A d \in DOMAIN f :
             f[d] \in Int /\ Increment(f, d) \in Int
               /\ Filled(new(net)[d]) = Increment(f, d)
    BY <2>1, SpotConvertedIs, Zenon
  <2> QED BY <2>1, <2>2, Zenon
<1>3. /\ IsSeries(new(cost)) /\ DOMAIN new(cost) = DOMAIN gross
      /\ \A d \in DOMAIN gross \ DOMAIN g : Filled(new(cost)[d]) = 0
      /\ \A d \in DOMAIN g : g[d] \in Int /\ Filled(new(cost)[d]) = Increment(g, d)
  <2>1. IsSeries(cost) /\ DOMAIN cost = DOMAIN gross
    BY Zenon DEF Splits
  <2>2. /\ IsSeries(new(cost)) /\ DOMAIN new(cost) = DOMAIN cost
        /\ \A d \in DOMAIN cost \ DOMAIN g : Filled(new(cost)[d]) = 0
        /\ \A d \in DOMAIN g :
             g[d] \in Int /\ Increment(g, d) \in Int
               /\ Filled(new(cost)[d]) = Increment(g, d)
    BY <2>1, SpotConvertedIs, Zenon
  <2> QED BY <2>1, <2>2, Zenon
<1>4. DOMAIN f = DOMAIN h /\ DOMAIN g = DOMAIN h /\ DOMAIN gross \subseteq Days
  BY Zenon DEF ConvertedTotal, Splits, IsSeries
<1>5. ASSUME NEW d \in DOMAIN h PROVE h[d] = f[d] + g[d]
  <2> DEFINE a == RunningTotal(net, d)
             b == RunningTotal(cost, d)
             c == RunningTotal(gross, d)
  <2>1. h[d] = c * factor[d].value
    BY Zenon DEF ConvertedTotal
  <2>2. f[d] = a * factor[d].value
    BY <1>4, Zenon DEF ConvertedTotal
  <2>3. g[d] = b * factor[d].value
    BY <1>4, Zenon DEF ConvertedTotal
  <2>4. c = a + b
    BY RunningTotalsSplit
  <2>5. a \in Int /\ b \in Int
    BY RunningTotalIsInt, Zenon DEF Splits
  <2>6. factor[d] \in Floats
    BY <1>1, <1>4, Zenon DEF IsFactor
  <2>7. factor[d].value \in Int
    BY <2>6 DEF Floats
  <2> HIDE DEF a, b, c, h, f, g
  <2> QED BY <2>1, <2>2, <2>3, <2>4, <2>5, <2>7
<1> HIDE DEF h, f, g, new
<1>6. \A d \in DOMAIN h : Increment(h, d) = Increment(f, d) + Increment(g, d)
  <2>1. DOMAIN h \subseteq Days /\ \A d \in DOMAIN h : f[d] \in Int /\ g[d] \in Int /\ h[d] = f[d] + g[d]
    BY <1>1, <1>2, <1>3, <1>4, <1>5, Zenon
  <2> QED BY <1>4, <2>1, IncrementsSplit
<1>7. 0 = 0 + 0
  OBVIOUS
<1>8. \A d \in DOMAIN gross : Filled(new(gross)[d]) = Filled(new(net)[d]) + Filled(new(cost)[d])
  BY <1>1, <1>2, <1>3, <1>4, <1>6, <1>7, Zenon
<1>9. Splits(new(gross), new(cost), new(net))
  BY <1>1, <1>2, <1>3, <1>8, Zenon DEF Splits
<1> QED BY <1>9, Zenon DEF new

-----------------------------------------------------------------------------
(***************************************************************************)
(* leg_data and base_leg_data: a row for every leg of the history, and     *)
(* what generate() keeps of a finished run.                                *)
(***************************************************************************)
IsLegRow(row, id) ==
  /\ row \in [trade_id : {structures[id[1]].trade_id},
              ticker   : {structures[id[1]].legs[id[2]].ticker},
              gross : {row.gross}, cost : {row.cost}, net : {row.net}]
  /\ IsSeries(row.gross) /\ IsSeries(row.cost) /\ IsSeries(row.net)

IsLegData(data) == DOMAIN data = LegIds /\ \A id \in LegIds : IsLegRow(data[id], id)

RowSplits(row) == Splits(row.gross, row.cost, row.net)

LEMMA CostIsFloat ==
  ASSUME AccountInv, NEW s \in DOMAIN structures, NEW i, NEW date
  PROVE  CostOn(s, i, date) \in Floats
<1> DEFINE log == structures[s].event_log
           charged == {e \in DOMAIN log : log[e].date = date /\ i \in DOMAIN log[e].cost_exposures}
           cost == [e \in charged |-> TransactionCost(log[e], i)]
           f == [e \in charged |-> cost[e].value]
<1>1. structures[s] \in Rows
  BY Zenon DEF AccountInv, RowsAreRight, RowIsRight
<1>2. IsFiniteSet(charged) /\ \A e \in DOMAIN log : log[e] \in EventStates
  <2>1. log \in Seq(EventStates)
    BY <1>1 DEF Rows
  <2> HIDE DEF log
  <2> QED BY <2>1, PartOfALog, Zenon
<1>3. ASSUME NEW e \in charged PROVE cost[e].value \in Int
  <2>1. log[e] \in EventStates /\ i \in DOMAIN log[e].cost_exposures
    BY <1>2, Zenon
  <2> QED BY <2>1, EventCost, Zenon
<1>4. CostOn(s, i, date) = TotalOfFloats(cost) /\ DOMAIN cost = charged
  BY Zenon DEF CostOn
<1>5. SumFunctionOnSet(f, charged) \in Int
  <2> HIDE DEF f, charged, cost
  <2>1. \A e \in charged : f[e] \in Int
    BY <1>3, Zenon DEF f
  <2> QED BY <1>2, <2>1, SumInt
<1>6. TotalOfFloats(cost) \in {NaN, Num(SumFunctionOnSet(f, charged))}
  <2> HIDE DEF charged, cost
  <2> QED BY <1>4, Zenon DEF TotalOfFloats, SumFunction
<1> HIDE DEF charged, cost, f
<1> QED BY <1>4, <1>5, <1>6, FloatOperations, Zenon

LEMMA ExtractedRow ==
  ASSUME AccountInv, NEW s \in DOMAIN structures, PnlExtracts(s),
         NEW i \in DOMAIN structures[s].legs
  PROVE  /\ IsLegRow(LegRow(s, i), <<s, i>>)
         /\ FeesInv => RowSplits(LegRow(s, i))
<1> DEFINE row == LegRow(s, i)
           st == structures[s]
           dates == PnlDates(s)
<1>1. /\ row \in [trade_id : {st.trade_id}, ticker : {st.legs[i].ticker},
                  gross : {row.gross}, cost : {row.cost}, net : {row.net}]
      /\ row.gross = [d \in dates |-> st.legs[i].daily_total_pnl[d - st.original_entry_date + 1]]
      /\ row.cost = [d \in dates |-> CostOn(s, i, d)]
      /\ row.net = [d \in dates |-> Minus(row.gross[d], row.cost[d])]
  BY DEF LegRow
<1>2. IsSeries(row.gross) /\ DOMAIN row.gross = dates
  BY GrossSeries, Zenon
<1>3. \A d \in dates : row.cost[d] = CostOn(s, i, d) /\ row.net[d] = Minus(row.gross[d], row.cost[d])
  BY <1>1, Zenon
<1>4. DOMAIN row.cost = dates /\ DOMAIN row.net = dates
  BY <1>1, Zenon
<1>5. \A d \in dates : row.gross[d] \in Floats /\ row.cost[d] \in Floats /\ row.net[d] \in Floats
  <2>1. \A d \in dates : row.gross[d] \in Floats /\ CostOn(s, i, d) \in Floats
    BY <1>2, CostIsFloat, Zenon DEF IsSeries
  <2> QED BY <1>3, <2>1, FloatOperations, Zenon
<1>6. IsSeries(row.cost) /\ IsSeries(row.net)
  BY <1>2, <1>4, <1>5, Zenon DEF IsSeries
<1>7. IsLegRow(row, <<s, i>>)
  <2>1. <<s, i>>[1] = s /\ <<s, i>>[2] = i
    OBVIOUS
  <2> HIDE DEF row
  <2> QED BY <1>1, <1>2, <1>6, <2>1, Zenon DEF IsLegRow
<1>8. ASSUME FeesInv, NEW d \in dates
      PROVE  Filled(row.gross[d]) = Filled(row.net[d]) + Filled(row.cost[d])
  <2> DEFINE x == row.gross[d]
             y == row.cost[d]
  <2>1. /\ ~CostOn(s, i, d).nan
        /\ st.legs[i].daily_total_pnl[d - st.original_entry_date + 1].nan =>
             CostOn(s, i, d).value = 0
    BY <1>8, CostsFallOnShownDays
  <2>2. x = st.legs[i].daily_total_pnl[d - st.original_entry_date + 1] /\ y = CostOn(s, i, d)
    BY <1>1, <1>3, Zenon
  <2>3. ~y.nan /\ (x.nan => y.value = 0) /\ row.net[d] = Minus(x, y)
    BY <1>3, <2>1, <2>2, Zenon
  <2>4. x \in Floats /\ y \in Floats
    BY <1>5, Zenon
  <2> HIDE DEF x, y, row
  <2>5. Filled(x) = Filled(Minus(x, y)) + Filled(y)
    BY <2>3, <2>4 DEF Filled, Minus, Num, NaN, Floats
  <2> QED BY <2>3, <2>5, Zenon DEF x, y
<1>9. FeesInv => RowSplits(row)
  BY <1>2, <1>4, <1>6, <1>8, Zenon DEF RowSplits, Splits
<1> QED BY <1>7, <1>9, Zenon

LEMMA ExtractedData ==
  ASSUME AccountInv, Extracts
  PROVE  /\ IsLegData(ExtractLegData)
         /\ FeesInv => \A id \in LegIds : RowSplits(ExtractLegData[id])
<1>1. DOMAIN ExtractLegData = LegIds
  BY Zenon DEF ExtractLegData
<1>2. ASSUME NEW id \in LegIds
      PROVE  /\ IsLegRow(ExtractLegData[id], id)
             /\ FeesInv => RowSplits(ExtractLegData[id])
  <2>1. /\ id[1] \in DOMAIN structures /\ id[2] \in DOMAIN structures[id[1]].legs
        /\ ExtractLegData[id] = LegRow(id[1], id[2])
    BY ExtractedLeg, Zenon
  <2>2. PnlExtracts(id[1])
    BY <2>1, Zenon DEF Extracts
  <2>3. /\ IsLegRow(LegRow(id[1], id[2]), <<id[1], id[2]>>)
        /\ FeesInv => RowSplits(LegRow(id[1], id[2]))
    BY <2>1, <2>2, ExtractedRow, Zenon
  <2>4. id = <<id[1], id[2]>>
    BY DEF LegIds
  <2> QED BY <2>1, <2>3, <2>4, Zenon
<1> QED BY <1>1, <1>2, Zenon DEF IsLegData

LEMMA RowWithSeries ==
  ASSUME NEW row, NEW t, NEW k, NEW x, NEW y, NEW z,
         row \in [trade_id : {t}, ticker : {k}, gross : {x}, cost : {y}, net : {z}],
         NEW g, NEW c, NEW n
  PROVE  LET new == [row EXCEPT !.gross = g, !.cost = c, !.net = n]
         IN  /\ new \in [trade_id : {t}, ticker : {k}, gross : {g}, cost : {c}, net : {n}]
             /\ new.gross = g /\ new.cost = c /\ new.net = n
  OBVIOUS

LEMMA AdjustedRow ==
  ASSUME NEW data, IsLegData(data), NEW id \in LegIds
  PROVE  LET new    == AdjustForMissingLegs(data)[id]
             masked == MaskedDays(data, data[id].trade_id)
         IN  /\ IsLegRow(new, id) /\ DOMAIN AdjustForMissingLegs(data) = LegIds
             /\ new.gross = Deferred(data[id].gross, masked)
             /\ new.cost = Deferred(data[id].cost, masked)
             /\ new.net = Deferred(data[id].net, masked)
             /\ RowSplits(data[id]) => RowSplits(new)
<1> DEFINE row == data[id]
           new == AdjustForMissingLegs(data)[id]
           masked == MaskedDays(data, row.trade_id)
           g == Deferred(row.gross, masked)
           c == Deferred(row.cost, masked)
           n == Deferred(row.net, masked)
<1>1. IsLegRow(row, id) /\ DOMAIN data = LegIds
  BY Zenon DEF IsLegData
<1>2. DOMAIN AdjustForMissingLegs(data) = LegIds
  BY <1>1, Zenon DEF AdjustForMissingLegs
<1>3. new = [row EXCEPT !.gross = g, !.cost = c, !.net = n]
  BY <1>1 DEF AdjustForMissingLegs
<1>4. IsSeries(g) /\ IsSeries(c) /\ IsSeries(n)
  BY <1>1, DeferredIs, Zenon DEF IsLegRow
<1>5. RowSplits(row) => Splits(g, c, n)
  BY DeferralSplits DEF RowSplits
<1> HIDE DEF new, masked, g, c, n, row
<1>6. /\ new.gross = g /\ new.cost = c /\ new.net = n
      /\ new \in [trade_id : {structures[id[1]].trade_id},
                  ticker   : {structures[id[1]].legs[id[2]].ticker},
                  gross : {g}, cost : {c}, net : {n}]
  BY <1>1, <1>3, RowWithSeries, Zenon DEF IsLegRow
<1>7. IsLegRow(new, id) /\ (RowSplits(row) => RowSplits(new))
  BY <1>4, <1>5, <1>6, Zenon DEF IsLegRow, RowSplits
<1> QED BY <1>2, <1>6, <1>7, Zenon DEF new, masked, g, c, n, row

LEMMA ConvertedRow ==
  ASSUME NEW data, IsLegData(data), NEW factor, factor = <<>> \/ IsFactor(factor),
         NEW id \in LegIds
  PROVE  LET new == BuildBaseLegData(data, factor)[id]
         IN  /\ IsLegRow(new, id) /\ DOMAIN BuildBaseLegData(data, factor) = LegIds
             /\ data[id].ticker \in Foreign /\ factor # <<>> =>
                  /\ new.gross = SpotConverted(data[id].gross, factor)
                  /\ new.cost = SpotConverted(data[id].cost, factor)
                  /\ new.net = SpotConverted(data[id].net, factor)
             /\ RowSplits(data[id]) => RowSplits(new)
<1> DEFINE row == data[id]
           new == BuildBaseLegData(data, factor)[id]
           g == SpotConverted(row.gross, factor)
           c == SpotConverted(row.cost, factor)
           n == SpotConverted(row.net, factor)
<1>1. IsLegRow(row, id) /\ DOMAIN data = LegIds
  BY Zenon DEF IsLegData
<1>2. DOMAIN BuildBaseLegData(data, factor) = LegIds
  BY <1>1, Zenon DEF BuildBaseLegData
<1>3. ASSUME row.ticker \notin Foreign \/ factor = <<>> PROVE new = row
  BY <1>1, <1>3 DEF BuildBaseLegData
<1>4. ASSUME row.ticker \in Foreign, factor # <<>>
      PROVE  /\ IsLegRow(new, id) /\ (RowSplits(row) => RowSplits(new))
             /\ new.gross = g /\ new.cost = c /\ new.net = n
  <2>1. new = [row EXCEPT !.gross = g, !.cost = c, !.net = n]
    BY <1>1, <1>4 DEF BuildBaseLegData
  <2>2. IsSeries(g) /\ IsSeries(c) /\ IsSeries(n)
    BY <1>1, <1>4, SpotConvertedIs, Zenon DEF IsLegRow
  <2>3. RowSplits(row) => Splits(g, c, n)
    BY <1>4, ConversionSplits DEF RowSplits
  <2> HIDE DEF new, g, c, n, row
  <2>4. /\ new.gross = g /\ new.cost = c /\ new.net = n
        /\ new \in [trade_id : {structures[id[1]].trade_id},
                    ticker   : {structures[id[1]].legs[id[2]].ticker},
                    gross : {g}, cost : {c}, net : {n}]
    BY <1>1, <2>1, RowWithSeries, Zenon DEF IsLegRow
  <2> QED BY <2>2, <2>3, <2>4, Zenon DEF IsLegRow, RowSplits
<1> HIDE DEF new, g, c, n, row
<1>5. /\ IsLegRow(new, id) /\ (RowSplits(row) => RowSplits(new))
      /\ row.ticker \in Foreign /\ factor # <<>> =>
           new.gross = g /\ new.cost = c /\ new.net = n
  BY <1>1, <1>3, <1>4, Zenon
<1> QED BY <1>2, <1>5, Zenon DEF new, g, c, n, row

-----------------------------------------------------------------------------
(* What generate() keeps: it ran on a finished run, and on nothing else. *)

IsSummary(kept, mode, factor) ==
  LET local == Handled(mode, ExtractLegData)
  IN  /\ kept.mode = mode /\ kept.factor = factor /\ kept.leg_data = local
      /\ kept.base_leg_data = Handled(mode, BuildBaseLegData(local, factor))

GeneratedIsRight ==
  Generated =>
    /\ phase = "done" /\ Extracts
    /\ \E mode \in Modes, factor \in Factors : IsSummary(summary, mode, factor)

LEMMA DoneIsDone == ASSUME phase = "done", [Next]_vars PROVE UNCHANGED vars
<1>1. ~MarkToMarket /\ ~EndDay
  BY DEF MarkToMarket, EndDay
<1>2. \A t, content : ~NewStructure(t, content)
  BY DEF NewStructure
<1>3. (\A content : ~OpenTrade(content)) /\ \A t, content : ~ExtendTrade(t, content)
  BY <1>2, Zenon DEF OpenTrade, ExtendTrade
<1>4. (\A s, n : ~Resize(s, n)) /\ \A t, closing : ~Close(t, closing)
  BY DEF Resize, Close
<1>5. ~CloseSome
  BY <1>4, Zenon DEF CloseSome
<1> QED BY <1>1, <1>3, <1>4, <1>5, Zenon DEF Next, Stopped

LEMMA ReportStep ==
  ASSUME [ReportNext]_<<vars, summary>>
  PROVE  [Next]_vars /\ (UNCHANGED summary \/ Generate)
<1>1. ASSUME UNCHANGED <<vars, summary>> PROVE UNCHANGED vars /\ UNCHANGED summary
  BY <1>1
<1>2. Generate => UNCHANGED vars
  BY Zenon DEF Generate
<1> QED BY <1>1, <1>2, Zenon DEF ReportNext

LEMMA RunIsRead ==
  ASSUME UNCHANGED vars
  PROVE  phase' = phase /\ Extracts' = Extracts /\ ExtractLegData' = ExtractLegData
<1>1. phase' = phase /\ structures' = structures /\ trades' = trades
  BY DEF vars
<1>2. Extracts' = Extracts
  BY <1>1, Zenon DEF Extracts, PnlExtracts, SeriesExtract, PnlDates, LastPnlDate
<1>3. ExtractLegData' = ExtractLegData
  <2>1. ASSUME NEW s PROVE PnlDates(s)' = PnlDates(s)
    BY <1>1, Zenon DEF PnlDates, LastPnlDate
  <2>2. ASSUME NEW s, NEW i, NEW d PROVE CostOn(s, i, d)' = CostOn(s, i, d)
    BY <1>1, Zenon DEF CostOn
  <2>3. ASSUME NEW s, NEW i PROVE LegRow(s, i)' = LegRow(s, i)
    BY <1>1, <2>1, <2>2, Zenon DEF LegRow
  <2>4. LegIds' = LegIds
    BY <1>1 DEF LegIds
  <2> QED BY <2>3, <2>4, Zenon DEF ExtractLegData
<1> QED BY <1>1, <1>2, <1>3, Zenon

LEMMA GeneratedStep ==
  ASSUME GeneratedIsRight, [ReportNext]_<<vars, summary>>
  PROVE  GeneratedIsRight'
<1>1. [Next]_vars /\ (UNCHANGED summary \/ Generate)
  BY ReportStep, Zenon
<1>2. CASE UNCHANGED summary
  <2> SUFFICES ASSUME Generated'
               PROVE  /\ phase' = "done" /\ Extracts'
                      /\ \E mode \in Modes, factor \in Factors : IsSummary(summary, mode, factor)'
    BY Zenon DEF GeneratedIsRight
  <2>1. Generated
    BY <1>2, Zenon DEF Generated
  <2>2. phase = "done" /\ Extracts
    BY <2>1, Zenon DEF GeneratedIsRight
  <2>3. PICK mode \in Modes, factor \in Factors : IsSummary(summary, mode, factor)
    BY <2>1, Zenon DEF GeneratedIsRight
  <2>4. UNCHANGED vars
    BY <1>1, <2>2, DoneIsDone, Zenon
  <2>5. IsSummary(summary, mode, factor)'
    <3>1. ExtractLegData' = ExtractLegData
      BY <2>4, RunIsRead, Zenon
    <3> QED BY <1>2, <2>3, <3>1, Zenon DEF IsSummary
  <2> QED BY <2>2, <2>4, <2>5, RunIsRead, Zenon
<1>3. CASE Generate
  <2>1. phase = "done" /\ Extracts /\ UNCHANGED vars
    BY <1>3, Zenon DEF Generate
  <2>2. PICK mode \in Modes, factor \in Factors :
          LET local == Handled(mode, ExtractLegData)
          IN  summary' = [mode |-> mode, factor |-> factor, leg_data |-> local,
                          base_leg_data |-> Handled(mode, BuildBaseLegData(local, factor))]
    BY <1>3, Zenon DEF Generate
  <2>3. IsSummary(summary', mode, factor)
    BY <2>2 DEF IsSummary
  <2>4. IsSummary(summary, mode, factor)'
    <3>1. ExtractLegData' = ExtractLegData
      BY <2>1, RunIsRead, Zenon
    <3> QED BY <2>3, <3>1, Zenon DEF IsSummary
  <2> QED BY <2>1, <2>4, RunIsRead, Zenon DEF GeneratedIsRight
<1> QED BY <1>1, <1>2, <1>3, Zenon

\* The runs of ReportSpec are runs of Spec, and what generate() kept is right.
LEMMA ReportInvariant ==
  /\ ReportSpec => []AccountInv
  /\ ReportSpec => []GeneratedIsRight
<1>1. ReportInit => Init /\ GeneratedIsRight
  <2>1. ASSUME NEW m, NEW f, NEW l, NEW b,
               summary = [mode |-> m, factor |-> f, leg_data |-> l, base_leg_data |-> b]
        PROVE  summary.mode = m
    BY <2>1
  <2>2. ReportInit => summary.mode = ""
    BY <2>1, Zenon DEF ReportInit
  <2> QED BY <2>2, Zenon DEF ReportInit, GeneratedIsRight, Generated
<1>2. AccountInv /\ [Next]_vars => AccountInv'
  BY AccountStep, Zenon
<1>4. [ReportNext]_<<vars, summary>> => [Next]_vars
  BY ReportStep, Zenon
<1>5. ReportSpec => []AccountInv
  BY <1>1, <1>2, <1>4, AccountInit, PTL DEF ReportSpec
<1>6. ReportSpec => []GeneratedIsRight
  <2>1. GeneratedIsRight /\ [ReportNext]_<<vars, summary>> => GeneratedIsRight'
    BY GeneratedStep, Zenon
  <2> QED BY <1>1, <2>1, PTL DEF ReportSpec
<1> QED BY <1>5, <1>6, PTL

LEMMA FeesInvariant == ASSUME NoBlankCloses PROVE ReportSpec => []FeesInv
<1>1. ReportInit => FeesInv
  BY FeesInit, Zenon DEF ReportInit
<1>2. FeesInv /\ [ReportNext]_<<vars, summary>> => FeesInv'
  BY ReportStep, FeesInvStep, Zenon
<1> QED BY <1>1, <1>2, PTL DEF ReportSpec

LEMMA HandledData ==
  ASSUME NEW data, IsLegData(data), NEW mode
  PROVE  /\ IsLegData(Handled(mode, data))
         /\ \A id \in LegIds : RowSplits(data[id]) => RowSplits(Handled(mode, data)[id])
<1>1. CASE mode = "all"
  <2>1. Handled(mode, data) = AdjustForMissingLegs(data)
    BY <1>1, Zenon DEF Handled
  <2>2. DOMAIN AdjustForMissingLegs(data) = LegIds
    BY Zenon DEF AdjustForMissingLegs, IsLegData
  <2>3. \A id \in LegIds :
          /\ IsLegRow(AdjustForMissingLegs(data)[id], id)
          /\ RowSplits(data[id]) => RowSplits(AdjustForMissingLegs(data)[id])
    BY AdjustedRow, Zenon
  <2> QED BY <2>1, <2>2, <2>3, Zenon DEF IsLegData
<1>2. CASE mode # "all"
  BY <1>2, Zenon DEF Handled
<1> QED BY <1>1, <1>2

LEMMA BaseData ==
  ASSUME NEW data, IsLegData(data), NEW factor \in Factors
  PROVE  /\ IsLegData(BuildBaseLegData(data, factor)) /\ (factor = <<>> \/ IsFactor(factor))
         /\ \A id \in LegIds :
              RowSplits(data[id]) => RowSplits(BuildBaseLegData(data, factor)[id])
<1>1. factor = <<>> \/ IsFactor(factor)
  BY ReportsAssumption DEF IsFactor, Floats
<1>2. DOMAIN BuildBaseLegData(data, factor) = LegIds
  BY Zenon DEF BuildBaseLegData, IsLegData
<1>3. \A id \in LegIds :
        /\ IsLegRow(BuildBaseLegData(data, factor)[id], id)
        /\ RowSplits(data[id]) => RowSplits(BuildBaseLegData(data, factor)[id])
  BY <1>1, ConvertedRow, Zenon
<1> QED BY <1>1, <1>2, <1>3, Zenon DEF IsLegData

\* Both sets of rows have every leg of the history, with series on the days of the
\* run that split gross P&L.
LEMMA GeneratedData ==
  ASSUME AccountInv, GeneratedIsRight, Generated
  PROVE  /\ phase = "done" /\ Extracts /\ IsLegData(summary.leg_data) /\ IsLegData(Base)
         /\ FeesInv => \A id \in LegIds : RowSplits(summary.leg_data[id]) /\ RowSplits(Base[id])
<1>1. phase = "done" /\ Extracts
  BY Zenon DEF GeneratedIsRight
<1>2. PICK mode \in Modes, factor \in Factors : IsSummary(summary, mode, factor)
  BY Zenon DEF GeneratedIsRight
<1> DEFINE local == Handled(mode, ExtractLegData)
           base == BuildBaseLegData(local, factor)
<1>3. summary.leg_data = local /\ Base = Handled(mode, base)
  BY <1>2, Zenon DEF IsSummary, Base
<1>4. IsLegData(ExtractLegData) /\ (FeesInv => \A id \in LegIds : RowSplits(ExtractLegData[id]))
  BY <1>1, ExtractedData, Zenon
<1>5. IsLegData(local) /\ (FeesInv => \A id \in LegIds : RowSplits(local[id]))
  BY <1>4, HandledData, Zenon
<1> HIDE DEF local
<1>6. IsLegData(base) /\ (FeesInv => \A id \in LegIds : RowSplits(base[id]))
  BY <1>5, BaseData, Zenon
<1> HIDE DEF base
<1>7. IsLegData(Handled(mode, base))
        /\ (FeesInv => \A id \in LegIds : RowSplits(Handled(mode, base)[id]))
  BY <1>6, HandledData, Zenon
<1> QED BY <1>1, <1>3, <1>5, <1>7, Zenon

-----------------------------------------------------------------------------
(* Finitely many legs, and the numbers the reports add up. *)

LEMMA LegIdsAreFinite == ASSUME AccountInv PROVE IsFiniteSet(LegIds)
<1> DEFINE S == DOMAIN structures
           Ids(s) == {<<s, i>> : i \in DOMAIN structures[s].legs}
           All(T) == UNION {Ids(s) : s \in T}
           P == {T \in SUBSET S : IsFiniteSet(All(T))}
<1>1. IsFiniteSet(S)
  <2>1. S = 1..Len(structures) /\ Len(structures) \in Int
    BY StructureRows DEF AccountInv, RowsAreRight
  <2>2. IsFiniteSet(1..Len(structures))
    <3> HIDE DEF S, Ids, All, P
    <3> QED BY <2>1, FiniteInterval
  <2> QED BY <2>1, <2>2, Zenon
<1>2. ASSUME NEW s \in S PROVE IsFiniteSet(Ids(s))
  <2> DEFINE D == DOMAIN structures[s].legs
             f == [i \in D |-> <<s, i>>]
  <2>1. IsFiniteSet(D)
    <3>1. structures[s].legs \in Seq(LegStates)
      BY DEF AccountInv, RowsAreRight, RowIsRight, Rows
    <3>2. D = 1..Len(structures[s].legs) /\ Len(structures[s].legs) \in Int
      BY <3>1
    <3> HIDE DEF D, f, S, Ids, All, P
    <3>3. IsFiniteSet(1..Len(structures[s].legs))
      BY <3>2, FiniteInterval
    <3> QED BY <3>2, <3>3, Zenon
  <2>2. Ids(s) = {f[i] : i \in D}
    OBVIOUS
  <2> HIDE DEF f, D, Ids
  <2>3. IsFiniteSet({f[i] : i \in D})
    BY <2>1, FiniteImage
  <2> QED BY <2>2, <2>3, Zenon
<1>3. {} \in P
  <2>1. All({}) = {}
    OBVIOUS
  <2> QED BY <2>1, FS_EmptySet
<1>4. ASSUME NEW T \in SUBSET S, NEW x \in S \ T, T \in P PROVE T \cup {x} \in P
  <2>1. All(T \cup {x}) = All(T) \cup Ids(x)
    OBVIOUS
  <2>2. T \cup {x} \in SUBSET S
    OBVIOUS
  <2> HIDE DEF All, Ids
  <2>3. IsFiniteSet(All(T) \cup Ids(x))
    BY <1>2, <1>4, FS_Union, Zenon
  <2> QED BY <2>1, <2>2, <2>3, Zenon
<1>5. LegIds = All(S)
  BY Zenon DEF LegIds
<1> HIDE DEF P, All, S
<1>6. S \in P
  BY <1>1, <1>3, <1>4, InductiveFamily, Zenon
<1> QED BY <1>5, <1>6, Zenon DEF P

LEMMA KeysAreSeries ==
  ASSUME NEW data, IsLegData(data), NEW id \in LegIds, NEW key \in Keys
  PROVE  IsSeries(data[id][key]) /\ id \in DOMAIN data
BY DEF IsLegData, IsLegRow, Keys

LEMMA OnDayIsInt ==
  ASSUME NEW series, IsSeries(series), NEW d
  PROVE  OnDay(series, d) \in Int
<1>1. 0 \in Int
  OBVIOUS
<1> QED BY <1>1, FilledIsInt, Zenon DEF OnDay, IsSeries

\* What the legs show on a day, and what a leg shows in all.
Cell(data, key, d) == [id \in DOMAIN data |-> OnDay(data[id][key], d)]
Line(data, key, id) == [d \in Days |-> OnDay(data[id][key], d)]
LegTotal(data, key) == [id \in DOMAIN data |-> SumFunctionOnSet(Line(data, key, id), Days)]

LEMMA DailySeriesIs ==
  ASSUME NEW data, NEW ids \in SUBSET DOMAIN data, NEW key, NEW d \in Days
  PROVE  DailySeries(data, ids, key)[d] = SumFunctionOnSet(Cell(data, key, d), ids)
<1> DEFINE f == [id \in ids |-> OnDay(data[id][key], d)]
<1>1. DailySeries(data, ids, key)[d] = SumFunctionOnSet(f, ids)
  BY Zenon DEF DailySeries, SumFunction
<1>2. \A id \in ids : f[id] = Cell(data, key, d)[id]
  BY DEF Cell
<1> HIDE DEF f
<1>3. SumFunctionOnSet(f, ids) = SumFunctionOnSet(Cell(data, key, d), ids)
  BY <1>2, SumEqual, Zenon
<1> QED BY <1>1, <1>3, Zenon

LEMMA TradeTotalIs ==
  ASSUME NEW data, NEW ids \in SUBSET DOMAIN data, NEW key
  PROVE  TradeTotal(data, ids, key) = SumFunctionOnSet(LegTotal(data, key), ids)
<1> DEFINE f == [id \in ids |-> SumFunction([d \in Days |-> OnDay(data[id][key], d)])]
<1>1. TradeTotal(data, ids, key) = SumFunctionOnSet(f, ids)
  BY Zenon DEF TradeTotal, SumFunction
<1>2. ASSUME NEW id \in ids PROVE f[id] = LegTotal(data, key)[id]
  <2>1. f[id] = SumFunctionOnSet(Line(data, key, id), Days)
    BY Zenon DEF SumFunction, Line
  <2>2. id \in DOMAIN data
    OBVIOUS
  <2> QED BY <2>1, <2>2, Zenon DEF LegTotal
<1> HIDE DEF f
<1>3. SumFunctionOnSet(f, ids) = SumFunctionOnSet(LegTotal(data, key), ids)
  BY <1>2, SumEqual, Zenon
<1> QED BY <1>1, <1>3, Zenon

LEMMA CellsAreInts ==
  ASSUME NEW data, IsLegData(data), NEW key \in Keys, NEW id \in LegIds
  PROVE  /\ \A d \in Days : Cell(data, key, d)[id] \in Int
                              /\ Line(data, key, id)[d] = Cell(data, key, d)[id]
         /\ LegTotal(data, key)[id] = SumFunctionOnSet(Line(data, key, id), Days)
         /\ LegTotal(data, key)[id] \in Int
<1>1. IsSeries(data[id][key]) /\ id \in DOMAIN data
  BY KeysAreSeries, Zenon
<1>2. \A d \in Days : Cell(data, key, d)[id] = OnDay(data[id][key], d)
  BY <1>1, Zenon DEF Cell
<1>3. \A d \in Days : Line(data, key, id)[d] = OnDay(data[id][key], d)
  BY Zenon DEF Line
<1>4. \A d \in Days : Line(data, key, id)[d] \in Int
  BY <1>1, <1>3, OnDayIsInt, Zenon
<1>5. LegTotal(data, key)[id] = SumFunctionOnSet(Line(data, key, id), Days)
  BY <1>1, Zenon DEF LegTotal
<1>6. SumFunctionOnSet(Line(data, key, id), Days) \in Int
  BY <1>4, DaysAreFinite, SumInt, Zenon
<1> QED BY <1>2, <1>3, <1>4, <1>5, <1>6, Zenon

-----------------------------------------------------------------------------
(* The properties of the reports. *)

\* generate(): in every trade net P&L is gross P&L less costs, in local and in base
\* currency, in both missing-data modes, for every series of rates.
THEOREM NetIsGrossLessItsCosts ==
  ASSUME NoBlankCloses
  PROVE  ReportSpec => []NetIsGrossLessCosts
<1>1. ASSUME NEW data, IsLegData(data), \A id \in LegIds : RowSplits(data[id]), NEW id \in LegIds
      PROVE  LegTotal(data, "gross")[id] = LegTotal(data, "net")[id] + LegTotal(data, "cost")[id]
  <2> DEFINE f == Line(data, "net", id)
             g == Line(data, "cost", id)
             h == Line(data, "gross", id)
             row == data[id]
  <2>1. "net" \in Keys /\ "cost" \in Keys /\ "gross" \in Keys
    BY DEF Keys
  <2>2. \A x \in Days : f[x] \in Int /\ g[x] \in Int
    <3>1. \A key \in Keys : \A x \in Days : Line(data, key, id)[x] \in Int
      BY <1>1, CellsAreInts, Zenon
    <3> QED BY <2>1, <3>1, Zenon
  <2>3. ASSUME NEW x \in Days PROVE h[x] = f[x] + g[x]
    <3>1. /\ h[x] = OnDay(row.gross, x) /\ f[x] = OnDay(row.net, x) /\ g[x] = OnDay(row.cost, x)
      BY DEF Line
    <3>2. Splits(row.gross, row.cost, row.net)
      BY <1>1, Zenon DEF RowSplits
    <3> HIDE DEF f, g, h, row
    <3>3. CASE x \in DOMAIN row.gross
      BY <3>1, <3>2, <3>3, Zenon DEF OnDay, Splits
    <3>4. CASE x \notin DOMAIN row.gross
      <4>1. h[x] = 0 /\ f[x] = 0 /\ g[x] = 0
        BY <3>1, <3>2, <3>4, Zenon DEF OnDay, Splits
      <4> QED BY <4>1
    <3> QED BY <3>3, <3>4
  <2> HIDE DEF f, g, h
  <2>4. SumFunctionOnSet(h, Days) = SumFunctionOnSet(f, Days) + SumFunctionOnSet(g, Days)
    BY <2>2, <2>3, DaysAreFinite, SumPlus
  <2> QED BY <1>1, <2>1, <2>4, CellsAreInts, Zenon DEF f, g, h
<1>2. ASSUME AccountInv, NEW data, IsLegData(data), \A id \in LegIds : RowSplits(data[id]), NEW t
      PROVE  LET total(key) == TradeTotal(data, LegsOfTrade(data, t), key)
             IN  total("net") = total("gross") - total("cost")
  <2> DEFINE ids == LegsOfTrade(data, t)
             f == LegTotal(data, "net")
             g == LegTotal(data, "cost")
             h == LegTotal(data, "gross")
  <2>1. "net" \in Keys /\ "cost" \in Keys /\ "gross" \in Keys
    BY DEF Keys
  <2>2. ids \subseteq DOMAIN data /\ DOMAIN data = LegIds
    BY <1>2, Zenon DEF LegsOfTrade, IsLegData
  <2>3. IsFiniteSet(ids)
    <3> HIDE DEF ids
    <3> QED BY <1>2, <2>2, LegIdsAreFinite, FS_Subset, Zenon
  <2>4. \A x \in ids : f[x] \in Int /\ g[x] \in Int
    BY <1>2, <2>1, <2>2, CellsAreInts, Zenon
  <2>5. \A x \in ids : h[x] = f[x] + g[x]
    BY <1>1, <1>2, <2>2
  <2>6. /\ TradeTotal(data, ids, "net") = SumFunctionOnSet(f, ids)
        /\ TradeTotal(data, ids, "cost") = SumFunctionOnSet(g, ids)
        /\ TradeTotal(data, ids, "gross") = SumFunctionOnSet(h, ids)
    BY <2>2, TradeTotalIs, Zenon
  <2> HIDE DEF f, g, h, ids
  <2>7. SumFunctionOnSet(h, ids) = SumFunctionOnSet(f, ids) + SumFunctionOnSet(g, ids)
    BY <2>3, <2>4, <2>5, SumPlus
  <2>8. SumFunctionOnSet(f, ids) \in Int /\ SumFunctionOnSet(g, ids) \in Int
    BY <2>3, <2>4, SumInt, Zenon
  <2>9. SumFunctionOnSet(f, ids) = SumFunctionOnSet(h, ids) - SumFunctionOnSet(g, ids)
    BY <2>7, <2>8
  <2> QED BY <2>6, <2>9, Zenon DEF ids
<1>3. ASSUME AccountInv, GeneratedIsRight, FeesInv PROVE NetIsGrossLessCosts
  <2> SUFFICES ASSUME Generated, NEW data \in {summary.leg_data, Base}, NEW t \in DOMAIN trades
               PROVE  LET total(key) == TradeTotal(data, LegsOfTrade(data, t), key)
                      IN  total("net") = total("gross") - total("cost")
    BY Zenon DEF NetIsGrossLessCosts
  <2>1. IsLegData(data) /\ \A id \in LegIds : RowSplits(data[id])
    BY <1>3, GeneratedData, Zenon
  <2> QED BY <1>2, <1>3, <2>1, Zenon
<1>4. AccountInv /\ GeneratedIsRight /\ FeesInv => NetIsGrossLessCosts
  BY <1>3, Zenon
<1> QED BY <1>4, ReportInvariant, FeesInvariant, PTL

\* by_underlying.py: on every day the series by ticker add up to the portfolio's.
THEOREM UnderlyingsSplitThePortfolio == ReportSpec => []UnderlyingsAddUp
<1>1. ASSUME AccountInv, GeneratedIsRight, Generated, NEW key \in Keys, NEW d \in Days
      PROVE  SumFunction([k \in Tickers |-> DailySeries(Base, UnderlyingLegs(Base, k), key)[d]])
               = Portfolio(Base, key)[d]
  <2> DEFINE S == LegIds
             p == [id \in LegIds |-> Base[id].ticker]
             f == Cell(Base, key, d)
             h == [k \in Tickers |-> DailySeries(Base, UnderlyingLegs(Base, k), key)[d]]
  <2>1. IsLegData(Base) /\ DOMAIN Base = S
    BY <1>1, GeneratedData, Zenon DEF IsLegData
  <2>2. IsFiniteSet(S) /\ IsFiniteSet(Tickers)
    BY <1>1, LegIdsAreFinite, ReportsAssumption, Zenon
  <2>3. ASSUME NEW x \in S PROVE p[x] \in Tickers
    <3>1. /\ x[1] \in DOMAIN structures /\ x[2] \in DOMAIN structures[x[1]].legs
      BY ExtractedLeg, Zenon
    <3>2. structures[x[1]] \in Rows
      BY <1>1, <3>1, Zenon DEF AccountInv, RowsAreRight, RowIsRight
    <3>3. structures[x[1]].legs[x[2]] \in LegStates
      BY <3>1, <3>2, LegsOfRow, Zenon
    <3>4. structures[x[1]].legs[x[2]].ticker \in Tickers
      BY <3>3 DEF LegStates
    <3>5. Base[x].ticker = structures[x[1]].legs[x[2]].ticker
      BY <2>1 DEF IsLegData, IsLegRow
    <3> QED BY <3>4, <3>5, Zenon
  <2>4. \A x \in S : f[x] \in Int
    BY <2>1, CellsAreInts, Zenon
  <2>5. ASSUME NEW j \in Tickers PROVE h[j] = SumFunctionOnSet(f, {x \in S : p[x] = j})
    <3>1. UnderlyingLegs(Base, j) = {x \in S : p[x] = j} /\ UnderlyingLegs(Base, j) \subseteq DOMAIN Base
      BY <2>1 DEF UnderlyingLegs
    <3> QED BY <3>1, DailySeriesIs, Zenon
  <2>6. SumFunction(h) = SumFunctionOnSet(h, Tickers)
    BY Zenon DEF SumFunction
  <2>7. Portfolio(Base, key)[d] = SumFunctionOnSet(f, S)
    BY <2>1, DailySeriesIs DEF Portfolio
  <2> HIDE DEF S, p, f, h
  <2>8. SumFunctionOnSet(h, Tickers) = SumFunctionOnSet(f, S)
    <3>1. /\ \A x \in S : p[x] \in Tickers
          /\ \A j \in Tickers : h[j] = SumFunctionOnSet(f, {x \in S : p[x] = j})
      BY <2>3, <2>5, Zenon
    <3> QED BY <2>2, <2>4, <3>1, SumByClass
  <2> QED BY <2>6, <2>7, <2>8, Zenon DEF h
<1>2. AccountInv /\ GeneratedIsRight => UnderlyingsAddUp
  BY <1>1, Zenon DEF UnderlyingsAddUp
<1> QED BY <1>2, ReportInvariant, PTL

-----------------------------------------------------------------------------
\* _cumulative_spot_convert, and deferral after it: on a day that has a rate a leg
\* shows in base currency what it has made in its own, at that rate; on a day
\* that has none it shows nothing.
THEOREM ConversionIsAtTheRateOfTheDay == ReportSpec => []ConvertedAtTheRateOfTheDay
<1>1. ASSUME AccountInv, GeneratedIsRight, Generated, summary.factor # <<>>,
             NEW id \in DOMAIN Base, NEW key \in Keys, Base[id].ticker \in Foreign,
             NEW d \in DOMAIN Base[id][key]
      PROVE  IF summary.factor[d].nan THEN Filled(Base[id][key][d]) = 0
             ELSE RunningTotal(Base[id][key], d)
                    = RunningTotal(summary.leg_data[id][key], d) * summary.factor[d].value
  <2>1. PICK mode \in Modes, factor \in Factors : IsSummary(summary, mode, factor)
    BY <1>1, Zenon DEF GeneratedIsRight
  <2> DEFINE local == Handled(mode, ExtractLegData)
             base == BuildBaseLegData(local, factor)
             series == local[id][key]
             spot == SpotConverted(series, factor)
  <2>2. /\ summary.leg_data = local /\ Base = Handled(mode, base) /\ summary.factor = factor
    BY <2>1, Zenon DEF IsSummary, Base
  <2>3. IsLegData(local) /\ IsLegData(base) /\ IsFactor(factor)
    <3>1. IsLegData(local)
      BY <1>1, <2>2, GeneratedData, Zenon
    <3> HIDE DEF local
    <3> QED BY <1>1, <2>2, <3>1, BaseData, Zenon
  <2>12. factor # <<>> /\ (factor = <<>> \/ IsFactor(factor))
    BY <1>1, <2>2, <2>3, Zenon
  <2>4. id \in LegIds
    BY <1>1, GeneratedData, Zenon DEF IsLegData
  <2>5. local[id].ticker \in Foreign
    <3>1. IsLegRow(local[id], id) /\ IsLegRow(Base[id], id)
      BY <1>1, <2>3, <2>4, GeneratedData, Zenon DEF IsLegData
    <3>2. local[id].ticker = Base[id].ticker
      <4> HIDE DEF local
      <4> QED BY <3>1 DEF IsLegRow
    <3> QED BY <1>1, <3>2, Zenon
  <2>6. base[id][key] = spot
    <3>1. /\ base[id].gross = SpotConverted(local[id].gross, factor)
          /\ base[id].cost = SpotConverted(local[id].cost, factor)
          /\ base[id].net = SpotConverted(local[id].net, factor)
      <4> HIDE DEF local
      <4> QED BY <2>3, <2>4, <2>5, <2>12, ConvertedRow, Zenon
    <3> HIDE DEF base, local
    <3> QED BY <3>1 DEF Keys
  <2>7. IsSeries(series) /\ IsSeries(base[id][key])
    <3> HIDE DEF local, base
    <3> QED BY <2>3, <2>4, KeysAreSeries, Zenon
  <2>8. ASSUME d \in DOMAIN series, ~factor[d].nan
        PROVE  RunningTotal(spot, d) = RunningTotal(series, d) * factor[d].value
    <3> HIDE DEF local
    <3> QED BY <2>3, <2>7, <2>8, <2>12, ConversionKeepsRunningTotal
  <2>9. DOMAIN spot = DOMAIN series
    BY Zenon DEF SpotConverted
  <2>10. CASE mode # "all" /\ ~factor[d].nan
    <3>1. Base = base
      BY <2>2, <2>10, Zenon DEF Handled
    <3> QED BY <2>2, <2>6, <2>8, <2>9, <2>10, <3>1, Zenon
  <2>11. CASE mode = "all" /\ ~factor[d].nan
    <3> DEFINE masked == MaskedDays(base, base[id].trade_id)
    <3>1. Base = AdjustForMissingLegs(base) /\ local = AdjustForMissingLegs(ExtractLegData)
      BY <2>2, <2>11, Zenon DEF Handled
    <3>2. IsLegData(ExtractLegData)
      BY <1>1, ExtractedData, GeneratedData, Zenon
    <3>3. Base[id][key] = Deferred(base[id][key], masked)
      <4>1. /\ Base[id].gross = Deferred(base[id].gross, masked)
            /\ Base[id].cost = Deferred(base[id].cost, masked)
            /\ Base[id].net = Deferred(base[id].net, masked)
        <5> HIDE DEF base
        <5> QED BY <2>3, <2>4, <3>1, AdjustedRow, Zenon DEF masked
      <4> HIDE DEF base, masked
      <4> QED BY <4>1 DEF Keys
    <3>4. ASSUME NEW x \in LegIds
          PROVE  \E m : /\ local[x].gross = Deferred(ExtractLegData[x].gross, m)
                        /\ local[x].cost = Deferred(ExtractLegData[x].cost, m)
                        /\ local[x].net = Deferred(ExtractLegData[x].net, m)
      <4> HIDE DEF local
      <4> QED BY <3>1, <3>2, AdjustedRow
    <3>5. \A s, m : DOMAIN Deferred(s, m) = Days /\ \A e \in Days : ~Deferred(s, m)[e].nan
      <4>1. \A n : ~Num(n).nan
        BY DEF Num
      <4> QED BY <4>1, Zenon DEF Deferred
    <3>6. d \in Days /\ DOMAIN series = Days
      <4>1. DOMAIN local[id].gross = Days /\ DOMAIN local[id].cost = Days /\ DOMAIN local[id].net = Days
        <5>1. PICK m : /\ local[id].gross = Deferred(ExtractLegData[id].gross, m)
                       /\ local[id].cost = Deferred(ExtractLegData[id].cost, m)
                       /\ local[id].net = Deferred(ExtractLegData[id].net, m)
          BY <2>4, <3>4, Zenon
        <5> HIDE DEF local
        <5> QED BY <3>5, <5>1
      <4>2. DOMAIN series = Days
        <5> HIDE DEF local
        <5> QED BY <4>1 DEF Keys
      <4> QED BY <1>1, <3>3, <3>5, <4>2, Zenon
    <3>7. ASSUME NEW x \in LegIds PROVE ~base[x].gross[d].nan
      <4>1. ~local[x].gross[d].nan /\ DOMAIN local[x].gross = Days
        <5>1. PICK m : local[x].gross = Deferred(ExtractLegData[x].gross, m)
          BY <3>4, Zenon
        <5> HIDE DEF local
        <5> QED BY <3>5, <3>6, <5>1
      <4>2. DOMAIN local = LegIds
        BY <2>3, Zenon DEF IsLegData
      <4> HIDE DEF local
      <4>3. CASE local[x].ticker \notin Foreign
        <5>1. base[x] = local[x]
          BY <4>2, <4>3, Zenon DEF BuildBaseLegData
        <5> QED BY <4>1, <5>1, Zenon
      <4>4. CASE local[x].ticker \in Foreign
        <5>1. base[x].gross = SpotConverted(local[x].gross, factor)
          BY <2>3, <2>12, <4>4, ConvertedRow, Zenon
        <5>2. \A n : ~Num(n).nan
          BY DEF Num
        <5> QED BY <2>11, <3>6, <4>1, <5>1, <5>2, Zenon DEF SpotConverted
      <4> QED BY <4>3, <4>4
    <3>8. d \notin masked
      <4>1. DOMAIN base = LegIds
        BY <2>3, Zenon DEF IsLegData
      <4> HIDE DEF base
      <4> QED BY <3>7, <4>1 DEF MaskedDays
    <3>9. RunningTotal(Base[id][key], d) = RunningTotal(base[id][key], d)
      <4>1. d \in Days \ masked
        BY <3>6, <3>8, Zenon
      <4> HIDE DEF base, masked
      <4>2. IsSeries(base[id][key])
        BY <2>7, Zenon
      <4> DEFINE old == base[id][key]
      <4> HIDE DEF old
      <4>3. RunningTotal(Deferred(old, masked), d) = RunningTotal(old, d)
        BY <4>1, <4>2, DeferralKeepsRunningTotal DEF old
      <4> QED BY <3>3, <4>3, Zenon DEF old
    <3> QED BY <2>2, <2>6, <2>8, <2>11, <3>6, <3>9, Zenon
  <2>13. CASE mode # "all" /\ factor[d].nan
    <3>1. Base = base
      BY <2>2, <2>13, Zenon DEF Handled
    <3>2. d \in DOMAIN series
      BY <1>1, <2>6, <2>9, <3>1, Zenon
    <3>3. spot[d] = NaN
      BY <2>13, <3>2, Zenon DEF SpotConverted
    <3>4. Filled(NaN) = 0
      BY DEF Filled, NaN
    <3> QED BY <2>2, <2>6, <2>13, <3>1, <3>3, <3>4, Zenon
  <2>14. CASE mode = "all" /\ factor[d].nan
    <3> DEFINE masked == MaskedDays(base, base[id].trade_id)
    <3>1. Base = AdjustForMissingLegs(base) /\ local = AdjustForMissingLegs(ExtractLegData)
      BY <2>2, <2>14, Zenon DEF Handled
    <3>2. Base[id][key] = Deferred(base[id][key], masked)
      <4>1. /\ Base[id].gross = Deferred(base[id].gross, masked)
            /\ Base[id].cost = Deferred(base[id].cost, masked)
            /\ Base[id].net = Deferred(base[id].net, masked)
        <5> HIDE DEF base
        <5> QED BY <2>3, <2>4, <3>1, AdjustedRow, Zenon DEF masked
      <4> HIDE DEF base, masked
      <4> QED BY <4>1 DEF Keys
    <3>3. d \in Days
      BY <1>1, <3>2, Zenon DEF Deferred
    <3>4. d \in DOMAIN base[id].gross /\ base[id].gross[d].nan
      <4>1. d \in DOMAIN local[id].gross
        <5>1. \E m : local[id].gross = Deferred(ExtractLegData[id].gross, m)
          <6>1. IsLegData(ExtractLegData)
            BY <1>1, ExtractedData, GeneratedData, Zenon
          <6> HIDE DEF local
          <6> QED BY <2>4, <3>1, <6>1, AdjustedRow, Zenon
        <5> HIDE DEF local
        <5> QED BY <3>3, <5>1, Zenon DEF Deferred
      <4>2. base[id].gross = SpotConverted(local[id].gross, factor)
        <5> HIDE DEF local
        <5> QED BY <2>3, <2>4, <2>5, <2>12, ConvertedRow, Zenon
      <4> HIDE DEF base, local
      <4>3. NaN.nan
        BY DEF NaN
      <4> QED BY <2>14, <4>1, <4>2, <4>3, Zenon DEF SpotConverted
    <3>5. d \in masked
      <4>1. id \in DOMAIN base
        BY <2>3, <2>4, Zenon DEF IsLegData
      <4> HIDE DEF base
      <4>2. d \in {e \in DOMAIN base[id].gross : base[id].gross[e].nan}
        BY <3>4
      <4>3. id \in {x \in DOMAIN base : base[x].trade_id = base[id].trade_id}
        BY <4>1
      <4> QED BY <4>2, <4>3, Zenon DEF MaskedDays
    <3> HIDE DEF masked, base
    <3>6. Base[id][key][d] = Num(0)
      BY <3>2, <3>3, <3>5, Zenon DEF Deferred
    <3>7. Filled(Num(0)) = 0
      BY DEF Filled, Num
    <3> QED BY <2>2, <2>14, <3>6, <3>7, Zenon
  <2> QED BY <2>2, <2>10, <2>11, <2>13, <2>14, Zenon
<1>2. AccountInv /\ GeneratedIsRight => ConvertedAtTheRateOfTheDay
  BY <1>1, Zenon DEF ConvertedAtTheRateOfTheDay
<1> QED BY <1>2, ReportInvariant, PTL

-----------------------------------------------------------------------------
(***************************************************************************)
(* Every trade has a first structure, opened with it, and every structure  *)
(* has legs: what the reports by trade rest on.                            *)
(***************************************************************************)
IsFirst(s, t) ==
  /\ s \in DOMAIN structures /\ structures[s].trade_id = t
  /\ structures[s].original_entry_date = trades[t].entry_date
  /\ \A r \in DOMAIN structures : structures[r].trade_id = t => s <= r

TradesInv ==
  /\ AccountInv
  /\ \A t \in DOMAIN trades : \E s \in DOMAIN structures : IsFirst(s, t)
  /\ \A s \in DOMAIN structures : 1 \in DOMAIN structures[s].legs

\* A step that opens nothing.
ShapeIsKept ==
  /\ DOMAIN structures' = DOMAIN structures /\ DOMAIN trades' = DOMAIN trades
  /\ \A t \in DOMAIN trades : trades'[t].entry_date = trades[t].entry_date
  /\ \A s \in DOMAIN structures :
       /\ structures'[s].trade_id = structures[s].trade_id
       /\ structures'[s].original_entry_date = structures[s].original_entry_date
       /\ DOMAIN structures'[s].legs = DOMAIN structures[s].legs

LEMMA ShapeKeepsTrades ==
  ASSUME TradesInv, ShapeIsKept
  PROVE  /\ \A t \in DOMAIN trades' : \E s \in DOMAIN structures' : IsFirst(s, t)'
         /\ \A s \in DOMAIN structures' : 1 \in DOMAIN structures'[s].legs
<1>1. ASSUME NEW t \in DOMAIN trades PROVE \E s \in DOMAIN structures' : IsFirst(s, t)'
  <2>1. PICK s \in DOMAIN structures : IsFirst(s, t)
    BY Zenon DEF TradesInv
  <2> QED BY <2>1, Zenon DEF IsFirst, ShapeIsKept
<1> QED BY <1>1, Zenon DEF ShapeIsKept, TradesInv

LEMMA MarkKeepsShape == ASSUME AccountInv, MarkToMarket \/ EndDay PROVE ShapeIsKept
<1>1. \A s \in DOMAIN structures : structures[s] \in Rows
  BY Zenon DEF AccountInv, RowsAreRight, RowIsRight
<1>2. CASE MarkToMarket
  <2>1. PICK given \in Gives :
          structures' = [s \in DOMAIN structures |->
            IF IsOpen(s)
            THEN [structures[s] EXCEPT !.legs =
                    [i \in DOMAIN structures[s].legs |->
                       Marked(structures[s].legs[i], quote', given)]]
            ELSE structures[s]]
    BY <1>2, Zenon DEF MarkToMarket
  <2>2. trades' = trades
    BY <1>2, Zenon DEF MarkToMarket
  <2>3. ASSUME NEW s \in DOMAIN structures
        PROVE  /\ structures'[s].trade_id = structures[s].trade_id
               /\ structures'[s].original_entry_date = structures[s].original_entry_date
               /\ DOMAIN structures'[s].legs = DOMAIN structures[s].legs
    <3> DEFINE legs == [i \in DOMAIN structures[s].legs |->
                          Marked(structures[s].legs[i], quote', given)]
    <3>1. DOMAIN legs = DOMAIN structures[s].legs
      BY Zenon
    <3>2. structures'[s] = [structures[s] EXCEPT !.legs = legs] \/ structures'[s] = structures[s]
      BY <2>1, Zenon
    <3> HIDE DEF legs
    <3>3. ASSUME NEW new, new = [structures[s] EXCEPT !.legs = legs]
          PROVE  /\ new.trade_id = structures[s].trade_id /\ new.legs = legs
                 /\ new.original_entry_date = structures[s].original_entry_date
      <4> DEFINE st == structures[s]
      <4>1. st \in Rows
        BY <1>1, Zenon
      <4> HIDE DEF st
      <4>2. new = [st EXCEPT !.legs = legs]
        BY <3>3, Zenon DEF st
      <4>3. new.trade_id = st.trade_id /\ new.legs = legs /\ new.original_entry_date = st.original_entry_date
        BY <4>1, <4>2 DEF Rows
      <4> QED BY <4>3, Zenon DEF st
    <3> QED BY <3>1, <3>2, <3>3, Zenon
  <2>4. DOMAIN structures' = DOMAIN structures
    BY <2>1, Zenon
  <2> QED BY <2>2, <2>3, <2>4, Zenon DEF ShapeIsKept
<1>3. CASE EndDay
  <2>1. PICK given \in Gives :
          structures' = [s \in DOMAIN structures |->
            IF IsOpen(s)
            THEN [structures[s] EXCEPT !.legs =
                    [i \in DOMAIN structures[s].legs |-> Valued(structures[s].legs[i], given)]]
            ELSE structures[s]]
    BY <1>3, Zenon DEF EndDay
  <2>2. trades' = trades
    BY <1>3, Zenon DEF EndDay
  <2>3. ASSUME NEW s \in DOMAIN structures
        PROVE  /\ structures'[s].trade_id = structures[s].trade_id
               /\ structures'[s].original_entry_date = structures[s].original_entry_date
               /\ DOMAIN structures'[s].legs = DOMAIN structures[s].legs
    <3> DEFINE legs == [i \in DOMAIN structures[s].legs |-> Valued(structures[s].legs[i], given)]
    <3>1. DOMAIN legs = DOMAIN structures[s].legs
      BY Zenon
    <3>2. structures'[s] = [structures[s] EXCEPT !.legs = legs] \/ structures'[s] = structures[s]
      BY <2>1, Zenon
    <3> HIDE DEF legs
    <3>3. ASSUME NEW new, new = [structures[s] EXCEPT !.legs = legs]
          PROVE  /\ new.trade_id = structures[s].trade_id /\ new.legs = legs
                 /\ new.original_entry_date = structures[s].original_entry_date
      <4> DEFINE st == structures[s]
      <4>1. st \in Rows
        BY <1>1, Zenon
      <4> HIDE DEF st
      <4>2. new = [st EXCEPT !.legs = legs]
        BY <3>3, Zenon DEF st
      <4>3. new.trade_id = st.trade_id /\ new.legs = legs /\ new.original_entry_date = st.original_entry_date
        BY <4>1, <4>2 DEF Rows
      <4> QED BY <4>3, Zenon DEF st
    <3> QED BY <3>1, <3>2, <3>3, Zenon
  <2>4. DOMAIN structures' = DOMAIN structures
    BY <2>1, Zenon
  <2> QED BY <2>2, <2>3, <2>4, Zenon DEF ShapeIsKept
<1> QED BY <1>2, <1>3

LEMMA ResizeKeepsShape ==
  ASSUME AccountInv, NEW s \in DOMAIN structures, NEW delta, Resize(s, delta)
  PROVE  ShapeIsKept
<1> DEFINE st == structures[s]
           legs == <<Moved(st.legs[1], delta)>>
           log == Append(st.event_log, IF delta > 0 THEN Event("partial add", st.legs, <<delta>>)
                                       ELSE Event("partial unwind", st.legs, <<-delta>>))
           row == [st EXCEPT !.legs = legs, !.event_log = log]
<1>1. structures' = [structures EXCEPT ![s] = row] /\ trades' = trades
  BY DEF Resize
<1>2. st \in Rows
  BY Zenon DEF AccountInv, RowsAreRight, RowIsRight
<1>3. DOMAIN legs = DOMAIN st.legs
  <2>1. st.legs \in Seq(LegStates) /\ Len(st.legs) = 1
    BY <1>2 DEF Rows, Resize
  <2>2. DOMAIN st.legs = 1..1
    <3> HIDE DEF st
    <3> QED BY <2>1
  <2> HIDE DEF st
  <2> QED BY <2>2
<1> HIDE DEF legs, log, st
<1>4. /\ row.trade_id = st.trade_id /\ row.legs = legs
      /\ row.original_entry_date = st.original_entry_date
  BY <1>2 DEF Rows
<1> HIDE DEF row
<1>5. \A r \in DOMAIN structures : structures'[r] = IF r = s THEN row ELSE structures[r]
  BY <1>1, Zenon
<1>6. DOMAIN structures' = DOMAIN structures
  BY <1>1, Zenon
<1> QED BY <1>1, <1>3, <1>4, <1>5, <1>6, Zenon DEF ShapeIsKept, st

LEMMA CloseKeepsShape ==
  ASSUME AccountInv, NEW t \in DOMAIN trades, NEW closing, Close(t, closing)
  PROVE  ShapeIsKept
<1> DEFINE legs(st) == [i \in DOMAIN st.legs |-> Moved(st.legs[i], -st.legs[i].current_size)]
           event(st) == Event("full close", st.legs,
                              [i \in DOMAIN st.legs |-> st.legs[i].current_size])
           log(st) == Append(st.event_log, event(st))
           closed(st) == [st EXCEPT !.closed = day, !.legs = legs(st), !.event_log = log(st)]
           exit == IF OpenStructures \cap StructuresOf(t) \subseteq closing THEN day
                   ELSE trades[t].exit_date
<1>1. structures' = [s \in DOMAIN structures |->
        IF s \in closing THEN closed(structures[s]) ELSE structures[s]]
  BY DEF Close
<1>2. trades' = [trades EXCEPT ![t].exit_date = exit]
  BY DEF Close
<1>3. \A s \in DOMAIN structures : structures[s] \in Rows
  BY Zenon DEF AccountInv, RowsAreRight, RowIsRight
<1>4. ASSUME NEW s \in DOMAIN structures
      PROVE  /\ structures'[s].trade_id = structures[s].trade_id
             /\ structures'[s].original_entry_date = structures[s].original_entry_date
             /\ DOMAIN structures'[s].legs = DOMAIN structures[s].legs
  <2> DEFINE st == structures[s]
             new == legs(st)
             entries == log(st)
  <2>1. DOMAIN new = DOMAIN st.legs
    BY Zenon
  <2>2. structures'[s] = [st EXCEPT !.closed = day, !.legs = new, !.event_log = entries]
          \/ structures'[s] = st
    BY <1>1, Zenon
  <2> HIDE DEF new, entries, legs, log, event, closed
  <2>3. ASSUME NEW x, x = [st EXCEPT !.closed = day, !.legs = new, !.event_log = entries]
        PROVE  /\ x.trade_id = st.trade_id /\ x.legs = new
               /\ x.original_entry_date = st.original_entry_date
    <3>1. st \in Rows
      BY <1>3, Zenon
    <3> HIDE DEF st
    <3> QED BY <2>3, <3>1 DEF Rows
  <2> QED BY <2>1, <2>2, <2>3, Zenon
<1>5. \A r \in DOMAIN trades : trades'[r].entry_date = trades[r].entry_date
  <2> DEFINE Trades == [entry_date : Days, exit_date : Days \cup {None}]
  <2>1. \A r \in DOMAIN trades : trades[r] \in Trades
    <3>1. trades \in Seq(Trades)
      BY Zenon DEF AccountInv, LoopIsRight
    <3> HIDE DEF Trades
    <3> QED BY <3>1
  <2> HIDE DEF exit
  <2> QED BY <1>2, <2>1
<1>6. DOMAIN structures' = DOMAIN structures /\ DOMAIN trades' = DOMAIN trades
  <2> HIDE DEF closed, exit
  <2> QED BY <1>1, <1>2, Zenon
<1> QED BY <1>4, <1>5, <1>6, Zenon DEF ShapeIsKept

LEMMA OpeningKeepsTrades ==
  ASSUME TradesInv, NEW content \in Contents,
         OpenTrade(content) \/ \E t \in DOMAIN trades : ExtendTrade(t, content)
  PROVE  /\ \A t \in DOMAIN trades' : \E s \in DOMAIN structures' : IsFirst(s, t)'
         /\ \A s \in DOMAIN structures' : 1 \in DOMAIN structures'[s].legs
<1> DEFINE m == Len(trades)
<1>0. PICK n : n = Len(structures)
  OBVIOUS
<1>1. PICK t : /\ NewStructure(t, content)
               /\ \/ t = m + 1 /\ trades' = Append(trades, [entry_date |-> day, exit_date |-> None])
                  \/ t \in DOMAIN trades /\ trades' = trades
  BY Zenon DEF OpenTrade, ExtendTrade
<1>2. PICK given \in Gives :
        structures' = Append(structures,
          [trade_id |-> t, original_entry_date |-> day, closed |-> None,
           legs |-> [i \in DOMAIN content |-> OpenedLeg(content[i], given)],
           event_log |-> <<Event("open", content,
                                 [i \in DOMAIN content |-> content[i].size])>>])
  BY <1>1, Zenon DEF NewStructure
<1> DEFINE legs == [i \in DOMAIN content |-> OpenedLeg(content[i], given)]
           log == <<Event("open", content, [i \in DOMAIN content |-> content[i].size])>>
           row == [trade_id |-> t, original_entry_date |-> day, closed |-> None,
                   legs |-> legs, event_log |-> log]
<1>3. 1 \in DOMAIN legs
  <2> DEFINE Orders == [ticker : Tickers, size : Int \ {0}, cost_leg : BOOLEAN]
  <2>1. content \in Seq(Orders) /\ content # <<>>
    BY SizesAssumption, Zenon
  <2>2. 1 \in DOMAIN content
    <3> HIDE DEF Orders
    <3> QED BY <2>1
  <2> QED BY <2>2, Zenon
<1>4. structures' = Append(structures, row) /\ row.trade_id = t /\ row.original_entry_date = day
        /\ row.legs = legs
  BY <1>2
<1> HIDE DEF legs, log, row
<1>5. structures \in Seq(Rows) /\ n \in Nat /\ DOMAIN structures = 1..n
  BY <1>0, StructureRows DEF TradesInv, AccountInv, RowsAreRight
<1>6. /\ DOMAIN structures' = 1..(n + 1) /\ structures'[n + 1] = row
      /\ \A s \in DOMAIN structures : structures'[s] = structures[s]
  BY <1>4, <1>5
<1>7. \A s \in DOMAIN structures' : s \in DOMAIN structures \/ s = n + 1
  BY <1>5, <1>6
<1>8. \A s \in DOMAIN structures : s <= n + 1 /\ s \in DOMAIN structures'
  BY <1>5, <1>6
<1>9. \A s \in DOMAIN structures : structures[s].trade_id \in DOMAIN trades
  BY Zenon DEF TradesInv, AccountInv, RowsAreRight
<1>10. ASSUME NEW r \in DOMAIN trades, trades'[r] = trades[r]
       PROVE  \E s \in DOMAIN structures' : IsFirst(s, r)'
  <2>1. PICK s \in DOMAIN structures : IsFirst(s, r)
    BY Zenon DEF TradesInv
  <2> QED BY <1>6, <1>7, <1>8, <1>10, <2>1, Zenon DEF IsFirst
<1>11. CASE t \in DOMAIN trades /\ trades' = trades
  BY <1>3, <1>4, <1>6, <1>7, <1>10, <1>11, Zenon DEF TradesInv
<1>12. CASE t = m + 1 /\ trades' = Append(trades, [entry_date |-> day, exit_date |-> None])
  <2> DEFINE Trades == [entry_date : Days, exit_date : Days \cup {None}]
             trade == [entry_date |-> day, exit_date |-> None]
  <2>1. trades \in Seq(Trades) /\ trade.entry_date = day
    BY DEF TradesInv, AccountInv, LoopIsRight
  <2> HIDE DEF Trades, trade
  <2>2. trades' = Append(trades, trade)
    BY <1>12, Zenon DEF trade
  <2>3. /\ DOMAIN trades' = DOMAIN trades \cup {t} /\ t \notin DOMAIN trades
        /\ trades'[t] = trade /\ \A r \in DOMAIN trades : trades'[r] = trades[r]
    BY <1>12, <2>1, <2>2
  <2>4. IsFirst(n + 1, t)'
    <3>1. n + 1 \in DOMAIN structures' /\ n + 1 <= n + 1
      BY <1>5, <1>6
    <3>2. structures'[n + 1].trade_id = t /\ structures'[n + 1].original_entry_date = day
      BY <1>4, <1>6, Zenon
    <3>3. ASSUME NEW r \in DOMAIN structures', structures'[r].trade_id = t PROVE n + 1 <= r
      <4>1. r \notin DOMAIN structures
        BY <1>6, <1>9, <2>3, <3>3, Zenon
      <4> QED BY <1>7, <3>1, <4>1, Zenon
    <3> QED BY <2>1, <2>3, <3>1, <3>2, <3>3, Zenon DEF IsFirst
  <2>5. n + 1 \in DOMAIN structures'
    BY <1>5, <1>6
  <2>6. \A r \in DOMAIN trades' : \E s \in DOMAIN structures' : IsFirst(s, r)'
    <3>1. \A r \in DOMAIN trades : \E s \in DOMAIN structures' : IsFirst(s, r)'
      BY <1>10, <2>3, Zenon
    <3>2. \A r \in DOMAIN trades' : r \in DOMAIN trades \/ r = t
      BY <2>3
    <3> QED BY <2>4, <2>5, <3>1, <3>2, Zenon
  <2> QED BY <1>3, <1>4, <1>6, <1>7, <2>6, Zenon DEF TradesInv
<1> QED BY <1>1, <1>11, <1>12, Zenon

LEMMA TradesInvariant == ReportSpec => []TradesInv
<1>1. ReportInit => TradesInv
  <2>1. ReportInit => DOMAIN trades = {} /\ DOMAIN structures = {}
    <3>1. Init => DOMAIN trades = {} /\ DOMAIN structures = {}
      BY DEF Init
    <3> QED BY <3>1, Zenon DEF ReportInit
  <2> QED BY <2>1, AccountInit, Zenon DEF ReportInit, TradesInv
<1>2. ASSUME TradesInv, [Next]_vars PROVE TradesInv'
  <2> DEFINE Right == /\ \A t \in DOMAIN trades' : \E s \in DOMAIN structures' : IsFirst(s, t)'
                      /\ \A s \in DOMAIN structures' : 1 \in DOMAIN structures'[s].legs
  <2>0. AccountInv /\ AccountInv'
    BY <1>2, AccountStep, Zenon DEF TradesInv
  <2>1. ASSUME MarkToMarket \/ EndDay PROVE Right
    BY <1>2, <2>0, <2>1, MarkKeepsShape, ShapeKeepsTrades, Zenon
  <2>2. ASSUME NEW content \in Contents,
               OpenTrade(content) \/ \E t \in DOMAIN trades : ExtendTrade(t, content)
        PROVE  Right
    BY <1>2, <2>2, OpeningKeepsTrades, Zenon
  <2>3. ASSUME NEW s \in DOMAIN structures, NEW n, Resize(s, n) \/ Resize(s, -n) PROVE Right
    BY <1>2, <2>0, <2>3, ResizeKeepsShape, ShapeKeepsTrades, Zenon
  <2>4. ASSUME CloseSome PROVE Right
    <3>1. PICK t \in DOMAIN trades : \E closing : Close(t, closing)
      BY <2>4, Zenon DEF CloseSome
    <3> QED BY <1>2, <2>0, <3>1, CloseKeepsShape, ShapeKeepsTrades, Zenon
  <2>5. ASSUME UNCHANGED vars PROVE Right
    <3>1. structures' = structures /\ trades' = trades
      BY <2>5, Zenon DEF vars
    <3> QED BY <1>2, <3>1, Zenon DEF TradesInv, IsFirst
  <2>6. Right
    BY <1>2, <2>1, <2>2, <2>3, <2>4, <2>5, Zenon DEF Next, Stopped
  <2> QED BY <2>0, <2>6, Zenon DEF TradesInv
<1>3. TradesInv /\ [ReportNext]_<<vars, summary>> => TradesInv'
  BY <1>2, ReportStep, Zenon
<1> QED BY <1>1, <1>3, PTL DEF ReportSpec

-----------------------------------------------------------------------------
\* trade_summary.py and hit_ratio.py: the trades' totals add up to the return of the
\* portfolio, every trade is in one row, and it is held as long as it has P&L.
THEOREM TradesCoverTheRun == ReportSpec => []TradesAddUp
<1>1. ASSUME AccountInv, IsLegData(Base), NEW key \in Keys
      PROVE  SumFunction([t \in DOMAIN trades |-> TradeTotal(Base, LegsOfTrade(Base, t), key)])
               = ReturnOf(Portfolio(Base, key))
  <2> DEFINE S == LegIds
             J == DOMAIN trades
             p == [id \in LegIds |-> Base[id].trade_id]
             f == LegTotal(Base, key)
             h == [t \in DOMAIN trades |-> TradeTotal(Base, LegsOfTrade(Base, t), key)]
             m == [id \in LegIds |-> Line(Base, key, id)]
             column == Portfolio(Base, key)
  <2>1. DOMAIN Base = S
    BY <1>1, Zenon DEF IsLegData
  <2>2. IsFiniteSet(S) /\ IsFiniteSet(J)
    <3>1. trades \in Seq([entry_date : Days, exit_date : Days \cup {None}])
      BY <1>1, Zenon DEF AccountInv, LoopIsRight
    <3>2. DOMAIN trades = 1..Len(trades) /\ Len(trades) \in Int
      BY <3>1
    <3> QED BY <1>1, <3>2, LegIdsAreFinite, FiniteInterval
  <2>3. ASSUME NEW x \in S PROVE p[x] \in J
    <3>1. x[1] \in DOMAIN structures
      BY ExtractedLeg, Zenon
    <3>2. structures[x[1]].trade_id \in J
      BY <1>1, <3>1, Zenon DEF AccountInv, RowsAreRight
    <3>3. Base[x].trade_id = structures[x[1]].trade_id
      BY <1>1 DEF IsLegData, IsLegRow
    <3> QED BY <3>2, <3>3, Zenon
  <2>4. /\ \A x \in S : f[x] \in Int
        /\ \A x \in S : f[x] = SumFunctionOnSet(Line(Base, key, x), Days)
        /\ \A x \in S : \A y \in Days :
             Line(Base, key, x)[y] \in Int /\ Line(Base, key, x)[y] = Cell(Base, key, y)[x]
    <3> HIDE DEF f
    <3>1. ASSUME NEW x \in LegIds
          PROVE  /\ \A d \in Days : Cell(Base, key, d)[x] \in Int
                                     /\ Line(Base, key, x)[d] = Cell(Base, key, d)[x]
                 /\ LegTotal(Base, key)[x] = SumFunctionOnSet(Line(Base, key, x), Days)
                 /\ LegTotal(Base, key)[x] \in Int
      BY <1>1, CellsAreInts, Zenon
    <3> QED BY <3>1 DEF f
  <2>5. ASSUME NEW j \in J PROVE h[j] = SumFunctionOnSet(f, {x \in S : p[x] = j})
    <3>1. LegsOfTrade(Base, j) = {x \in S : p[x] = j} /\ LegsOfTrade(Base, j) \subseteq DOMAIN Base
      BY <2>1 DEF LegsOfTrade
    <3> QED BY <3>1, TradeTotalIs, Zenon
  <2>6. ASSUME NEW y \in Days
        PROVE  column[y] = SumFunctionOnSet([x \in S |-> m[x][y]], S)
    <3> DEFINE g == [x \in S |-> m[x][y]]
    <3>1. column[y] = SumFunctionOnSet(Cell(Base, key, y), S)
      BY <2>1, DailySeriesIs DEF Portfolio
    <3>2. \A x \in S : Cell(Base, key, y)[x] = g[x]
      BY <2>4, Zenon
    <3> HIDE DEF g, S
    <3>3. SumFunctionOnSet(Cell(Base, key, y), S) = SumFunctionOnSet(g, S)
      BY <3>2, SumEqual, Zenon
    <3> QED BY <3>1, <3>3, Zenon DEF g
  <2>7. SumFunction(h) = SumFunctionOnSet(h, J)
    BY Zenon DEF SumFunction
  <2>8. ReturnOf(column) = SumFunctionOnSet(column, Days)
    <3>1. DOMAIN column = Days
      BY Zenon DEF Portfolio, DailySeries
    <3> HIDE DEF column
    <3> QED BY <3>1, Zenon DEF ReturnOf, SumFunction
  <2>9. /\ \A x \in S, y \in Days : m[x][y] \in Int
        /\ \A x \in S : f[x] = SumFunctionOnSet(m[x], Days)
    BY <2>4, Zenon
  <2> HIDE DEF S, J, p, f, h, m, column
  <2>10. SumFunctionOnSet(h, J) = SumFunctionOnSet(f, S)
    <3>1. \A x \in S : p[x] \in J
      BY <2>3, Zenon
    <3>2. \A x \in S : f[x] \in Int
      BY <2>4, Zenon
    <3>3. \A j \in J : h[j] = SumFunctionOnSet(f, {x \in S : p[x] = j})
      BY <2>5, Zenon
    <3> QED BY <2>2, <3>1, <3>2, <3>3, SumByClass, SMTT(60)
  <2>11. SumFunctionOnSet(f, S) = SumFunctionOnSet(column, Days)
    <3> DEFINE row == [x \in S |-> SumFunctionOnSet(m[x], Days)]
               all == [y \in Days |-> SumFunctionOnSet([x \in S |-> m[x][y]], S)]
    <3>1. IsFiniteSet(S) /\ IsFiniteSet(Days) /\ \A x \in S, y \in Days : m[x][y] \in Int
      BY <2>2, <2>9, DaysAreFinite, Zenon
    <3>2. SumFunctionOnSet(row, S) = SumFunctionOnSet(all, Days)
      BY <3>1, SumSwap, Zenon
    <3>3. (\A x \in S : f[x] = row[x]) /\ \A y \in Days : column[y] = all[y]
      BY <2>6, <2>9, Zenon
    <3> HIDE DEF row, all
    <3>4. SumFunctionOnSet(f, S) = SumFunctionOnSet(row, S)
      BY <3>3, SumEqual, Zenon
    <3>5. SumFunctionOnSet(column, Days) = SumFunctionOnSet(all, Days)
      BY <3>3, SumEqual, Zenon
    <3> QED BY <3>2, <3>4, <3>5, Zenon
  <2> QED BY <2>7, <2>8, <2>10, <2>11, Zenon DEF h, column
<1>2. ASSUME TradesInv, NEW t \in DOMAIN trades, NEW s \in DOMAIN structures, IsFirst(s, t)
      PROVE  Min(StructuresOf(t)) = s
  <2> DEFINE S == StructuresOf(t)
  <2>1. s \in S /\ \A r \in S : s <= r
    BY <1>2, Zenon DEF StructuresOf, IsFirst
  <2>2. S \subseteq Int /\ s \in Int
    <3>1. DOMAIN structures \subseteq Int
      BY <1>2, StructureRows DEF TradesInv, AccountInv, RowsAreRight
    <3> QED BY <3>1, Zenon DEF StructuresOf
  <2> HIDE DEF S
  <2>3. Min(S) \in S /\ \A r \in S : Min(S) <= r
    BY <2>1, <2>2, LeastInteger
  <2>4. Min(S) <= s /\ s <= Min(S) /\ Min(S) \in Int
    BY <2>1, <2>2, <2>3, Zenon
  <2> QED BY <2>2, <2>4 DEF S
<1>3. ASSUME TradesInv, Extracts, IsLegData(Base), NEW t \in DOMAIN trades
      PROVE  /\ Cardinality({p \in Periods : t \in EnteredIn(Base, p)}) = 1
             /\ HoldingDays(t) = Len(structures[Min(StructuresOf(t))].legs[1].daily_total_pnl)
  <2>1. PICK s \in DOMAIN structures : IsFirst(s, t)
    BY <1>3, Zenon DEF TradesInv
  <2>2. /\ Min(StructuresOf(t)) = s /\ structures[s].trade_id = t
        /\ structures[s].original_entry_date = trades[t].entry_date
    BY <1>2, <1>3, <2>1, Zenon DEF IsFirst
  <2>3. 1 \in DOMAIN structures[s].legs /\ AccountInv
    BY <1>3, Zenon DEF TradesInv
  <2>4. Cardinality({p \in Periods : t \in EnteredIn(Base, p)}) = 1
    <3> DEFINE id == <<s, 1>>
               period == PeriodOf[trades[t].entry_date]
    <3>1. id \in LegIds
      BY <2>3 DEF LegIds
    <3>2. Base[id].trade_id = t
      <4>1. id[1] = s
        OBVIOUS
      <4> QED BY <1>3, <2>2, <3>1, <4>1 DEF IsLegData, IsLegRow
    <3>3. t \in {Base[i].trade_id : i \in DOMAIN Base}
      <4> HIDE DEF id
      <4> QED BY <1>3, <3>1, <3>2, Zenon DEF IsLegData
    <3>4. trades[t].entry_date \in Days
      BY <2>2, <2>3, PnlDatesAreDays, Zenon
    <3>5. period \in Periods
      BY <3>4, Zenon DEF Periods
    <3>6. \A p : t \in EnteredIn(Base, p) <=> period = p
      BY <3>3, Zenon DEF EnteredIn
    <3>7. {p \in Periods : t \in EnteredIn(Base, p)} = {period}
      <4> HIDE DEF period
      <4> QED BY <3>5, <3>6, Zenon
    <3> QED BY <3>7, FS_Singleton, Zenon
  <2>5. HoldingDays(t) = Len(structures[s].legs[1].daily_total_pnl)
    <3> DEFINE leg == structures[s].legs[1]
               entry == trades[t].entry_date
               last == LastPnlDate(s)
    <3>1. Len(leg.daily_total_pnl) = Cardinality(entry..last)
      BY <1>3, <2>2, <2>3, Zenon DEF Extracts, PnlExtracts, PnlDates
    <3>2. HoldingDays(t) = last - entry + 1
      BY <2>2, Zenon DEF HoldingDays, LastPnlDate
    <3>3. entry \in Int /\ last \in Int
      BY <2>2, <2>3, PnlDatesAreDays, DaysAreFinite, Zenon
    <3>4. Len(leg.daily_total_pnl) # 0
      <4>1. LegIsRight(structures[s], leg, phase, day)
        BY <2>3, Zenon DEF AccountInv, RowsAreRight, RowIsRight
      <4> QED BY <4>1, Zenon DEF LegIsRight
    <3> HIDE DEF leg, entry, last
    <3>5. Cardinality(entry..last) = IF entry > last THEN 0 ELSE last - entry + 1
      BY <3>3, FS_Interval, Zenon
    <3> QED BY <3>1, <3>2, <3>3, <3>4, <3>5 DEF leg
  <2> QED BY <2>2, <2>4, <2>5, Zenon
<1>4. ASSUME TradesInv, GeneratedIsRight, Generated
      PROVE  /\ AccountInv /\ IsLegData(Base) /\ Extracts
             /\ "gross" \in Keys /\ "net" \in Keys
  <2>1. "gross" \in Keys /\ "net" \in Keys
    BY DEF Keys
  <2>2. AccountInv
    BY <1>4, Zenon DEF TradesInv
  <2> QED BY <1>4, <2>1, <2>2, GeneratedData, Zenon
<1>5. TradesInv /\ GeneratedIsRight => TradesAddUp
  <2> SUFFICES ASSUME TradesInv, GeneratedIsRight, Generated
               PROVE  /\ \A key \in {"gross", "net"} :
                           SumFunction([t \in DOMAIN trades |->
                                          TradeTotal(Base, LegsOfTrade(Base, t), key)])
                             = ReturnOf(Portfolio(Base, key))
                      /\ \A t \in DOMAIN trades :
                           /\ Cardinality({p \in Periods : t \in EnteredIn(Base, p)}) = 1
                           /\ HoldingDays(t) =
                                Len(structures[Min(StructuresOf(t))].legs[1].daily_total_pnl)
    BY Zenon DEF TradesAddUp
  <2> QED BY <1>1, <1>3, <1>4, Zenon
<1> QED BY <1>5, ReportInvariant, TradesInvariant, PTL

-----------------------------------------------------------------------------
(* Curves and drawdowns. *)

IsCurve(c) == DOMAIN c \subseteq Days /\ DOMAIN c # {} /\ \A d \in DOMAIN c : c[d] \in Int

\* The drawdown of a day is the distance to the highest day so far.
LEMMA DrawdownIs ==
  ASSUME NEW c, IsCurve(c), NEW d \in DOMAIN c
  PROVE  /\ \E e \in DOMAIN c : e <= d /\ Drawdown(c)[d] = c[d] - c[e]
         /\ \A e \in DOMAIN c : e <= d => Drawdown(c)[d] <= c[d] - c[e]
         /\ Drawdown(c)[d] \in Int /\ Drawdown(c)[d] <= 0
<1> DEFINE D == {f \in DOMAIN c : f <= d}
           S == {c[e] : e \in D}
<1>1. D \subseteq DOMAIN c /\ IsFiniteSet(D) /\ d \in Int /\ DOMAIN c \subseteq Int
  BY DaysAreFinite, Zenon DEF IsCurve
<1>2. d \in D /\ c[d] \in S
  BY <1>1
<1>3. S \subseteq Int /\ IsFiniteSet(S)
  <2>1. IsFiniteSet(S)
    <3> HIDE DEF D
    <3> QED BY <1>1, FiniteImage
  <2> QED BY <2>1, Zenon DEF IsCurve
<1>4. Max(S) \in S /\ \A x \in S : x <= Max(S)
  <2> HIDE DEF S
  <2> QED BY <1>2, <1>3, FiniteExtremes, Zenon
<1>5. Drawdown(c)[d] = c[d] - Max(S)
  BY Zenon DEF Drawdown
<1>6. PICK e \in D : Max(S) = c[e]
  BY <1>4, Zenon
<1> DEFINE peak == Max(S)
<1>7. peak \in Int /\ c[d] \in Int /\ c[d] <= peak
  BY <1>2, <1>3, <1>4, Zenon
<1>8. ASSUME NEW f \in DOMAIN c, f <= d PROVE c[f] <= peak /\ c[f] \in Int
  BY <1>3, <1>4, <1>8, Zenon
<1>9. Drawdown(c)[d] = c[d] - peak
  BY <1>5, Zenon
<1> HIDE DEF peak, S
<1>10. Drawdown(c)[d] \in Int /\ Drawdown(c)[d] <= 0
  BY <1>7, <1>9
<1>11. \A f \in DOMAIN c : f <= d => Drawdown(c)[d] <= c[d] - c[f]
  BY <1>7, <1>8, <1>9
<1>12. e \in DOMAIN c /\ e <= d /\ Drawdown(c)[d] = c[d] - c[e]
  BY <1>6, <1>9, Zenon DEF peak
<1> QED BY <1>10, <1>11, <1>12, Zenon

LEMMA MaxDrawdownIs ==
  ASSUME NEW c, IsCurve(c)
  PROVE  /\ \E d \in DOMAIN c : MaxDrawdown(c) = Drawdown(c)[d]
         /\ \A d \in DOMAIN c : MaxDrawdown(c) <= Drawdown(c)[d]
<1> DEFINE dd == Drawdown(c)
           S == {dd[d] : d \in DOMAIN dd}
<1>1. DOMAIN dd = DOMAIN c
  BY Zenon DEF Drawdown
<1>2. \A d \in DOMAIN c : dd[d] \in Int
  BY DrawdownIs, Zenon
<1>3. IsFiniteSet(DOMAIN c)
  BY DaysAreFinite, Zenon DEF IsCurve
<1>4. MaxDrawdown(c) = Min(S)
  BY Zenon DEF MaxDrawdown
<1> HIDE DEF dd
<1>5. IsFiniteSet(S)
  BY <1>1, <1>3, FiniteImage
<1>6. S \subseteq Int /\ S # {}
  BY <1>1, <1>2, Zenon DEF IsCurve
<1>7. Min(S) \in S /\ \A x \in S : Min(S) <= x
  <2> HIDE DEF S
  <2> QED BY <1>5, <1>6, FiniteExtremes, Zenon
<1> QED BY <1>1, <1>4, <1>7, Zenon DEF dd

\* The cumulative P&L of the portfolio is a curve.
LEMMA PortfolioIsCurve ==
  ASSUME AccountInv, IsLegData(Base), NEW key \in Keys
  PROVE  LET daily == Portfolio(Base, key)
         IN  /\ DOMAIN daily = Days /\ \A d \in Days : daily[d] \in Int
             /\ IsCurve(CumulativeSeries(daily)) /\ DOMAIN CumulativeSeries(daily) = Days
<1> DEFINE daily == Portfolio(Base, key)
           c == CumulativeSeries(daily)
<1>1. DOMAIN daily = Days
  BY Zenon DEF Portfolio, DailySeries
<1>2. ASSUME NEW d \in Days PROVE daily[d] \in Int
  <2>1. DOMAIN Base = LegIds
    BY Zenon DEF IsLegData
  <2>2. daily[d] = SumFunctionOnSet(Cell(Base, key, d), LegIds)
    BY <2>1, DailySeriesIs DEF Portfolio
  <2>3. \A id \in LegIds : Cell(Base, key, d)[id] \in Int
    BY CellsAreInts, Zenon
  <2> HIDE DEF daily
  <2> QED BY <2>2, <2>3, LegIdsAreFinite, SumInt, Zenon
<1>3. DOMAIN c = Days
  BY Zenon DEF CumulativeSeries
<1> HIDE DEF daily
<1>4. ASSUME NEW d \in Days PROVE c[d] \in Int
  <2>1. c[d] = SumFunctionOnSet(daily, 1..d)
    BY Zenon DEF CumulativeSeries
  <2>2. 1..d \subseteq Days /\ IsFiniteSet(1..d)
    <3>1. 1..d \subseteq Days
      BY SizesAssumption DEF Days
    <3> QED BY <3>1, DaysAreFinite, Zenon
  <2> DEFINE D == 1..d
  <2>3. \A x \in D : daily[x] \in Int
    BY <1>2, <2>2, Zenon
  <2> HIDE DEF D
  <2>4. SumFunctionOnSet(daily, D) \in Int
    BY <2>2, <2>3, SumInt, Zenon DEF D
  <2> QED BY <2>1, <2>4, Zenon DEF D
<1>5. IsCurve(c)
  <2>1. Days # {}
    BY DaysAreFinite, Zenon
  <2> HIDE DEF c
  <2> QED BY <1>3, <1>4, <2>1, Zenon DEF IsCurve
<1> QED BY <1>1, <1>2, <1>3, <1>5, Zenon DEF daily

\* periodic_metrics.py: the returns of the periods add up to the return of the run, and
\* no period has a deeper drawdown.
THEOREM PeriodsAgree == ReportSpec => []PeriodsAgreeWithTheTotal
<1>1. ASSUME NEW daily, DOMAIN daily = Days, \A d \in Days : daily[d] \in Int
      PROVE  SumFunction([p \in Periods |-> PeriodReturn(daily, p)]) = ReturnOf(daily)
  <2> DEFINE S == Days
             J == Periods
             h == [p \in Periods |-> PeriodReturn(daily, p)]
             label == PeriodOf
  <2>1. IsFiniteSet(S) /\ IsFiniteSet(J) /\ \A x \in S : label[x] \in J
    <3>1. IsFiniteSet({PeriodOf[x] : x \in Days})
      BY DaysAreFinite, FiniteImage
    <3> QED BY <3>1, DaysAreFinite, Zenon DEF Periods
  <2>2. ASSUME NEW j \in J PROVE h[j] = SumFunctionOnSet(daily, {x \in S : label[x] = j})
    <3> DEFINE D == PeriodDays(j)
               f == [d \in D |-> daily[d]]
    <3>1. h[j] = SumFunctionOnSet(f, D)
      BY Zenon DEF PeriodReturn, ReturnOf, SumFunction
    <3>2. \A d \in D : f[d] = daily[d]
      OBVIOUS
    <3>3. D = {x \in S : label[x] = j}
      BY Zenon DEF PeriodDays
    <3> HIDE DEF D, f
    <3>4. SumFunctionOnSet(f, D) = SumFunctionOnSet(daily, D)
      BY <3>2, SumEqual, Zenon
    <3> QED BY <3>1, <3>3, <3>4, Zenon
  <2>3. SumFunction(h) = SumFunctionOnSet(h, J) /\ ReturnOf(daily) = SumFunctionOnSet(daily, S)
    BY <1>1, Zenon DEF SumFunction, ReturnOf
  <2>4. \A x \in S : daily[x] \in Int
    BY <1>1, Zenon
  <2> HIDE DEF S, J, h, label
  <2>5. \A j \in J : h[j] = SumFunctionOnSet(daily, {x \in S : label[x] = j})
    BY <2>2, Zenon
  <2>6. SumFunctionOnSet(h, J) = SumFunctionOnSet(daily, S)
    BY <2>1, <2>4, <2>5, SumByClass
  <2> QED BY <2>3, <2>6, Zenon DEF h
<1>2. ASSUME NEW c, IsCurve(c), DOMAIN c = Days, NEW p \in Periods
      PROVE  MaxDrawdown(PeriodCurve(c, p)) >= MaxDrawdown(c)
  <2> DEFINE D == PeriodDays(p)
             start == Min(D)
             curve == PeriodCurve(c, p)
  <2>1. D \subseteq Days /\ D # {}
    BY Zenon DEF PeriodDays, Periods
  <2>2. start \in D
    <3>1. D \subseteq Int /\ IsFiniteSet(D)
      BY <2>1, DaysAreFinite, Zenon
    <3> HIDE DEF D
    <3> QED BY <2>1, <3>1, FiniteExtremes, Zenon
  <2>3. DOMAIN curve = D /\ \A d \in D : curve[d] = c[d] - c[start]
    BY Zenon DEF PeriodCurve
  <2> HIDE DEF D, start, curve
  <2>4. \A d \in Days : c[d] \in Int
    BY <1>2, Zenon DEF IsCurve
  <2>5. c[start] \in Int
    BY <2>1, <2>2, <2>4, Zenon
  <2>6. \A d \in D : curve[d] \in Int
    BY <2>1, <2>3, <2>4, <2>5
  <2>7. IsCurve(curve)
    BY <2>1, <2>3, <2>6, Zenon DEF IsCurve
  <2>8. PICK d \in D : MaxDrawdown(curve) = Drawdown(curve)[d]
    BY <2>3, <2>7, MaxDrawdownIs, Zenon
  <2>9. PICK e \in D : e <= d /\ Drawdown(curve)[d] = curve[d] - curve[e]
    BY <2>3, <2>7, DrawdownIs, Zenon
  <2>10. d \in DOMAIN c /\ e \in DOMAIN c
    BY <1>2, <2>1, Zenon
  <2>11. MaxDrawdown(c) <= Drawdown(c)[d] /\ Drawdown(c)[d] <= c[d] - c[e]
           /\ Drawdown(c)[d] \in Int
    BY <1>2, <2>9, <2>10, MaxDrawdownIs, DrawdownIs, Zenon
  <2>12. MaxDrawdown(c) \in Int
    BY <1>2, MaxDrawdownIs, DrawdownIs, Zenon
  <2>13. c[d] \in Int /\ c[e] \in Int /\ curve[d] = c[d] - c[start] /\ curve[e] = c[e] - c[start]
    BY <2>1, <2>3, <2>4, Zenon
  <2>14. MaxDrawdown(curve) = c[d] - c[e]
    BY <2>5, <2>8, <2>9, <2>13
  <2>15. MaxDrawdown(curve) >= MaxDrawdown(c)
    BY <2>11, <2>12, <2>13, <2>14
  <2> QED BY <2>15, Zenon DEF curve
<1>3. AccountInv /\ GeneratedIsRight => PeriodsAgreeWithTheTotal
  <2> SUFFICES ASSUME AccountInv, GeneratedIsRight, Generated
               PROVE  LET daily      == Portfolio(Base, "net")
                          cumulative == CumulativeSeries(daily)
                      IN  /\ SumFunction([p \in Periods |-> PeriodReturn(daily, p)])
                               = ReturnOf(daily)
                          /\ \A p \in Periods :
                               MaxDrawdown(PeriodCurve(cumulative, p)) >= MaxDrawdown(cumulative)
    BY Zenon DEF PeriodsAgreeWithTheTotal
  <2>1. IsLegData(Base) /\ "net" \in Keys
    <3>1. "net" \in Keys
      BY DEF Keys
    <3> QED BY <3>1, GeneratedData, Zenon
  <2> DEFINE daily == Portfolio(Base, "net")
             cumulative == CumulativeSeries(daily)
  <2>2. /\ DOMAIN daily = Days /\ (\A d \in Days : daily[d] \in Int)
        /\ IsCurve(cumulative) /\ DOMAIN cumulative = Days
    BY <2>1, PortfolioIsCurve, Zenon
  <2> HIDE DEF daily
  <2>3. SumFunction([p \in Periods |-> PeriodReturn(daily, p)]) = ReturnOf(daily)
    BY <1>1, <2>2, Zenon
  <2>4. \A p \in Periods : MaxDrawdown(PeriodCurve(cumulative, p)) >= MaxDrawdown(cumulative)
    <3> HIDE DEF cumulative
    <3> QED BY <1>2, <2>2, Zenon
  <2> QED BY <2>3, <2>4, Zenon DEF daily
<1> QED BY <1>3, ReportInvariant, PTL

-----------------------------------------------------------------------------
(* The walk over the days that makes the drawdown table. *)

WalkBody(drawdown, g) ==
  [d \in 0..NDays |-> IF d = 0 THEN [start |-> None, found |-> {}]
                      ELSE Walked(drawdown, g[d - 1], d)]

LEMMA WalkIs ==
  ASSUME NEW drawdown
  PROVE  LET walk == EpisodeWalk(drawdown)
         IN  /\ walk[0] = [start |-> None, found |-> {}]
             /\ \A d \in Days : walk[d] = Walked(drawdown, walk[d - 1], d)
<1> DEFINE first == [start |-> None, found |-> {}]
           Right(g, d) == g[d] = IF d = 0 THEN first ELSE Walked(drawdown, g[d - 1], d)
           Q == {n \in Nat : \E g : \A d \in 0..n : Right(g, d)}
<1>1. EpisodeWalk(drawdown) = CHOOSE g : g = WalkBody(drawdown, g)
  BY DEF EpisodeWalk, WalkBody
<1> HIDE DEF first
<1>2. 0 \in Q
  <2> DEFINE g == [d \in 0..0 |-> first]
  <2>1. \A d \in 0..0 : Right(g, d)
    OBVIOUS
  <2> HIDE DEF g
  <2> QED BY <2>1
<1>3. ASSUME NEW n \in Q PROVE n + 1 \in Q
  <2>1. PICK g : \A d \in 0..n : Right(g, d)
    OBVIOUS
  <2> DEFINE h == [d \in 0..(n + 1) |-> IF d = n + 1 THEN Walked(drawdown, g[n], n + 1) ELSE g[d]]
  <2>2. h[n + 1] = Walked(drawdown, h[n], n + 1) /\ \A d \in 0..n : h[d] = g[d]
    OBVIOUS
  <2> HIDE DEF h
  <2>3. ASSUME NEW d \in 0..(n + 1) PROVE Right(h, d)
    <3>1. CASE d = n + 1
      <4>1. d # 0 /\ d - 1 = n
        BY <3>1
      <4> QED BY <2>2, <3>1, <4>1
    <3>2. CASE d \in 0..n
      <4>1. d = 0 \/ d - 1 \in 0..n
        BY <3>2
      <4> QED BY <2>1, <2>2, <3>2, <4>1, Zenon
    <3> QED BY <3>1, <3>2
  <2> HIDE DEF Right
  <2>4. n + 1 \in Nat
    OBVIOUS
  <2> QED BY <2>3, <2>4, Zenon
<1>4. PICK g : \A d \in 0..NDays : Right(g, d)
  <2>1. Q = Nat
    <3> HIDE DEF Q
    <3>1. Q \in SUBSET Nat
      BY Zenon DEF Q
    <3> QED BY <1>2, <1>3, <3>1, InductiveSet, Zenon
  <2>2. NDays \in Nat
    BY SizesAssumption
  <2> QED BY <2>1, <2>2, Zenon
<1> DEFINE h == [d \in 0..NDays |-> g[d]]
<1>5. h = WalkBody(drawdown, h)
  <2>1. ASSUME NEW d \in 0..NDays
        PROVE  g[d] = IF d = 0 THEN first ELSE Walked(drawdown, h[d - 1], d)
    <3>1. d = 0 \/ d - 1 \in 0..NDays
      BY SizesAssumption
    <3>2. d # 0 => h[d - 1] = g[d - 1]
      BY <3>1, Zenon
    <3> QED BY <1>4, <3>2, Zenon
  <2> QED BY <2>1, Zenon DEF WalkBody, first
<1> DEFINE walk == EpisodeWalk(drawdown)
<1>6. walk = WalkBody(drawdown, walk)
  <2> HIDE DEF h
  <2> QED BY <1>1, <1>5, Zenon
<1> HIDE DEF walk, h
<1>7. \A d \in Days : d # 0 /\ d \in 0..NDays
  BY SizesAssumption DEF Days
<1>8. 0 \in 0..NDays
  BY SizesAssumption
<1>9. \A d \in 0..NDays : WalkBody(drawdown, walk)[d] = IF d = 0 THEN first ELSE Walked(drawdown, walk[d - 1], d)
  BY Zenon DEF WalkBody, first
<1> QED BY <1>6, <1>7, <1>8, <1>9, Zenon DEF walk, first

\* The drawdowns of a curve over the run: none on its first day.
AreDrawdowns(dd) ==
  /\ \A d \in Days : dd[d] \in Int /\ dd[d] <= 0
  /\ dd[1] = 0

\* From a peak, under water, to a recovery or the end of the run.
IsEpisode(dd, e) ==
  /\ e = Episode(dd, e.start, e.end)
  /\ e.start \in Days /\ e.end \in Days /\ e.start < e.end /\ dd[e.start] = 0
  /\ \A x \in Days : e.start < x /\ x < e.end => dd[x] < 0
  /\ dd[e.end] = 0 \/ e.end = NDays

\* The walk up to a day: the episodes found, and the one that is open.
WalkIsRight(dd, w, date) ==
  /\ \A e \in w.found : IsEpisode(dd, e)
  /\ \A x \in Days : x <= date /\ dd[x] < 0 =>
       \/ \E e \in w.found : e.start < x /\ x <= e.end
       \/ w.start # None /\ w.start < x
  /\ w.start # None =>
       /\ w.start \in Days /\ w.start < date /\ dd[w.start] = 0
       /\ \A x \in Days : w.start < x /\ x <= date => dd[x] < 0
  /\ w.start = None => date = 0 \/ dd[date] = 0

LEMMA NewEpisode ==
  ASSUME NEW dd, NEW start \in Days, NEW end \in Days, start < end, dd[start] = 0,
         \A x \in Days : start < x /\ x < end => dd[x] < 0, dd[end] = 0 \/ end = NDays
  PROVE  /\ IsEpisode(dd, Episode(dd, start, end))
         /\ Episode(dd, start, end).start = start
         /\ Episode(dd, start, end).end = end
<1> DEFINE e == Episode(dd, start, end)
<1>1. e.start = start /\ e.end = end
  BY DEF Episode
<1>2. e = Episode(dd, e.start, e.end)
  BY <1>1, Zenon
<1> HIDE DEF e
<1>3. IsEpisode(dd, e)
  BY <1>1, <1>2, Zenon DEF IsEpisode
<1> QED BY <1>1, <1>3, Zenon DEF e

LEMMA WalkedIsRight ==
  ASSUME NEW dd, AreDrawdowns(dd), NEW w, NEW d \in Days, WalkIsRight(dd, w, d - 1)
  PROVE  WalkIsRight(dd, Walked(dd, w, d), d)
<1>1. d \in Int /\ d >= 1 /\ dd[d] \in Int /\ dd[d] <= 0 /\ (d # 1 => d - 1 \in Days) /\ Days \subseteq Int
  BY SizesAssumption DEF AreDrawdowns, Days
<1>2. \A x \in Days : x <= d <=> x <= d - 1 \/ x = d
  BY <1>1
<1>3. CASE dd[d] < 0 /\ w.start = None
  <2> DEFINE new == [start |-> Max({d - 1, 1}), found |-> w.found]
  <2>1. Walked(dd, w, d) = new
    BY <1>3, Zenon DEF Walked
  <2>2. d # 1
    BY <1>3, DaysAreFinite DEF AreDrawdowns
  <2>3. Max({d - 1, 1}) = d - 1
    <3> DEFINE S == {d - 1, 1}
    <3>1. d - 1 >= 1 /\ S \subseteq Int /\ d \in Int
      BY <1>1, <2>2
    <3>2. Max(S) \in S /\ \A x \in S : x <= Max(S)
      <4>1. \A x \in S : x <= d
        BY <3>1
      <4>2. S # {}
        OBVIOUS
      <4> HIDE DEF S
      <4> QED BY <3>1, <4>1, <4>2, GreatestInteger
    <3> QED BY <3>1, <3>2
  <2>4. new.start = d - 1 /\ new.found = w.found
    BY <2>3
  <2>5. d - 1 # None /\ dd[d - 1] = 0 /\ d - 1 \in Days /\ d - 1 < d
    BY <1>1, <1>3, <2>2 DEF WalkIsRight, None
  <2>6. \A x \in Days : d - 1 < x /\ x <= d => x = d
    BY <1>1
  <2> HIDE DEF new
  <2>7. \A x \in Days : x <= d /\ dd[x] < 0 =>
           \/ \E e \in new.found : e.start < x /\ x <= e.end
           \/ new.start # None /\ new.start < x
    BY <1>2, <1>3, <2>4, <2>5, Zenon DEF WalkIsRight
  <2> QED BY <1>3, <2>1, <2>4, <2>5, <2>6, <2>7, Zenon DEF WalkIsRight
<1>4. CASE dd[d] >= 0 /\ w.start # None
  <2> DEFINE ended == Episode(dd, w.start, d)
             new == [start |-> None, found |-> w.found \cup {ended}]
  <2>1. Walked(dd, w, d) = new
    <3>1. ~(dd[d] < 0)
      BY <1>1, <1>4
    <3> QED BY <1>4, <3>1, Zenon DEF Walked
  <2>2. new.start = None /\ new.found = w.found \cup {ended}
    OBVIOUS
  <2>3. dd[d] = 0 /\ w.start < d /\ \A x \in Days : x < d => x <= d - 1
    <3>1. w.start < d - 1 /\ w.start \in Days
      BY <1>4, Zenon DEF WalkIsRight
    <3>2. \A a \in Int : a < d - 1 => a < d
      BY <1>1
    <3>3. \A x \in Days : x < d => x <= d - 1
      BY <1>1
    <3>4. dd[d] = 0
      BY <1>1, <1>4
    <3> QED BY <1>1, <3>1, <3>2, <3>3, <3>4, Zenon
  <2>4. IsEpisode(dd, ended) /\ ended.start = w.start /\ ended.end = d
    <3>1. w.start \in Days /\ dd[w.start] = 0 /\ \A x \in Days : w.start < x /\ x < d => dd[x] < 0
      BY <1>4, <2>3, Zenon DEF WalkIsRight
    <3> QED BY <2>3, <3>1, NewEpisode
  <2> HIDE DEF new, ended
  <2>5. ASSUME NEW x \in Days, x <= d, dd[x] < 0
        PROVE  \E e \in new.found : e.start < x /\ x <= e.end
    <3>1. x <= d - 1
      BY <1>2, <2>3, <2>5
    <3>2. (\E e \in w.found : e.start < x /\ x <= e.end) \/ w.start < x
      BY <2>5, <3>1, Zenon DEF WalkIsRight
    <3> QED BY <2>2, <2>4, <2>5, <3>2, Zenon
  <2>6. \A e \in new.found : IsEpisode(dd, e)
    BY <2>2, <2>4, Zenon DEF WalkIsRight
  <2> QED BY <2>1, <2>2, <2>3, <2>5, <2>6, Zenon DEF WalkIsRight
<1>5. CASE dd[d] < 0 /\ w.start # None
  <2>1. Walked(dd, w, d) = w
    <3>1. ~(dd[d] >= 0)
      BY <1>1, <1>5
    <3> QED BY <1>5, <3>1, Zenon DEF Walked
  <2>2. w.start \in Days /\ w.start < d
    <3>1. w.start \in Days /\ w.start < d - 1
      BY <1>5, Zenon DEF WalkIsRight
    <3>2. \A a \in Int : a < d - 1 => a < d
      BY <1>1
    <3> QED BY <1>1, <3>1, <3>2, Zenon
  <2> QED BY <1>2, <1>5, <2>1, <2>2, Zenon DEF WalkIsRight
<1>6. CASE dd[d] >= 0 /\ w.start = None
  <2>1. Walked(dd, w, d) = w
    <3>1. ~(dd[d] < 0)
      BY <1>1, <1>6
    <3> QED BY <1>6, <3>1, Zenon DEF Walked
  <2>2. dd[d] = 0 /\ ~(dd[d] < 0)
    BY <1>1, <1>6
  <2> QED BY <1>2, <1>6, <2>1, <2>2, Zenon DEF WalkIsRight
<1> QED BY <1>1, <1>3, <1>4, <1>5, <1>6

\* The table has the episodes, and every day under water is in one of them.
LEMMA TableIs ==
  ASSUME NEW dd, AreDrawdowns(dd)
  PROVE  /\ \A e \in Episodes(dd) : IsEpisode(dd, e)
         /\ \A x \in Days : dd[x] < 0 => \E e \in Episodes(dd) : e.start < x /\ x <= e.end
<1> DEFINE walk == EpisodeWalk(dd)
           Q == {n \in Nat : n \in 0..NDays => WalkIsRight(dd, walk[n], n)}
<1>1. walk[0] = [start |-> None, found |-> {}] /\ \A d \in Days : walk[d] = Walked(dd, walk[d - 1], d)
  BY WalkIs, Zenon
<1> HIDE DEF walk
<1>2. 0 \in Q
  <2>1. walk[0].start = None /\ walk[0].found = {}
    BY <1>1
  <2>2. \A x \in Days : ~(x <= 0)
    BY DEF Days
  <2>3. WalkIsRight(dd, walk[0], 0)
    BY <2>1, <2>2, Zenon DEF WalkIsRight
  <2> QED BY <2>3
<1>3. ASSUME NEW n \in Q PROVE n + 1 \in Q
  <2>1. n + 1 \in Nat /\ (n + 1) - 1 = n /\ (n + 1 \in 0..NDays => n \in 0..NDays /\ n + 1 \in Days)
    BY SizesAssumption DEF Days
  <2>2. ASSUME n + 1 \in 0..NDays PROVE WalkIsRight(dd, walk[n + 1], n + 1)
    <3>1. WalkIsRight(dd, walk[n], n) /\ n + 1 \in Days
      BY <2>1, <2>2, Zenon
    <3>2. walk[n + 1] = Walked(dd, walk[n], n + 1)
      BY <1>1, <2>1, <3>1
    <3> DEFINE d == n + 1
    <3>3. WalkIsRight(dd, walk[n], d - 1) /\ d \in Days
      BY <2>1, <3>1
    <3> HIDE DEF d
    <3>4. WalkIsRight(dd, Walked(dd, walk[n], d), d)
      BY <3>3, WalkedIsRight, Zenon
    <3> QED BY <3>2, <3>4, Zenon DEF d
  <2> QED BY <2>1, <2>2, Zenon
<1>4. WalkIsRight(dd, walk[NDays], NDays)
  <2>1. Q = Nat
    <3> HIDE DEF Q
    <3>1. Q \in SUBSET Nat
      BY Zenon DEF Q
    <3> QED BY <1>2, <1>3, <3>1, InductiveSet, Zenon
  <2>2. NDays \in Nat /\ NDays \in 0..NDays
    BY SizesAssumption
  <2> QED BY <2>1, <2>2, Zenon
<1> DEFINE last == walk[NDays]
           open == Episode(dd, last.start, NDays)
<1>5. Episodes(dd) = IF last.start = None THEN last.found ELSE last.found \cup {open}
  BY Zenon DEF Episodes, walk
<1>6. NDays \in Days /\ NDays \in Int /\ \A x \in Days : x <= NDays /\ x \in Int
  BY SizesAssumption DEF Days
<1> HIDE DEF last
<1>7. WalkIsRight(dd, last, NDays)
  BY <1>4, Zenon DEF last
<1>8. CASE last.start = None
  <2>1. Episodes(dd) = last.found
    BY <1>5, <1>8, Zenon
  <2> QED BY <1>6, <1>7, <1>8, <2>1, Zenon DEF WalkIsRight
<1>9. CASE last.start # None
  <2>1. Episodes(dd) = last.found \cup {open}
    BY <1>5, <1>9, Zenon
  <2>2. last.start \in Days /\ last.start < NDays /\ dd[last.start] = 0
          /\ \A x \in Days : last.start < x /\ x <= NDays => dd[x] < 0
    BY <1>7, <1>9, Zenon DEF WalkIsRight
  <2>3. \A x \in Days : last.start < x /\ x < NDays => dd[x] < 0
    BY <1>6, <2>2, Zenon
  <2>4. IsEpisode(dd, open) /\ open.start = last.start /\ open.end = NDays
    <3>1. NDays \in Days /\ (dd[NDays] = 0 \/ NDays = NDays)
      BY <1>6, Zenon
    <3> QED BY <2>2, <2>3, <3>1, NewEpisode, Zenon
  <2> HIDE DEF open
  <2> QED BY <1>6, <1>7, <2>1, <2>4, Zenon DEF WalkIsRight
<1> QED BY <1>8, <1>9

-----------------------------------------------------------------------------
\* The days of an episode that are under water.
LEMMA InnerDays ==
  ASSUME NEW dd, AreDrawdowns(dd), NEW e, IsEpisode(dd, e)
  PROVE  {d \in e.start..e.end : dd[d] < 0}
           = (e.start + 1)..(IF dd[e.end] = 0 THEN e.end - 1 ELSE NDays)
<1> DEFINE a == e.start
           b == e.end
<1>1. /\ a \in Days /\ b \in Days /\ a < b /\ dd[a] = 0 /\ (dd[b] = 0 \/ b = NDays)
      /\ \A x \in Days : a < x /\ x < b => dd[x] < 0
  BY Zenon DEF IsEpisode
<1>2. \A x : x \in a..b => x \in Days
  BY <1>1, SizesAssumption DEF Days
<1> HIDE DEF a, b
<1>3. a \in Int /\ b \in Int /\ NDays \in Int
  BY <1>1, DaysAreFinite, Zenon
<1>4. CASE dd[b] = 0
  <2>1. ASSUME NEW d \in a..b PROVE dd[d] < 0 <=> d \in (a + 1)..(b - 1)
    <3>1. d \in Days /\ d \in Int /\ a <= d /\ d <= b
      BY <1>2, <1>3
    <3>2. CASE d = a \/ d = b
      <4>1. dd[d] = 0
        BY <1>1, <1>4, <3>2, Zenon
      <4> QED BY <1>3, <3>2, <4>1
    <3>3. CASE a < d /\ d < b
      <4>1. dd[d] < 0
        BY <1>1, <3>1, <3>3, Zenon
      <4> QED BY <1>3, <3>1, <3>3, <4>1
    <3> QED BY <1>3, <3>1, <3>2, <3>3
  <2>2. (a + 1)..(b - 1) \subseteq a..b
    BY <1>3
  <2>3. {d \in a..b : dd[d] < 0} = (a + 1)..(b - 1)
    BY <2>1, <2>2, Zenon
  <2> QED BY <1>4, <2>3, Zenon DEF a, b
<1>5. CASE dd[b] # 0
  <2>1. b = NDays /\ dd[b] < 0
    BY <1>1, <1>5 DEF AreDrawdowns
  <2>2. ASSUME NEW d \in a..b PROVE dd[d] < 0 <=> d \in (a + 1)..b
    <3>1. d \in Days /\ d \in Int /\ a <= d /\ d <= b
      BY <1>2, <1>3
    <3>2. CASE d = a
      <4>1. dd[d] = 0
        BY <1>1, <3>2, Zenon
      <4> QED BY <1>3, <3>2, <4>1
    <3>3. CASE a < d
      <4>1. dd[d] < 0
        <5>1. d = b \/ d < b
          BY <1>3, <3>1
        <5> QED BY <1>1, <2>1, <3>1, <3>3, <5>1, Zenon
      <4> QED BY <1>3, <3>1, <3>3, <4>1
    <3> QED BY <1>3, <3>1, <3>2, <3>3
  <2>3. (a + 1)..b \subseteq a..b
    BY <1>3
  <2>4. {d \in a..b : dd[d] < 0} = (a + 1)..b
    BY <2>2, <2>3, Zenon
  <2> QED BY <1>5, <2>1, <2>4, Zenon DEF a, b
<1> QED BY <1>4, <1>5

\* Two episodes that share a day under water are one.
LEMMA EpisodesAreApart ==
  ASSUME NEW dd, AreDrawdowns(dd), NEW e, NEW f, IsEpisode(dd, e), IsEpisode(dd, f),
         NEW x \in Days, dd[x] < 0, x \in e.start..e.end, x \in f.start..f.end
  PROVE  e = f
<1>1. ASSUME NEW u, NEW v, IsEpisode(dd, u), IsEpisode(dd, v),
             x \in u.start..u.end, x \in v.start..v.end
      PROVE  ~(u.start < v.start) /\ ~(u.end < v.end)
  <2> DEFINE a == u.start
             b == u.end
             c == v.start
             d == v.end
  <2>1. /\ a \in Days /\ b \in Days /\ c \in Days /\ d \in Days
        /\ dd[a] = 0 /\ dd[c] = 0 /\ (dd[b] = 0 \/ b = NDays)
        /\ \A y \in Days : a < y /\ y < b => dd[y] < 0
        /\ \A y \in Days : c < y /\ y < d => dd[y] < 0
    BY <1>1, Zenon DEF IsEpisode
  <2> HIDE DEF a, b, c, d
  <2>2. a \in Int /\ b \in Int /\ c \in Int /\ d \in Int /\ x \in Int /\ d <= NDays
    BY <2>1, SizesAssumption DEF Days
  <2>3. a <= x /\ x <= b /\ c <= x /\ x <= d
    BY <1>1, <2>2 DEF a, b, c, d
  <2>4. a # x /\ c # x
    BY <2>1
  <2>5. ~(0 < 0)
    OBVIOUS
  <2>6. ASSUME a < c PROVE FALSE
    <3>1. c < b
      BY <2>2, <2>3, <2>4
    <3> QED BY <2>1, <2>5, <2>6, <3>1, Zenon
  <2>7. ASSUME b < d PROVE FALSE
    <3>1. dd[b] = 0
      BY <2>1, <2>2, <2>7, SizesAssumption
    <3>2. x # b
      BY <2>5, <3>1, Zenon
    <3>3. c < b
      BY <2>2, <2>3, <3>2
    <3> QED BY <2>1, <2>5, <2>7, <3>1, <3>3, Zenon
  <2> QED BY <2>6, <2>7, Zenon DEF a, b, c, d
<1>2. e.start \in Int /\ f.start \in Int /\ e.end \in Int /\ f.end \in Int
  BY DaysAreFinite, Zenon DEF IsEpisode
<1>3. ~(e.start < f.start) /\ ~(f.start < e.start) /\ ~(e.end < f.end) /\ ~(f.end < e.end)
  BY <1>1, Zenon
<1>4. e.start = f.start /\ e.end = f.end
  BY <1>2, <1>3
<1> QED BY <1>4, Zenon DEF IsEpisode

\* The drawdown of an episode is that of one of its days, and of none less.
LEMMA EpisodeDrawdown ==
  ASSUME NEW dd, AreDrawdowns(dd), NEW e, IsEpisode(dd, e)
  PROVE  /\ \E x \in Days : e.drawdown = dd[x]
         /\ \A x \in e.start..e.end : e.drawdown <= dd[x]
<1> DEFINE D == e.start..e.end
           S == {dd[d] : d \in D}
<1>1. e.start \in Days /\ e.end \in Days /\ e.start < e.end
  BY Zenon DEF IsEpisode
<1>2. D \subseteq Days /\ e.start \in D
  <2> DEFINE a == e.start
             b == e.end
  <2> HIDE DEF a, b
  <2>1. a \in Days /\ b \in Days /\ a < b
    BY <1>1 DEF a, b
  <2>2. a..b \subseteq Days /\ a \in a..b
    BY <2>1, SizesAssumption DEF Days
  <2> QED BY <2>2 DEF a, b
<1>3. e.drawdown = Min(S)
  <2>1. e = Episode(dd, e.start, e.end)
    BY Zenon DEF IsEpisode
  <2>2. Episode(dd, e.start, e.end).drawdown = Min(S)
    BY DEF Episode
  <2> HIDE DEF S
  <2> QED BY <2>1, <2>2, Zenon
<1> HIDE DEF D
<1>4. IsFiniteSet(S)
  BY <1>2, DaysAreFinite, FiniteImage
<1>5. S \subseteq Int /\ S # {}
  BY <1>2, Zenon DEF AreDrawdowns
<1>6. Min(S) \in S /\ \A x \in S : Min(S) <= x
  <2> HIDE DEF S
  <2> QED BY <1>4, <1>5, FiniteExtremes, Zenon
<1> QED BY <1>2, <1>3, <1>6, Zenon DEF D

LEMMA LeastIs ==
  ASSUME NEW S \in SUBSET Int, NEW m \in S, \A x \in S : m <= x
  PROVE  Min(S) = m
<1>1. Min(S) \in S /\ \A x \in S : Min(S) <= x
  BY LeastInteger
<1>2. Min(S) <= m /\ m <= Min(S) /\ Min(S) \in Int /\ m \in Int
  BY <1>1, Zenon
<1> QED BY <1>2

\* drawdown_table.py: the table has every day under water once, from a peak to a
\* recovery or the end, and its deepest episode is the maximum drawdown reported.
THEOREM DrawdownsAreExact == ReportSpec => []DrawdownTableIsExact
<1>1. ASSUME NEW c, IsCurve(c), DOMAIN c = Days
      PROVE  LET drawdown == Drawdown(c)
                 table    == Episodes(drawdown)
                 inner(e) == {d \in e.start..e.end : drawdown[d] < 0}
             IN  /\ {d \in Days : drawdown[d] < 0} = UNION {inner(e) : e \in table}
                 /\ \A e \in table :
                      /\ drawdown[e.start] = 0
                      /\ inner(e) = (e.start + 1)..(IF drawdown[e.end] = 0 THEN e.end - 1 ELSE NDays)
                 /\ \A e, f \in table : e # f => inner(e) \cap inner(f) = {}
                 /\ Min({0} \cup {e.drawdown : e \in table}) = MaxDrawdown(c)
  <2> DEFINE dd == Drawdown(c)
             table == Episodes(dd)
             inner(e) == {d \in e.start..e.end : dd[d] < 0}
  <2>1. AreDrawdowns(dd)
    <3>1. \A d \in Days : dd[d] \in Int /\ dd[d] <= 0
      BY <1>1, DrawdownIs, Zenon
    <3>2. 1 \in Days /\ \A e \in Days : e <= 1 => e = 1
      BY SizesAssumption DEF Days
    <3>3. dd[1] = c[1] - c[1] /\ c[1] \in Int
      <4>1. \E e \in DOMAIN c : e <= 1 /\ dd[1] = c[1] - c[e]
        BY <1>1, <3>2, DrawdownIs, Zenon
      <4> QED BY <1>1, <3>2, <4>1, Zenon DEF IsCurve
    <3>4. dd[1] = 0
      <4> HIDE DEF dd
      <4> QED BY <3>3
    <3> QED BY <3>1, <3>4, Zenon DEF AreDrawdowns
  <2>2. /\ \E d \in Days : MaxDrawdown(c) = dd[d]
        /\ \A d \in Days : MaxDrawdown(c) <= dd[d]
    BY <1>1, MaxDrawdownIs, Zenon
  <2> HIDE DEF dd
  <2>3. /\ \A e \in table : IsEpisode(dd, e)
        /\ \A x \in Days : dd[x] < 0 => \E e \in table : e.start < x /\ x <= e.end
    BY <2>1, TableIs, Zenon
  <2> HIDE DEF table
  <2>4. \A e \in table : \A x : x \in inner(e) => x \in Days /\ dd[x] < 0
    <3> SUFFICES ASSUME NEW e \in table, NEW x \in e.start..e.end PROVE x \in Days
      OBVIOUS
    <3> DEFINE a == e.start
               b == e.end
    <3>1. a \in Days /\ b \in Days
      BY <2>3, Zenon DEF IsEpisode
    <3> HIDE DEF a, b
    <3>2. x \in a..b
      BY DEF a, b
    <3> QED BY <3>1, <3>2, SizesAssumption DEF Days
  <2>5. ASSUME NEW x \in Days, dd[x] < 0 PROVE \E e \in table : x \in inner(e)
    <3>1. PICK e \in table : e.start < x /\ x <= e.end
      BY <2>3, <2>5, Zenon
    <3> DEFINE a == e.start
               b == e.end
    <3>2. a \in Days /\ b \in Days
      BY <2>3, Zenon DEF IsEpisode
    <3> HIDE DEF a, b
    <3>3. a < x /\ x <= b
      BY <3>1 DEF a, b
    <3>4. x \in a..b
      BY <3>2, <3>3, SizesAssumption DEF Days
    <3> QED BY <2>5, <3>4, Zenon DEF a, b
  <2>6. {d \in Days : dd[d] < 0} = UNION {inner(e) : e \in table}
    <3> HIDE DEF inner
    <3> QED BY <2>4, <2>5
  <2>7. \A e \in table :
          /\ dd[e.start] = 0
          /\ inner(e) = (e.start + 1)..(IF dd[e.end] = 0 THEN e.end - 1 ELSE NDays)
    BY <2>1, <2>3, InnerDays, Zenon DEF IsEpisode
  <2>8. \A e, f \in table : e # f => inner(e) \cap inner(f) = {}
    <3> SUFFICES ASSUME NEW e \in table, NEW f \in table, NEW x \in inner(e), x \in inner(f)
                 PROVE  e = f
      BY Zenon
    <3>1. x \in Days /\ dd[x] < 0 /\ x \in e.start..e.end /\ x \in f.start..f.end
      BY <2>4, Zenon
    <3> QED BY <2>1, <2>3, <3>1, EpisodesAreApart, Zenon
  <2>9. Min({0} \cup {e.drawdown : e \in table}) = MaxDrawdown(c)
    <3> DEFINE S == {0} \cup {e.drawdown : e \in table}
               m == MaxDrawdown(c)
    <3> HIDE DEF m
    <3>1. m \in Int /\ m <= 0 /\ \A d \in Days : m <= dd[d] /\ dd[d] \in Int
      BY <2>1, <2>2, Zenon DEF m, AreDrawdowns
    <3>2. \A e \in table : m <= e.drawdown /\ e.drawdown \in Int
      BY <2>1, <2>3, <3>1, EpisodeDrawdown, Zenon
    <3>3. S \subseteq Int /\ \A x \in S : m <= x
      BY <3>1, <3>2
    <3>4. CASE m = 0
      <4>1. m \in S
        BY <3>4
      <4> HIDE DEF S
      <4> QED BY <3>3, <4>1, LeastIs, Zenon DEF m, S
    <3>5. CASE m < 0
      <4>1. PICK d \in Days : m = dd[d]
        BY <2>2, Zenon DEF m
      <4>2. PICK e \in table : d \in e.start..e.end
        BY <2>5, <3>5, <4>1, Zenon
      <4>3. e.drawdown <= m
        BY <2>1, <2>3, <4>1, <4>2, EpisodeDrawdown, Zenon
      <4>4. m = e.drawdown
        BY <3>1, <3>2, <4>3
      <4>5. m \in S
        BY <4>4
      <4> HIDE DEF S
      <4> QED BY <3>3, <4>5, LeastIs, Zenon DEF m, S
    <3> QED BY <3>1, <3>4, <3>5
  <2> QED BY <2>6, <2>7, <2>8, <2>9, Zenon DEF dd, table
<1>2. AccountInv /\ GeneratedIsRight => DrawdownTableIsExact
  <2> SUFFICES ASSUME AccountInv, GeneratedIsRight, Generated
               PROVE  LET cumulative == CumulativeSeries(Portfolio(Base, "net"))
                          drawdown   == Drawdown(cumulative)
                          table      == Episodes(drawdown)
                          inner(e)   == {d \in e.start..e.end : drawdown[d] < 0}
                      IN  /\ {d \in Days : drawdown[d] < 0} = UNION {inner(e) : e \in table}
                          /\ \A e \in table :
                               /\ drawdown[e.start] = 0
                               /\ inner(e) = (e.start + 1)
                                    ..(IF drawdown[e.end] = 0 THEN e.end - 1 ELSE NDays)
                          /\ \A e, f \in table : e # f => inner(e) \cap inner(f) = {}
                          /\ Min({0} \cup {e.drawdown : e \in table}) = MaxDrawdown(cumulative)
    BY Zenon DEF DrawdownTableIsExact
  <2> DEFINE cumulative == CumulativeSeries(Portfolio(Base, "net"))
  <2>1. IsCurve(cumulative) /\ DOMAIN cumulative = Days
    <3>1. "net" \in Keys
      BY DEF Keys
    <3> QED BY <3>1, GeneratedData, PortfolioIsCurve, Zenon
  <2> HIDE DEF cumulative
  <2> QED BY <1>1, <2>1, Zenon DEF cumulative
<1> QED BY <1>2, ReportInvariant, PTL
=============================================================================
