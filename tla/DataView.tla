------------------------------ MODULE DataView ------------------------------
(***************************************************************************)
(* DataView of backtester/data_view.py: the market data a signal may read  *)
(* on loop day T, as operators of a feed f (ticker |-> its rows, a         *)
(* function from days to closes) and a calendar h.  Days stand for what is *)
(* read on them: an operator that finds nothing to read gives NoDay.       *)
(***************************************************************************)
EXTENDS Calendar

CONSTANTS
  ViewCode,     \* ticker_to_calendar_code; a ticker without a code is unmapped
  MaxStaleness  \* max_staleness_days

ASSUME StalenessAssumption == MaxStaleness \in Nat

\* Mutant of Cutoff: the view shows the loop day.
Cutoff_LoopDay(T) == T

\* The last day the view of loop day T may expose.
Cutoff(T) == T - 1

IsMapped(k) == k \in DOMAIN ViewCode

\* get_series: the days with a row, the end clamped to the cutoff, whatever
\* the calendar says of them.
GetSeries(f, k, T, start, end) ==
  {d \in DOMAIN f[k] : start <= d /\ d <= end /\ d <= Cutoff(T)}

\* _last_data_day_at_or_before_cutoff
LastDataDay(f, k, T) ==
  LET rows == {d \in DOMAIN f[k] : d <= Cutoff(T)}
  IN  IF rows = {} THEN NoDay ELSE Max(rows)

\* last_valid_day, and with it get_price and reference_price, raises when the
\* calendar finds no day.
LastValidDayRaises(h, k, T) == IsMapped(k) /\ PrevRaises(h, ViewCode[k], T)

\* last_valid_day: by the calendar when the ticker has one, by its data if not.
LastValidDay(f, h, k, T) ==
  IF IsMapped(k) THEN Min({PrevValidDay(h, ViewCode[k], T), Cutoff(T)})
  ELSE LastDataDay(f, k, T)

\* get_price raises on an as_of after the cutoff; otherwise it returns the row
\* of this day, if there is one and the ticker's market was open.
PriceRaises(T, asOf) == asOf > Cutoff(T)
PriceDay(f, h, k, asOf) ==
  IF asOf \in DOMAIN f[k] /\ (IsMapped(k) => IsValidDay(h, ViewCode[k], asOf))
  THEN asOf ELSE NoDay

\* Mutant of ReferenceDay: a gap on the last valid day is not bridged.
ReferenceDay_NoBridge(f, h, k, T) ==
  LET last == LastValidDay(f, h, k, T)
  IN  IF last \notin DOMAIN f[k] \/ Cutoff(T) - last > MaxStaleness THEN NoDay ELSE last

\* reference_price: the day whose close sizes an entry, at most MaxStaleness
\* days before the cutoff.
ReferenceDay(f, h, k, T) ==
  LET last == LastValidDay(f, h, k, T)
      day  == IF last \in DOMAIN f[k] THEN last ELSE LastDataDay(f, k, T)
  IN  IF day = NoDay \/ Cutoff(T) - day > MaxStaleness THEN NoDay ELSE day
=============================================================================
