------------------------------ MODULE Calendar ------------------------------
(***************************************************************************)
(* CalendarProvider of backtester/calendar_provider.py.  A day is an       *)
(* integer, the number of days from a Monday, so that arithmetic on days   *)
(* is date arithmetic; a calendar h gives each holiday code the set of its *)
(* holidays.  A code without a holiday file, which raises, is outside.     *)
(***************************************************************************)
EXTENDS Integers, FiniteSetsExt

CONSTANT MaxLookahead  \* _MAX_LOOKAHEAD_DAYS

ASSUME LookaheadAssumption == MaxLookahead \in Nat

ALL_CODE == "all"
NoDay == 0

IsBusinessDay(d) == d % 7 < 5

\* The intersection of the holiday sets of some codes.
CommonHolidays(h, codes) ==
  {d \in UNION {h[c] : c \in codes} : \A c \in codes : d \in h[c]}

\* trading_days: the days of the simulation, between two days included.
TradingDays(h, codes, start, end) ==
  IF ALL_CODE \in codes THEN start..end
  ELSE {d \in start..end : IsBusinessDay(d)} \ CommonHolidays(h, codes)

IsValidDay(h, code, d) == code = ALL_CODE \/ (IsBusinessDay(d) /\ d \notin h[code])

\* next_valid_day and prev_valid_day raise when there is no valid day strictly
\* after, or before, a day within the lookahead.
NextRaises(h, code, d) ==
  code # ALL_CODE /\ \A e \in (d + 1)..(d + MaxLookahead) : ~IsValidDay(h, code, e)
PrevRaises(h, code, d) ==
  code # ALL_CODE /\ \A e \in (d - MaxLookahead)..(d - 1) : ~IsValidDay(h, code, e)

\* The day they return; NoDay stands for nothing when they raise.
NextValidDay(h, code, d) ==
  IF code = ALL_CODE THEN d + 1
  ELSE LET found == {e \in (d + 1)..(d + MaxLookahead) : IsValidDay(h, code, e)}
       IN  IF found = {} THEN NoDay ELSE Min(found)

\* Mutant of PrevValidDay: the day itself counts.
PrevValidDay_Inclusive(h, code, d) ==
  IF code = ALL_CODE THEN d
  ELSE LET found == {e \in (d - MaxLookahead)..d : IsValidDay(h, code, e)}
       IN  IF found = {} THEN NoDay ELSE Max(found)

PrevValidDay(h, code, d) ==
  IF code = ALL_CODE THEN d - 1
  ELSE LET found == {e \in (d - MaxLookahead)..(d - 1) : IsValidDay(h, code, e)}
       IN  IF found = {} THEN NoDay ELSE Max(found)
=============================================================================
