----------------------------- MODULE MCReports -----------------------------
(***************************************************************************)
(* Small instances of Reports for TLC: b is quoted in the other currency.  *)
(***************************************************************************)
EXTENDS ReportProperties

CONSTANTS a, b

Leg(k, n, cost_leg) == [ticker |-> k, size |-> n, cost_leg |-> cost_leg]
LongAndSpread == {<<Leg(b, 2, FALSE)>>, <<Leg(a, 1, TRUE), Leg(b, -1, FALSE)>>}
Shorts == {<<Leg(a, -1, FALSE)>>}

TwoPrices == {Num(1), Num(3)}

\* No series for the pair, and rates that move, with a gap in the middle or at
\* both ends.
NoSeries == <<>>
SomeFactors == {NoSeries, <<Num(2), NaN, Num(1)>>, <<NaN, Num(2), NaN>>}
TwoPeriods == <<1, 1, 2>>
=============================================================================
