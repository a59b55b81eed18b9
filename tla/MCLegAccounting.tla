-------------------------- MODULE MCLegAccounting --------------------------
(***************************************************************************)
(* Small instances of LegAccounting for TLC.                               *)
(***************************************************************************)
EXTENDS LegAccountingProperties

CONSTANTS a, b

Leg(k, n) == [ticker |-> k, size |-> n, cost_leg |-> FALSE]
LongAndSpread == {<<Leg(a, 2)>>, <<Leg(a, 1), Leg(b, -2)>>}

TwoPrices == {Num(1), Num(3)}
BlankCells == TwoPrices \cup {NaN}
=============================================================================
