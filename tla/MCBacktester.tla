---------------------------- MODULE MCBacktester ----------------------------
(***************************************************************************)
(* Small instances of Backtester for TLC.                                  *)
(***************************************************************************)
EXTENDS BacktesterProperties

CONSTANTS a, b

Leg(k, n) == [ticker |-> k, size |-> n]
Long   == <<Leg(a, 2)>>
Short  == <<Leg(b, -1)>>
Spread == <<Leg(a, 1), Leg(b, -2)>>
Ladder == <<Leg(a, 1), Leg(a, 2)>>
Empty  == <<Leg(b, 0)>>

\* One single-leg long, one trade of a long and a short.
BasicStructures == {Long}
BasicTrades == {<<Long>>, <<Long, Short>>}

\* A spread, a short beside a long, and content the converter refuses.
WideStructures == {Spread, Empty}
WideTrades == {<<Spread>>, <<Long, Short>>}

\* Two legs on one ticker, beside a single-leg short.
LadderStructures == {Ladder}
LadderTrades == {<<Ladder>>, <<Long, Short>>}
=============================================================================
