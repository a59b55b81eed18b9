------------------------------- MODULE Costs -------------------------------
(***************************************************************************)
(* The transaction costs of a finished run (cost_model.py), read from the  *)
(* event logs of its structures.                                           *)
(***************************************************************************)
EXTENDS LegAccounting, FiniteSetsExt

CONSTANT Fee   \* bps / 10000 of the EquityCostCalculator, as a whole number

ASSUME FeeAssumption == Fee \in Nat

\* EquityCostCalculator.compute_cost: the notional transacted times the fee.
TransactionCost(event, i) ==
  Times(Fee * event.leg_size_changes[i], event.cost_exposures[i])

\* A sum of floats.
TotalOfFloats(f) ==
  IF \E x \in DOMAIN f : f[x].nan THEN NaN
  ELSE Num(SumFunction([x \in DOMAIN f |-> f[x].value]))

\* compute_costs, for one leg and date: the events that carry an exposure of the
\* leg, added up.
CostOn(s, i, date) ==
  LET log     == structures[s].event_log
      charged == {e \in DOMAIN log : log[e].date = date /\ i \in DOMAIN log[e].cost_exposures}
  IN  TotalOfFloats([e \in charged |-> TransactionCost(log[e], i)])
=============================================================================
