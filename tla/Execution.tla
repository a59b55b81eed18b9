----------------------------- MODULE Execution -----------------------------
(***************************************************************************)
(* SimulatedExecution of backtester/execution.py: it probes every order of *)
(* a group against the LIVE book (the same shape as the T-1 book of module *)
(* OrderAssembly) and the tickers that have a close on the day, and fills  *)
(* all of them or blocks all of them.                                      *)
(***************************************************************************)
EXTENDS OrderAssembly

\* _match_leg: the position of the first leg of a structure on a ticker.
MatchLeg(legs, ticker) ==
  CHOOSE i \in DOMAIN legs :
    /\ legs[i].ticker = ticker
    /\ \A j \in DOMAIN legs : legs[j].ticker = ticker => i <= j

HasTicker(legs, ticker) == \E i \in DOMAIN legs : legs[i].ticker = ticker

\* _probe_target's lookups: trade, then structure, then each leg.
TargetIsLive(order, live) ==
  /\ order.structure_id \in DOMAIN live
  /\ live[order.structure_id].trade_id = order.trade_id
  /\ \A i \in DOMAIN order.legs :
       HasTicker(live[order.structure_id].legs, order.legs[i].ticker)

Priced(order, priced) == \A i \in DOMAIN order.legs : order.legs[i].ticker \in priced

\* _probe_new and _probe_target.
Available(order, live, priced) ==
  /\ order.structure_id # None => TargetIsLive(order, live)
  /\ Priced(order, priced)

AllAvailable(orders, live, priced) ==
  \A k \in DOMAIN orders : Available(orders[k], live, priced)

\* Mutant of Report: every order is filled or blocked on its own.
Report_PerOrder(k, orders, live, priced) ==
  LET own == Available(orders[k], live, priced)
  IN  [outcome      |-> IF own THEN "FILLED" ELSE "BLOCKED",
       probe_status |-> IF own THEN "FILLED" ELSE "BLOCKED",
       blocked_code |-> IF own THEN "None" ELSE "DATA_MISSING",
       fills        |-> IF own THEN orders[k].legs ELSE <<>>]

\* execute_group's report on one order: the group's outcome, what the order's
\* own probe said, why it was blocked, and the signed fills.
Report(k, orders, live, priced) ==
  LET filled == AllAvailable(orders, live, priced)
      own    == Available(orders[k], live, priced)
  IN  [outcome      |-> IF filled THEN "FILLED" ELSE "BLOCKED",
       probe_status |-> IF own THEN "FILLED" ELSE "BLOCKED",
       blocked_code |-> IF filled THEN "None"
                        ELSE IF own THEN "GROUP_ATOMICITY" ELSE "DATA_MISSING",
       fills        |-> IF filled THEN orders[k].legs ELSE <<>>]
=============================================================================
