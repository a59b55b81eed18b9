---------------------- MODULE LegAccountingProperties ----------------------
(***************************************************************************)
(* What the daily series of the legs must guarantee, while the run makes   *)
(* them and when Summary reads them.                                       *)
(***************************************************************************)
EXTENDS Summary

Floats == [nan : BOOLEAN, value : Int]
LegStates ==
  [ticker : Tickers, cost_leg : BOOLEAN, current_size : Int, current_price : Floats,
   daily_total_pnl : Seq(Floats), pricing_inputs : Nat, valuation_data : Nat,
   paid : Floats]
EventTypes == {"open", "partial add", "partial unwind", "full close"}
IsEvent(event) ==
  /\ event.event_type \in EventTypes /\ event.date \in Days
  /\ event.leg_size_changes \in Seq(Int)
  /\ \A i \in DOMAIN event.cost_exposures :
       i \in DOMAIN event.leg_size_changes /\ event.cost_exposures[i] \in Floats

\* Type invariant.
TypeOK ==
  /\ phase \in {"mark", "trade", "done"} /\ day \in Days
  /\ \A k \in DOMAIN quote : k \in Tickers /\ quote[k] \in Closes
  /\ DOMAIN structures = 1..Len(structures)
  /\ \A s \in DOMAIN structures :
       /\ structures[s].trade_id \in DOMAIN trades
       /\ structures[s].original_entry_date \in Days
       /\ structures[s].closed \in Days \cup {None}
       /\ structures[s].legs \in Seq(LegStates)
       /\ \A e \in DOMAIN structures[s].event_log : IsEvent(structures[s].event_log[e])
  /\ trades \in Seq([entry_date : Days, exit_date : Days \cup {None}])
  /\ modified \subseteq DOMAIN structures

EveryLeg(P(_, _)) ==
  \A s \in DOMAIN structures : \A i \in DOMAIN structures[s].legs :
    P(structures[s], structures[s].legs[i])

TotalPnl(leg) ==
  SumFunction([d \in DOMAIN leg.daily_total_pnl |-> Filled(leg.daily_total_pnl[d])])

\* The P&L a leg has shown is what its position is worth less what its fills
\* paid, at every moment of the day, over gaps, adds and unwinds: mode "any",
\* "the true economic P&L is preserved" (design_notes.md:979).
PnlExplainsFills ==
  EveryLeg(LAMBDA st, leg :
    Minus(Times(leg.current_size, leg.current_price), leg.paid) = Num(TotalPnl(leg)))

\* A leg has one P&L entry for each day it is alive: from the day its structure
\* opened to the day it closed, both included, or to the last day marked.
PnlSpansTheLife ==
  EveryLeg(LAMBDA st, leg :
    LET last == IF st.closed # None THEN st.closed
                ELSE IF phase = "mark" THEN day - 1 ELSE day
    IN  Len(leg.daily_total_pnl) = last - st.original_entry_date + 1)

\* The pricing inputs stay aligned with the P&L, whichever day the pricer
\* first gives a key and whichever days it leaves out.
InputsAligned ==
  EveryLeg(LAMBDA st, leg : leg.pricing_inputs \in {0, Len(leg.daily_total_pnl)})

\* The valuation data of every leg end the day aligned with its P&L
\* ("to keep them aligned with daily_total_pnl", design_notes.md:207).
ValuationAligned ==
  phase \in {"mark", "done"} =>
    EveryLeg(LAMBDA st, leg : leg.valuation_data \in {0, Len(leg.daily_total_pnl)})

\* The same, for what is still open.
ValuationAlignedWhileOpen ==
  phase \in {"mark", "done"} =>
    EveryLeg(LAMBDA st, leg :
      st.closed = None => leg.valuation_data \in {0, Len(leg.daily_total_pnl)})

\* Summary reads the P&L of every structure of a finished run: its assertion
\* that a leg has one entry per day up to its trade's exit.
SummaryReadsEveryStructure ==
  phase = "done" => \A s \in DOMAIN structures : PnlExtracts(s)

\* It does for the structures that close with their trade.
SummaryReadsTradesThatCloseAtOnce ==
  phase = "done" =>
    \A s \in DOMAIN structures :
      structures[s].closed = trades[structures[s].trade_id].exit_date => PnlExtracts(s)

\* Mode "all" defers P&L and loses none, unless the gap reaches the last day:
\* a leg's adjusted series adds up to what its fills explain, and shows nothing
\* on a day on which a leg of its trade has no price.
DeferralKeepsTotals ==
  phase = "done" /\ Extracts =>
    LET data == AdjustForMissingLegs(ExtractLegData)
    IN  \A id \in LegIds :
          LET leg    == structures[id[1]].legs[id[2]]
              masked == MaskedDays(ExtractLegData, data[id].trade_id)
          IN  /\ NDays \notin masked =>
                   Num(RunningTotal(data[id].gross, NDays))
                     = Minus(Times(leg.current_size, leg.current_price), leg.paid)
              /\ \A d \in masked : data[id].gross[d] = Num(0)
=============================================================================
