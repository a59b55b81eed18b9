--------------------------- MODULE LegAccounting ---------------------------
(***************************************************************************)
(* The daily series of a leg (instruments.py, LegState): what marking to   *)
(* market, the commits of a fill and the risk pass of backtest_engine.py   *)
(* do to its price, size, P&L, pricing inputs and valuation data.          *)
(*                                                                         *)
(* The fills come from module Backtester: which groups get here, and that  *)
(* a structure is modified at most once a day and never on the day it      *)
(* opens, is checked there and a guard here.  Multipliers are 1; of the     *)
(* pricing inputs and the valuation data only the length of their lists is *)
(* kept (0: the key never appeared).                                       *)
(***************************************************************************)
EXTENDS Integers, Sequences

CONSTANTS
  Tickers,
  Closes,         \* the floats a close may be: Num(p), or NaN for a blank cell
  Contents,       \* content of a structure: sequences of [ticker, size, cost_leg]
  Amounts,        \* sizes of partial adds and partial unwinds
  Gives,          \* what a pricer may do: give its key or leave it out
  NDays,          \* bound: trading days of the run
  MaxStructures   \* bound: structures ever opened

ASSUME SizesAssumption ==
  /\ NDays \in Nat \ {0} /\ MaxStructures \in Nat
  /\ Amounts \subseteq Nat \ {0} /\ Gives \in SUBSET BOOLEAN \ {{}}
  /\ Closes \subseteq [nan : BOOLEAN, value : Int]
  /\ \A content \in Contents :
       content \in Seq([ticker : Tickers, size : Int \ {0}, cost_leg : BOOLEAN]) \ {<<>>}

VARIABLES
  phase,       \* "mark", "trade" or "done"
  day,
  quote,       \* ticker |-> close of the day; no row, no entry
  structures,  \* every structure ever opened, with its legs and event log
  trades,      \* every trade ever opened: [entry_date, exit_date]
  modified     \* structures added to or unwound today

vars == <<phase, day, quote, structures, trades, modified>>

None == 0
Days == 1..NDays

-----------------------------------------------------------------------------
(* Floats, as far as NaN matters. *)

Num(n) == [nan |-> FALSE, value |-> n]
NaN == [nan |-> TRUE, value |-> 0]
Plus(x, y)  == IF x.nan \/ y.nan THEN NaN ELSE Num(x.value + y.value)
Minus(x, y) == IF x.nan \/ y.nan THEN NaN ELSE Num(x.value - y.value)
Times(n, x) == IF x.nan THEN NaN ELSE Num(n * x.value)

-----------------------------------------------------------------------------
\* Mutant of IsOpen: every structure of the history is marked.
IsOpen_Ever(s) == TRUE

\* A structure is marked as long as it is active.
IsOpen(s) == structures[s].closed = None
OpenStructures == {s \in DOMAIN structures : IsOpen(s)}
StructuresOf(t) == {s \in DOMAIN structures : structures[s].trade_id = t}
TradeIsOpen(t) == trades[t].exit_date = None

\* Mutant of Recorded: a new key is not backfilled.
Recorded_NoBackfill(length, given, days) ==
  IF given \/ length # 0 THEN length + 1 ELSE 0

\* The length of a per-key list after a day on which the pricer did or did not
\* give the key: a new key is backfilled for the prior days of the P&L series,
\* a known key that is absent gets a NaN.
Recorded(length, given, days) ==
  IF given THEN (IF length = 0 THEN days - 1 ELSE length) + 1
  ELSE IF length = 0 THEN 0 ELSE length + 1

\* Mutant of Marked: a gap loses the last mark.
Marked_LosesMark(leg, closes, given) ==
  LET price == IF leg.ticker \in DOMAIN closes THEN closes[leg.ticker] ELSE NaN
  IN  [leg EXCEPT
         !.daily_total_pnl =
           Append(@, Times(leg.current_size, Minus(price, leg.current_price))),
         !.current_price   = price,
         !.pricing_inputs  = Recorded(@, given, Len(leg.daily_total_pnl) + 1)]

\* One leg in _compute_pnl_for_date.
Marked(leg, closes, given) ==
  LET priced == leg.ticker \in DOMAIN closes
      pnl    == IF priced
                THEN Times(leg.current_size, Minus(closes[leg.ticker], leg.current_price))
                ELSE NaN
  IN  [leg EXCEPT
         !.daily_total_pnl = Append(leg.daily_total_pnl, pnl),
         !.current_price   = IF priced THEN closes[leg.ticker] ELSE leg.current_price,
         !.pricing_inputs  = Recorded(leg.pricing_inputs, given,
                                      Len(leg.daily_total_pnl) + 1)]

\* One leg in _compute_risk_for_date.
Valued(leg, given) ==
  [leg EXCEPT !.valuation_data =
                Recorded(leg.valuation_data, given, Len(leg.daily_total_pnl))]

\* _resolve_and_price_leg; paid is a history variable of the model: the size
\* times the price of the fills, added up.
OpenedLeg(order, given) ==
  [ticker          |-> order.ticker,
   cost_leg        |-> order.cost_leg,
   current_size    |-> order.size,
   current_price   |-> quote[order.ticker],
   daily_total_pnl |-> <<Num(0)>>,
   pricing_inputs  |-> IF given THEN 1 ELSE 0,
   valuation_data  |-> 0,
   paid            |-> Times(order.size, quote[order.ticker])]

\* add_size and unwind move a leg by delta, filled at the day's close.
Moved(leg, delta) ==
  [leg EXCEPT !.current_size = leg.current_size + delta,
              !.paid = Plus(leg.paid, Times(delta, quote[leg.ticker]))]

\* write_cost_exposures: the close of the legs marked as bearing the cost, or of
\* the only leg of the structure.
CostExposures(legs) ==
  LET marked == {i \in DOMAIN legs : legs[i].cost_leg}
  IN  [i \in IF marked = {} /\ Len(legs) = 1 THEN {1} ELSE marked |->
         quote[legs[i].ticker]]

\* An entry of a structure's event log.  Openings and adds log the signed change
\* of a leg's size, unwinds the part that goes, with the sign of the position.
Event(event_type, legs, changes) ==
  [event_type |-> event_type, date |-> day, leg_size_changes |-> changes,
   cost_exposures |-> CostExposures(legs)]

\* The group fills: each of the legs has a price today.
Priced(legs) == \A i \in DOMAIN legs : legs[i].ticker \in DOMAIN quote

\* What a patch of today may modify.
Modifiable == {s \in OpenStructures : structures[s].original_entry_date < day} \ modified

-----------------------------------------------------------------------------
Init ==
  /\ phase = "mark" /\ day = 1 /\ quote = <<>>
  /\ structures = <<>> /\ trades = <<>> /\ modified = {}

\* _compute_pnl_for_date: the day's closes, before the signal runs.
MarkToMarket ==
  /\ phase = "mark"
  /\ \E priced \in SUBSET Tickers : quote' \in [priced -> Closes]
  /\ \E given \in Gives :
       structures' = [s \in DOMAIN structures |->
         IF IsOpen(s)
         THEN [structures[s] EXCEPT !.legs =
                 [i \in DOMAIN structures[s].legs |->
                    Marked(structures[s].legs[i], quote', given)]]
         ELSE structures[s]]
  /\ phase' = "trade"
  /\ UNCHANGED <<day, trades, modified>>

NewStructure(t, content) ==
  /\ phase = "trade"
  /\ Len(structures) < MaxStructures
  /\ Priced(content)
  /\ \E given \in Gives :
       structures' = Append(structures,
         [trade_id |-> t, original_entry_date |-> day, closed |-> None,
          legs |-> [i \in DOMAIN content |-> OpenedLeg(content[i], given)],
          event_log |-> <<Event("open", content,
                                [i \in DOMAIN content |-> content[i].size])>>])
  /\ UNCHANGED <<phase, day, quote, modified>>

\* _commit_open and _commit_extend.
OpenTrade(content) ==
  /\ NewStructure(Len(trades) + 1, content)
  /\ trades' = Append(trades, [entry_date |-> day, exit_date |-> None])

ExtendTrade(t, content) ==
  /\ TradeIsOpen(t) /\ trades[t].entry_date < day
  /\ NewStructure(t, content)
  /\ UNCHANGED trades

\* _commit_structure for a partial add (delta > 0) or a partial unwind.
Resize(s, delta) ==
  /\ phase = "trade"
  /\ s \in Modifiable
  /\ LET legs == structures[s].legs
     IN  /\ Len(legs) = 1 /\ legs[1].current_size > 0
         /\ legs[1].current_size + delta > 0
         /\ Priced(legs)
         /\ structures' = [structures EXCEPT
              ![s].legs = <<Moved(legs[1], delta)>>,
              ![s].event_log = Append(@, IF delta > 0
                                         THEN Event("partial add", legs, <<delta>>)
                                         ELSE Event("partial unwind", legs, <<-delta>>))]
  /\ modified' = modified \cup {s}
  /\ UNCHANGED <<phase, day, quote, trades>>

\* A full unwind of a structure of a trade, or of all the patch can reach.
Close(t, closing) ==
  /\ phase = "trade"
  /\ closing # {} /\ closing \subseteq Modifiable \cap StructuresOf(t)
  /\ \A s \in closing : Priced(structures[s].legs)
  /\ structures' = [s \in DOMAIN structures |->
       IF s \in closing
       THEN [structures[s] EXCEPT
               !.closed = day,
               !.legs = [i \in DOMAIN structures[s].legs |->
                 Moved(structures[s].legs[i], -structures[s].legs[i].current_size)],
               !.event_log = Append(@, Event("full close", structures[s].legs,
                 [i \in DOMAIN structures[s].legs |-> structures[s].legs[i].current_size]))]
       ELSE structures[s]]
  /\ trades' = [trades EXCEPT ![t].exit_date =
       IF OpenStructures \cap StructuresOf(t) \subseteq closing THEN day ELSE @]
  /\ modified' = modified \cup closing
  /\ UNCHANGED <<phase, day, quote>>

CloseSome ==
  \E t \in DOMAIN trades :
    \/ \E s \in StructuresOf(t) : Close(t, {s})
    \/ Close(t, {s \in OpenStructures \cap StructuresOf(t) :
                   structures[s].original_entry_date < day})

\* Mutant of IsLastDay: one day too many.
IsLastDay_OffByOne(d) == d > NDays

\* The loop over trading_days ends.
IsLastDay(d) == d = NDays

\* _compute_risk_for_date on what is still active, then the next day.
EndDay ==
  /\ phase = "trade"
  /\ \E given \in Gives :
       structures' = [s \in DOMAIN structures |->
         IF IsOpen(s)
         THEN [structures[s] EXCEPT !.legs =
                 [i \in DOMAIN structures[s].legs |-> Valued(structures[s].legs[i], given)]]
         ELSE structures[s]]
  /\ modified' = {} /\ quote' = <<>>
  /\ IF IsLastDay(day) THEN phase' = "done" /\ day' = day
                       ELSE phase' = "mark" /\ day' = day + 1
  /\ UNCHANGED trades

Stopped == phase = "done" /\ UNCHANGED vars

Next ==
  \/ MarkToMarket
  \/ \E content \in Contents :
       OpenTrade(content) \/ \E t \in DOMAIN trades : ExtendTrade(t, content)
  \/ \E s \in DOMAIN structures, n \in Amounts : Resize(s, n) \/ Resize(s, -n)
  \/ CloseSome
  \/ EndDay
  \/ Stopped

Spec == Init /\ [][Next]_vars
=============================================================================
