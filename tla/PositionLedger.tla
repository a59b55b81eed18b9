--------------------------- MODULE PositionLedger ---------------------------
(***************************************************************************)
(* What the daily loop promises of the book, whatever the signal asks for  *)
(* and whichever prices are missing: a ledger of one book, with no groups, *)
(* orders, logs or T-1 copy.  A structure is touched at most once a day; a *)
(* trade opens whole, may be extended as long as it lives, and once its    *)
(* last structure is closed it never comes back; only a single long leg    *)
(* changes size, and it never gets to zero that way.                       *)
(***************************************************************************)
EXTENDS Integers, Sequences

CONSTANTS TradeSpecs, StructureSpecs, Amounts

VARIABLES
  today,      \* the trading day
  book,       \* live structure id |-> [trade_id, legs, touched]
  structures, \* structures ever opened: the last id given
  trades      \* trades ever opened: the last id given

vars == <<today, book, structures, trades>>

Init == today = 1 /\ book = <<>> /\ structures = 0 /\ trades = 0

LiveTrades == {book[s].trade_id : s \in DOMAIN book}
UntouchedToday == {s \in DOMAIN book : book[s].touched < today}
NonZero(legs) == \A i \in DOMAIN legs : legs[i].size # 0

NextDay == today' = today + 1 /\ UNCHANGED <<book, structures, trades>>

\* New structures get the next ids, in the order of the content.
Add(t, spec) ==
  LET added == (structures + 1)..(structures + Len(spec))
  IN  /\ \A k \in DOMAIN spec : NonZero(spec[k])
      /\ structures' = structures + Len(spec)
      /\ book' = [s \in DOMAIN book \cup added |->
                    IF s \in added
                    THEN [trade_id |-> t, legs |-> spec[s - structures], touched |-> today]
                    ELSE book[s]]
      /\ UNCHANGED today

Open == \E spec \in TradeSpecs : Add(trades + 1, spec) /\ trades' = trades + 1

Extend ==
  \E t \in LiveTrades, legs \in StructureSpecs : Add(t, <<legs>>) /\ UNCHANGED trades

Resize ==
  /\ UNCHANGED <<today, structures, trades>>
  /\ \E s \in UntouchedToday :
       LET row == book[s]
           leg == row.legs[1]
       IN  /\ Len(row.legs) = 1
           /\ \E n \in Amounts, sign \in {-1, 1} :
                /\ leg.size > 0 /\ leg.size + sign * n > 0
                /\ book' = [book EXCEPT ![s] =
                     [trade_id |-> row.trade_id,
                      legs     |-> <<[leg EXCEPT !.size = leg.size + sign * n]>>,
                      touched  |-> today]]

Close ==
  /\ UNCHANGED <<today, structures, trades>>
  /\ \E closing \in SUBSET UntouchedToday :
       /\ closing # {}
       /\ book' = [s \in DOMAIN book \ closing |-> book[s]]

Next == NextDay \/ Open \/ Extend \/ Resize \/ Close

Spec == Init /\ [][Next]_vars
=============================================================================
