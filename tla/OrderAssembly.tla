--------------------------- MODULE OrderAssembly ---------------------------
(***************************************************************************)
(* The conversion stage of backtester/order_assembly.py: what one Action,  *)
(* read against the T-1 position book, becomes as an order group, and when *)
(* the converter raises instead.                                           *)
(*                                                                         *)
(* Data.  Ids are positive naturals and None is Python's None.  A leg is   *)
(* [ticker, size] with a signed size (a LONG LegSpec, a BUY OrderLeg: > 0; *)
(* SHORT, SELL: < 0).  A book is a function from the ids of the active     *)
(* structures to [trade_id, legs]; legs[1] is the anchor.  An order group  *)
(* is a function: opened structures are keyed by their content index,      *)
(* orders on existing structures by the structure they target, so an       *)
(* order's key is its identity within the group.                           *)
(***************************************************************************)
EXTENDS Integers, Sequences, FiniteSets

None == 0

(***************************************************************************)
(* The rows of the shape matrix of Action (actions.py).                    *)
(***************************************************************************)
CreatesContent(a) == a.type = "NEW" /\ a.structure_id = None
Opens(a)   == CreatesContent(a) /\ a.trade_id = None
Extends(a) == CreatesContent(a) /\ a.trade_id # None
Adds(a)    == a.type = "NEW" /\ a.structure_id # None
Reduces(a) == a.type = "UNWIND" /\ a.size # None
Closes(a)  == a.type = "UNWIND" /\ a.size = None

\* Every Action its constructor accepts, over the given trade ids, structure
\* ids, amounts and content: trade specs are sequences of structures.
ActionMatrix(TradeIds, StructureIds, Amounts, TradeSpecs, StructureSpecs) ==
  LET Row(type, specs, trades, structures, amounts) ==
        [type : {type}, spec : specs, trade_id : trades,
         structure_id : structures, size : amounts]
  IN  Row("NEW", TradeSpecs, {None}, {None}, {None})
        \cup Row("NEW", {<<st>> : st \in StructureSpecs}, TradeIds, {None}, {None})
        \cup Row("NEW", {<<>>}, TradeIds, StructureIds, Amounts)
        \cup Row("UNWIND", {<<>>}, TradeIds, StructureIds, Amounts \cup {None})
        \cup Row("UNWIND", {<<>>}, TradeIds \cup {None}, {None}, {None})

-----------------------------------------------------------------------------
(* The T-1 book. *)

TradesIn(book) == {book[s].trade_id : s \in DOMAIN book}
StructuresOf(book, t) == {s \in DOMAIN book : book[s].trade_id = t}
Anchor(structure) == structure.legs[1].size

\* _validate_structure_trade and _structure_state: the structure is in the
\* T-1 book, under the trade the action names.
Addresses(a, book) ==
  /\ a.structure_id \in DOMAIN book
  /\ book[a.structure_id].trade_id = a.trade_id

\* Mutant of Modifiable: without _gate_short.
Modifiable_AllowsShorts(structure) == Len(structure.legs) = 1 /\ Anchor(structure) # 0

\* _gate_multi_leg, _gate_short and the zero-anchor check of _delta_legs.
Modifiable(structure) == Len(structure.legs) = 1 /\ Anchor(structure) > 0

\* _full_close_legs raises when there is nothing left to close.
HasSize(structure) == \E i \in DOMAIN structure.legs : structure.legs[i].size # 0

\* The structures an UNWIND or a partial add is about: one, those of a trade,
\* or every one of the T-1 book.
Addressed(a, book) ==
  IF a.structure_id # None THEN {a.structure_id}
  ELSE IF a.trade_id # None THEN StructuresOf(book, a.trade_id)
  ELSE DOMAIN book

-----------------------------------------------------------------------------
(* Conversion. *)

\* _order_leg: no content leg may have a zero size.
ValidContent(spec) ==
  \A k \in DOMAIN spec : \A i \in DOMAIN spec[k] : spec[k][i].size # 0

\* One action converts without raising.
ConvertibleAction(a, book) ==
  \/ /\ CreatesContent(a)
     /\ a.trade_id \in TradesIn(book) \cup {None}
     /\ ValidContent(a.spec)
  \/ /\ Adds(a)
     /\ Addresses(a, book)
     /\ Modifiable(book[a.structure_id])
  \/ /\ Reduces(a)
     /\ Addresses(a, book)
     /\ Modifiable(book[a.structure_id])
     /\ a.size < Anchor(book[a.structure_id])
  \/ /\ Closes(a)
     /\ a.structure_id # None => Addresses(a, book)
     /\ a.trade_id \in TradesIn(book) \cup {None}
     /\ Addressed(a, book) # {}
     /\ \A s \in Addressed(a, book) : HasSize(book[s])

\* A group passes the multi-action gate of build_order_groups and converts.
Convertible(group, book) ==
  Len(group) = 1 /\ ConvertibleAction(group[1], book)

\* Mutant of DeltaLegs: closing a short leg sells it once more.
DeltaLegs_AlwaysSells(a, structure) ==
  [i \in DOMAIN structure.legs |->
     LET size == structure.legs[i].size
     IN  [ticker |-> structure.legs[i].ticker,
          size   |-> IF Adds(a) THEN a.size ELSE IF Reduces(a) THEN -a.size
                     ELSE IF size > 0 THEN -size ELSE size]]

\* _delta_legs on the only modifiable shape (one leg, where the anchor formula
\* moves the leg by the amount itself) and _full_close_legs; a leg whose delta
\* is zero gets no order leg.
DeltaLegs(a, structure) ==
  LET delta(size) == IF Adds(a) THEN a.size
                     ELSE IF Reduces(a) THEN -a.size ELSE -size
      moved == {i \in DOMAIN structure.legs : delta(structure.legs[i].size) # 0}
  IN  [i \in moved |-> [ticker |-> structure.legs[i].ticker,
                        size   |-> delta(structure.legs[i].size)]]

\* action_group_to_order_group: one order per structure of a trade spec, one
\* for an extension, one per addressed structure otherwise.
OrdersOf(a, book) ==
  IF CreatesContent(a)
  THEN [k \in DOMAIN a.spec |->
          [structure_id |-> None, trade_id |-> a.trade_id, legs |-> a.spec[k]]]
  ELSE [s \in Addressed(a, book) |->
          [structure_id |-> s, trade_id |-> book[s].trade_id,
           legs |-> DeltaLegs(a, book[s])]]
=============================================================================
