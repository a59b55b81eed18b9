------------------------- MODULE LegAccounting_proofs -------------------------
(***************************************************************************)
(* Proofs about the daily series of the legs, for every number of days,    *)
(* structures, tickers and closes: their types, that the P&L series spans  *)
(* the life of its structure, that the pricing inputs and, while a         *)
(* structure is open, the valuation data are aligned with it, and that     *)
(* Summary can read the trades whose structures close together.            *)
(***************************************************************************)
EXTENDS LegAccountingProperties, SumTheorems, SequenceTheorems, TLAPS

(***************************************************************************)
(* The inductive invariant.  A row is right in a phase of a day; the phase *)
(* and the day are parameters so that a step is a fact about rows.         *)
(***************************************************************************)
EventStates ==
  {event \in [event_type : EventTypes, date : Days, leg_size_changes : Seq(Int),
              cost_exposures : UNION {[I -> Floats] : I \in SUBSET Nat}] :
     DOMAIN event.cost_exposures \subseteq DOMAIN event.leg_size_changes}
Rows ==
  [trade_id : Nat, original_entry_date : Days, closed : Days \cup {None},
   legs : Seq(LegStates), event_log : Seq(EventStates)]

LastMarked(closed, ph, d) ==
  IF closed # None THEN closed ELSE IF ph = "mark" THEN d - 1 ELSE d

LegIsRight(st, leg, ph, d) ==
  LET length == Len(leg.daily_total_pnl)
  IN  /\ length # 0 /\ length = LastMarked(st.closed, ph, d) - st.original_entry_date + 1
      /\ leg.pricing_inputs \in {0, length}
      /\ st.closed = None =>
           leg.valuation_data \in {0, IF ph = "trade" THEN length - 1 ELSE length}

RowIsRight(st, ph, d) ==
  st \in Rows /\ \A i \in DOMAIN st.legs : LegIsRight(st, st.legs[i], ph, d)

LoopIsRight ==
  /\ phase \in {"mark", "trade", "done"} /\ day \in Days
  /\ phase = "done" => day = NDays
  /\ \A k \in DOMAIN quote : k \in Tickers /\ quote[k] \in Closes
  /\ trades \in Seq([entry_date : Days, exit_date : Days \cup {None}])

RowsAreRight ==
  /\ structures \in Seq(Rows) /\ modified \subseteq DOMAIN structures
  /\ \A s \in DOMAIN structures :
       /\ RowIsRight(structures[s], phase, day)
       /\ structures[s].trade_id \in DOMAIN trades

AccountInv == LoopIsRight /\ RowsAreRight

-----------------------------------------------------------------------------
(* Floats, legs and events. *)

LEMMA FloatOperations ==
  /\ \A n \in Int : Num(n) \in Floats
  /\ NaN \in Floats
  /\ \A x, y \in Floats : Plus(x, y) \in Floats /\ Minus(x, y) \in Floats
  /\ \A n \in Int, x \in Floats : Times(n, x) \in Floats
BY DEF Num, NaN, Plus, Minus, Times, Floats

LEMMA ClosesAreFloats == Closes \subseteq Floats
BY SizesAssumption, Zenon DEF Floats

LEMMA RecordedLength ==
  ASSUME NEW length \in Nat, NEW given, NEW days \in Nat \ {0}
  PROVE  /\ Recorded(length, given, days) \in Nat
         /\ length \in {0, days - 1} => Recorded(length, given, days) \in {0, days}
BY DEF Recorded

\* A day's P&L and pricing inputs are added to an open leg.
LEMMA MarkedLeg ==
  ASSUME NEW leg \in LegStates, NEW closes, NEW given,
         \A k \in DOMAIN closes : closes[k] \in Floats
  PROVE  LET new == Marked(leg, closes, given)
         IN  /\ new \in LegStates
             /\ Len(new.daily_total_pnl) = Len(leg.daily_total_pnl) + 1
             /\ new.pricing_inputs =
                  Recorded(leg.pricing_inputs, given, Len(leg.daily_total_pnl) + 1)
             /\ new.valuation_data = leg.valuation_data
<1> DEFINE priced == leg.ticker \in DOMAIN closes
           pnl == IF priced
                  THEN Times(leg.current_size, Minus(closes[leg.ticker], leg.current_price))
                  ELSE NaN
           price == IF priced THEN closes[leg.ticker] ELSE leg.current_price
           inputs == Recorded(leg.pricing_inputs, given, Len(leg.daily_total_pnl) + 1)
           series == Append(leg.daily_total_pnl, pnl)
<1>1. /\ leg.current_size \in Int /\ leg.current_price \in Floats
      /\ leg.daily_total_pnl \in Seq(Floats) /\ leg.pricing_inputs \in Nat
  BY DEF LegStates
<1>2. pnl \in Floats /\ price \in Floats
  BY <1>1, FloatOperations, Zenon
<1>3. series \in Seq(Floats) /\ Len(series) = Len(leg.daily_total_pnl) + 1
  <2> HIDE DEF pnl
  <2> QED BY <1>1, <1>2, AppendProperties
<1>4. inputs \in Nat
  <2>1. Len(leg.daily_total_pnl) + 1 \in Nat \ {0}
    BY <1>1
  <2> QED BY <1>1, <2>1, RecordedLength, Zenon
<1>5. Marked(leg, closes, given) =
        [leg EXCEPT !.daily_total_pnl = series, !.current_price = price,
                    !.pricing_inputs = inputs]
  BY Zenon DEF Marked
<1> HIDE DEF series, price, inputs
<1> QED BY <1>2, <1>3, <1>4, <1>5 DEF LegStates, inputs

LEMMA ValuedLeg ==
  ASSUME NEW leg \in LegStates, NEW given, Len(leg.daily_total_pnl) \in Nat \ {0}
  PROVE  LET new == Valued(leg, given)
         IN  /\ new \in LegStates
             /\ new.daily_total_pnl = leg.daily_total_pnl
             /\ new.pricing_inputs = leg.pricing_inputs
             /\ new.valuation_data =
                  Recorded(leg.valuation_data, given, Len(leg.daily_total_pnl))
<1> DEFINE data == Recorded(leg.valuation_data, given, Len(leg.daily_total_pnl))
<1>1. data \in Nat
  BY RecordedLength DEF LegStates
<1>2. Valued(leg, given) = [leg EXCEPT !.valuation_data = data]
  BY Zenon DEF Valued
<1> HIDE DEF data
<1> QED BY <1>1, <1>2 DEF LegStates, data

LEMMA MovedLeg ==
  ASSUME NEW leg \in LegStates, NEW delta \in Int, quote[leg.ticker] \in Floats
  PROVE  LET new == Moved(leg, delta)
         IN  /\ new \in LegStates
             /\ new.daily_total_pnl = leg.daily_total_pnl
             /\ new.pricing_inputs = leg.pricing_inputs
             /\ new.valuation_data = leg.valuation_data
<1> DEFINE paid == Plus(leg.paid, Times(delta, quote[leg.ticker]))
           size == leg.current_size + delta
<1>1. paid \in Floats /\ size \in Int
  BY FloatOperations DEF LegStates
<1>2. Moved(leg, delta) = [leg EXCEPT !.current_size = size, !.paid = paid]
  BY Zenon DEF Moved
<1> HIDE DEF paid, size
<1> QED BY <1>1, <1>2 DEF LegStates

\* A commit's event, with an exposure only of the legs it changed.
LEMMA EventType ==
  ASSUME NEW event_type \in EventTypes, NEW legs, NEW n \in Nat, DOMAIN legs = 1..n,
         n = Len(legs), NEW changes \in Seq(Int), DOMAIN changes = DOMAIN legs,
         \A i \in DOMAIN legs : quote[legs[i].ticker] \in Floats, day \in Days
  PROVE  Event(event_type, legs, changes) \in EventStates
<1> DEFINE marked == {i \in DOMAIN legs : legs[i].cost_leg}
           I == IF marked = {} /\ Len(legs) = 1 THEN {1} ELSE marked
           exposures == [i \in I |-> quote[legs[i].ticker]]
<1>1. I \subseteq DOMAIN legs /\ I \subseteq Nat
  OBVIOUS
<1> HIDE DEF I
<1>2. exposures \in [I -> Floats] /\ DOMAIN exposures = I
  BY <1>1
<1>3. CostExposures(legs) = exposures
  BY Zenon DEF CostExposures, I
<1> HIDE DEF exposures
<1>4. exposures \in UNION {[J -> Floats] : J \in SUBSET Nat}
  BY <1>1, <1>2, Zenon
<1> QED BY <1>1, <1>2, <1>3, <1>4 DEF Event, EventStates

-----------------------------------------------------------------------------
(* Rows. *)

LEMMA FunctionIsSeq ==
  ASSUME NEW T, NEW n \in Nat, NEW f \in [1..n -> T]
  PROVE  f \in Seq(T) /\ Len(f) = n
BY SeqDef

\* Legs changed one by one are again the legs of a row.
LEMMA RowWithLegs ==
  ASSUME NEW st \in Rows, NEW new, DOMAIN new = DOMAIN st.legs,
         new = [i \in DOMAIN st.legs |-> new[i]],
         \A i \in DOMAIN st.legs : new[i] \in LegStates
  PROVE  [st EXCEPT !.legs = new] \in Rows
<1>1. st.legs \in Seq(LegStates)
  BY DEF Rows
<1>2. Len(st.legs) \in Nat /\ DOMAIN st.legs = 1..Len(st.legs)
  BY <1>1
<1>3. new \in [1..Len(st.legs) -> LegStates]
  BY <1>2, Zenon
<1>4. new \in Seq(LegStates)
  BY <1>2, <1>3, FunctionIsSeq, Zenon
<1> QED BY <1>4 DEF Rows

\* A leg of a row of an open structure, before the mark and after it.
LEMMA MarkedRow ==
  ASSUME NEW st, NEW d \in Days, RowIsRight(st, "mark", d), st.closed = None,
         NEW closes, NEW given, \A k \in DOMAIN closes : closes[k] \in Floats
  PROVE  LET new == [st EXCEPT !.legs =
                       [i \in DOMAIN st.legs |-> Marked(st.legs[i], closes, given)]]
         IN  RowIsRight(new, "trade", d) /\ new.trade_id = st.trade_id
<1> DEFINE legs == [i \in DOMAIN st.legs |-> Marked(st.legs[i], closes, given)]
           new == [st EXCEPT !.legs = legs]
<1>1. st \in Rows /\ \A i \in DOMAIN st.legs : LegIsRight(st, st.legs[i], "mark", d)
  BY DEF RowIsRight
<1>2. \A i \in DOMAIN st.legs : st.legs[i] \in LegStates
  BY <1>1 DEF Rows
<1>3. ASSUME NEW i \in DOMAIN st.legs
      PROVE  /\ legs[i] \in LegStates
             /\ Len(legs[i].daily_total_pnl) = Len(st.legs[i].daily_total_pnl) + 1
             /\ legs[i].pricing_inputs = Recorded(st.legs[i].pricing_inputs, given,
                                                  Len(st.legs[i].daily_total_pnl) + 1)
             /\ legs[i].valuation_data = st.legs[i].valuation_data
  <2>1. legs[i] = Marked(st.legs[i], closes, given)
    OBVIOUS
  <2> HIDE DEF legs, new
  <2> QED BY <1>2, <2>1, MarkedLeg
<1>4. DOMAIN legs = DOMAIN st.legs /\ legs = [i \in DOMAIN st.legs |-> legs[i]]
  OBVIOUS
<1> HIDE DEF legs
<1>5. new \in Rows
  BY <1>1, <1>3, <1>4, RowWithLegs, Zenon
<1>6. /\ new.legs = legs /\ new.closed = None /\ new.trade_id = st.trade_id
      /\ new.original_entry_date = st.original_entry_date
  BY <1>1 DEF Rows
<1> HIDE DEF new
<1>7. ASSUME NEW i \in DOMAIN new.legs PROVE LegIsRight(new, new.legs[i], "trade", d)
  <2> DEFINE leg == st.legs[i]
             length == Len(leg.daily_total_pnl)
  <2>1. /\ leg \in LegStates /\ length \in Nat /\ leg.pricing_inputs \in Nat
        /\ leg.valuation_data \in Nat
    BY <1>2, <1>4, <1>6 DEF LegStates
  <2>2. /\ length = d - 1 - st.original_entry_date + 1
        /\ leg.pricing_inputs \in {0, length} /\ leg.valuation_data \in {0, length}
    BY <1>1, <1>4, <1>6 DEF LegIsRight, LastMarked
  <2>3. d \in Int /\ st.original_entry_date \in Int
    BY <1>1, SizesAssumption DEF Days, Rows
  <2>4. /\ Len(new.legs[i].daily_total_pnl) = length + 1
        /\ new.legs[i].pricing_inputs = Recorded(leg.pricing_inputs, given, length + 1)
        /\ new.legs[i].valuation_data = leg.valuation_data
    BY <1>3, <1>4, <1>6, Zenon
  <2> HIDE DEF leg, length
  <2>5. new.legs[i].pricing_inputs \in {0, length + 1}
    <3>1. length + 1 \in Nat \ {0} /\ leg.pricing_inputs \in {0, (length + 1) - 1}
      BY <2>1, <2>2
    <3> QED BY <2>1, <2>4, <3>1, RecordedLength, Zenon
  <2>6. length + 1 = d - st.original_entry_date + 1 /\ length + 1 - 1 = length
    BY <2>1, <2>2, <2>3
  <2>7. length + 1 # 0
    BY <2>1
  <2> QED BY <1>6, <2>2, <2>4, <2>5, <2>6, <2>7 DEF LegIsRight, LastMarked
<1> QED BY <1>5, <1>6, <1>7, Zenon DEF RowIsRight, new, legs

LEMMA ClosedRow ==
  ASSUME NEW st, NEW ph, NEW d, RowIsRight(st, ph, d), st.closed # None, NEW qh, NEW e
  PROVE  RowIsRight(st, qh, e)
BY Zenon DEF RowIsRight, LegIsRight, LastMarked

\* The risk pass, and the day after it (or none).
LEMMA ValuedRow ==
  ASSUME NEW st, NEW d \in Days, RowIsRight(st, "trade", d), st.closed = None, NEW given,
         NEW ph, NEW e, \/ ph = "mark" /\ e = d + 1
                        \/ ph = "done" /\ e = d
  PROVE  LET new == [st EXCEPT !.legs = [i \in DOMAIN st.legs |-> Valued(st.legs[i], given)]]
         IN  RowIsRight(new, ph, e) /\ new.trade_id = st.trade_id
<1> DEFINE legs == [i \in DOMAIN st.legs |-> Valued(st.legs[i], given)]
           new == [st EXCEPT !.legs = legs]
<1>1. st \in Rows /\ \A i \in DOMAIN st.legs : LegIsRight(st, st.legs[i], "trade", d)
  BY DEF RowIsRight
<1>2. \A i \in DOMAIN st.legs : st.legs[i] \in LegStates
  BY <1>1 DEF Rows
<1>0. d \in Int /\ st.original_entry_date \in Int /\ LastMarked(None, ph, e) = d
  BY <1>1, SizesAssumption DEF Days, Rows, LastMarked
<1>3. ASSUME NEW i \in DOMAIN st.legs
      PROVE  /\ legs[i] \in LegStates
             /\ legs[i].daily_total_pnl = st.legs[i].daily_total_pnl
             /\ legs[i].pricing_inputs = st.legs[i].pricing_inputs
             /\ legs[i].valuation_data = Recorded(st.legs[i].valuation_data, given,
                                                  Len(st.legs[i].daily_total_pnl))
  <2>1. Len(st.legs[i].daily_total_pnl) \in Nat
    BY <1>2 DEF LegStates
  <2>2. Len(st.legs[i].daily_total_pnl) # 0
    BY <1>1, Zenon DEF LegIsRight
  <2>3. legs[i] = Valued(st.legs[i], given)
    OBVIOUS
  <2>4. Len(st.legs[i].daily_total_pnl) \in Nat \ {0}
    BY <2>1, <2>2, Zenon
  <2> QED BY <1>2, <2>3, <2>4, ValuedLeg, Zenon
<1>4. DOMAIN legs = DOMAIN st.legs /\ legs = [i \in DOMAIN st.legs |-> legs[i]]
  OBVIOUS
<1> HIDE DEF legs
<1>5. new \in Rows
  BY <1>1, <1>3, <1>4, RowWithLegs, Zenon
<1>6. /\ new.legs = legs /\ new.closed = None /\ new.trade_id = st.trade_id
      /\ new.original_entry_date = st.original_entry_date
  BY <1>1 DEF Rows
<1> HIDE DEF new
<1>7. ASSUME NEW i \in DOMAIN new.legs PROVE LegIsRight(new, new.legs[i], ph, e)
  <2> DEFINE leg == st.legs[i]
             length == Len(leg.daily_total_pnl)
  <2>1. leg \in LegStates /\ length \in Nat \ {0} /\ leg.valuation_data \in Nat
    <3>1. leg \in LegStates /\ length # 0
      BY <1>1, <1>2, <1>4, <1>6, Zenon DEF LegIsRight
    <3> HIDE DEF leg
    <3> QED BY <3>1 DEF LegStates
  <2>2. /\ length = d - st.original_entry_date + 1
        /\ leg.pricing_inputs \in {0, length} /\ leg.valuation_data \in {0, length - 1}
    BY <1>1, <1>4, <1>6 DEF LegIsRight, LastMarked
  <2>4. /\ Len(new.legs[i].daily_total_pnl) = length
        /\ new.legs[i].pricing_inputs = leg.pricing_inputs
        /\ new.legs[i].valuation_data = Recorded(leg.valuation_data, given, length)
    BY <1>3, <1>4, <1>6, Zenon
  <2> HIDE DEF leg, length
  <2>5. new.legs[i].valuation_data \in {0, length}
    BY <2>1, <2>2, <2>4, RecordedLength, Zenon
  <2>6. ph # "trade" /\ LastMarked(new.closed, ph, e) = d
    BY <1>0, <1>6
  <2> QED BY <1>6, <2>1, <2>2, <2>4, <2>5, <2>6 DEF LegIsRight
<1> QED BY <1>5, <1>6, <1>7, Zenon DEF RowIsRight, new, legs

\* A structure that opens on a day.
LEMMA OpenedRow ==
  ASSUME LoopIsRight, NEW t \in Nat, NEW content \in Contents, Priced(content), NEW given
  PROVE  RowIsRight([trade_id |-> t, original_entry_date |-> day, closed |-> None,
                     legs |-> [i \in DOMAIN content |-> OpenedLeg(content[i], given)],
                     event_log |-> <<Event("open", content,
                                       [i \in DOMAIN content |-> content[i].size])>>],
                    "trade", day)
<1> DEFINE legs == [i \in DOMAIN content |-> OpenedLeg(content[i], given)]
           changes == [i \in DOMAIN content |-> content[i].size]
           event == Event("open", content, changes)
           n == Len(content)
<1>1. /\ n \in Nat /\ DOMAIN content = 1..n
      /\ \A i \in DOMAIN content :
           content[i] \in [ticker : Tickers, size : Int \ {0}, cost_leg : BOOLEAN]
  <2> DEFINE Orders == [ticker : Tickers, size : Int \ {0}, cost_leg : BOOLEAN]
  <2>1. content \in Seq(Orders)
    BY SizesAssumption, Zenon
  <2> HIDE DEF Orders
  <2>2. n \in Nat /\ DOMAIN content = 1..n /\ \A i \in DOMAIN content : content[i] \in Orders
    BY <2>1
  <2> QED BY <2>2, Zenon DEF Orders
<1>2. \A i \in DOMAIN content : quote[content[i].ticker] \in Floats
  BY ClosesAreFloats, Zenon DEF Priced, LoopIsRight
<1>3. day \in Days /\ day \in Int
  BY SizesAssumption DEF LoopIsRight, Days
<1>4. ASSUME NEW i \in DOMAIN content
      PROVE  /\ legs[i] \in LegStates /\ Len(legs[i].daily_total_pnl) = 1
             /\ legs[i].pricing_inputs \in {0, 1} /\ legs[i].valuation_data = 0
  <2>1. /\ content[i].ticker \in Tickers /\ content[i].size \in Int
        /\ content[i].cost_leg \in BOOLEAN
    BY <1>1
  <2>2. Times(content[i].size, quote[content[i].ticker]) \in Floats /\ <<Num(0)>> \in Seq(Floats)
    <3>1. Num(0) \in Floats
      BY FloatOperations
    <3> QED BY <1>2, <2>1, <3>1, FloatOperations
  <2>3. (IF given THEN 1 ELSE 0) \in {0, 1} /\ (IF given THEN 1 ELSE 0) \in Nat
    OBVIOUS
  <2>4. legs[i] = OpenedLeg(content[i], given)
    OBVIOUS
  <2> HIDE DEF legs
  <2> QED BY <1>2, <2>1, <2>2, <2>3, <2>4 DEF OpenedLeg, LegStates
<1>5. legs \in Seq(LegStates) /\ DOMAIN legs = DOMAIN content
  <2>1. legs \in [1..n -> LegStates]
    BY <1>1, <1>4, Zenon
  <2> QED BY <1>1, <2>1, FunctionIsSeq
<1>6. <<event>> \in Seq(EventStates)
  <2>1. changes \in [1..n -> Int]
    BY <1>1
  <2>2. changes \in Seq(Int) /\ DOMAIN changes = DOMAIN content
    BY <1>1, <2>1, FunctionIsSeq
  <2> HIDE DEF changes, n
  <2>3. event \in EventStates
    BY <1>1, <1>2, <1>3, <2>2, EventType, Zenon DEF EventTypes, n
  <2> HIDE DEF event
  <2> QED BY <2>3
<1> HIDE DEF legs, event
<1> DEFINE row == [trade_id |-> t, original_entry_date |-> day, closed |-> None,
                   legs |-> legs, event_log |-> <<event>>]
<1>7. row \in Rows
  BY <1>3, <1>5, <1>6 DEF Rows
<1>8. ASSUME NEW i \in DOMAIN row.legs PROVE LegIsRight(row, row.legs[i], "trade", day)
  <2>1. /\ row.legs = legs /\ row.closed = None /\ row.original_entry_date = day
    OBVIOUS
  <2> HIDE DEF row
  <2>2. LastMarked(row.closed, "trade", day) - row.original_entry_date + 1 = 1
    BY <1>3, <2>1 DEF LastMarked
  <2>3. /\ Len(row.legs[i].daily_total_pnl) = 1 /\ row.legs[i].pricing_inputs \in {0, 1}
        /\ row.legs[i].valuation_data = 0
    BY <1>4, <1>5, <2>1, Zenon
  <2> QED BY <2>1, <2>2, <2>3 DEF LegIsRight
<1>9. RowIsRight(row, "trade", day)
  BY <1>7, <1>8, Zenon DEF RowIsRight
<1> QED BY <1>9 DEF row, legs, event

\* A commit changes no series: the row stays right if it stays open, or closes today.
LEMMA CommittedRow ==
  ASSUME NEW st, RowIsRight(st, "trade", day), st.closed = None, NEW new \in Rows,
         new.original_entry_date = st.original_entry_date, new.closed \in {None, day},
         DOMAIN new.legs = DOMAIN st.legs,
         \A i \in DOMAIN st.legs :
           /\ new.legs[i].daily_total_pnl = st.legs[i].daily_total_pnl
           /\ new.legs[i].pricing_inputs = st.legs[i].pricing_inputs
           /\ new.legs[i].valuation_data = st.legs[i].valuation_data
  PROVE  RowIsRight(new, "trade", day)
<1> SUFFICES ASSUME NEW i \in DOMAIN st.legs PROVE LegIsRight(new, new.legs[i], "trade", day)
  BY Zenon DEF RowIsRight
<1>1. LegIsRight(st, st.legs[i], "trade", day)
  BY Zenon DEF RowIsRight
<1>2. LastMarked(new.closed, "trade", day) = LastMarked(st.closed, "trade", day)
  BY Zenon DEF LastMarked
<1> QED BY <1>1, <1>2, Zenon DEF LegIsRight

\* The legs of an open structure that trades have a close.
LEMMA PricedLegs ==
  ASSUME LoopIsRight, NEW st \in Rows, Priced(st.legs)
  PROVE  /\ \A i \in DOMAIN st.legs : st.legs[i] \in LegStates /\ st.legs[i].current_size \in Int
         /\ \A i \in DOMAIN st.legs : quote[st.legs[i].ticker] \in Floats
         /\ Len(st.legs) \in Nat /\ DOMAIN st.legs = 1..Len(st.legs) /\ day \in Days
<1>1. st.legs \in Seq(LegStates)
  BY DEF Rows
<1>2. Len(st.legs) \in Nat /\ DOMAIN st.legs = 1..Len(st.legs)
  BY <1>1
<1>3. \A i \in DOMAIN st.legs : st.legs[i] \in LegStates
  BY <1>1
<1>4. \A i \in DOMAIN st.legs : st.legs[i].current_size \in Int
  BY <1>3 DEF LegStates
<1> QED BY <1>2, <1>3, <1>4, ClosesAreFloats, Zenon DEF Priced, LoopIsRight

LEMMA LoggedRow ==
  ASSUME NEW st \in Rows, NEW event \in EventStates
  PROVE  Append(st.event_log, event) \in Seq(EventStates)
<1>1. st.event_log \in Seq(EventStates)
  BY DEF Rows
<1> QED BY <1>1

LEMMA ResizedRow ==
  ASSUME LoopIsRight, NEW st, RowIsRight(st, "trade", day), st.closed = None,
         Len(st.legs) = 1, Priced(st.legs), NEW delta \in Int, NEW change \in Int,
         NEW event_type \in EventTypes
  PROVE  LET new == [st EXCEPT !.legs = <<Moved(st.legs[1], delta)>>,
                               !.event_log = Append(@, Event(event_type, st.legs, <<change>>))]
         IN  RowIsRight(new, "trade", day) /\ new.trade_id = st.trade_id
<1> DEFINE leg == Moved(st.legs[1], delta)
           log == Append(st.event_log, Event(event_type, st.legs, <<change>>))
           new == [st EXCEPT !.legs = <<leg>>, !.event_log = log]
<1>1. st \in Rows
  BY Zenon DEF RowIsRight
<1>2. DOMAIN st.legs = {1}
  BY <1>1, PricedLegs
<1>3. /\ leg \in LegStates
      /\ leg.daily_total_pnl = st.legs[1].daily_total_pnl
      /\ leg.pricing_inputs = st.legs[1].pricing_inputs
      /\ leg.valuation_data = st.legs[1].valuation_data
  <2>1. st.legs[1] \in LegStates /\ quote[st.legs[1].ticker] \in Floats
    BY <1>1, <1>2, PricedLegs
  <2> QED BY <2>1, MovedLeg
<1>4. log \in Seq(EventStates)
  <2>1. <<change>> \in Seq(Int) /\ DOMAIN <<change>> = {1}
    OBVIOUS
  <2>2. Event(event_type, st.legs, <<change>>) \in EventStates
    BY <1>1, <1>2, <2>1, PricedLegs, EventType, Zenon
  <2> QED BY <1>1, <2>2, LoggedRow, Zenon
<1> HIDE DEF leg, log
<1>5. <<leg>> \in Seq(LegStates) /\ DOMAIN <<leg>> = {1} /\ <<leg>>[1] = leg
  BY <1>3
<1>6. /\ new \in Rows /\ new.legs = <<leg>> /\ new.closed = st.closed
      /\ new.original_entry_date = st.original_entry_date /\ new.trade_id = st.trade_id
  BY <1>1, <1>4, <1>5 DEF Rows
<1> HIDE DEF new
<1>7. RowIsRight(new, "trade", day)
  BY <1>2, <1>3, <1>5, <1>6, CommittedRow
<1> QED BY <1>6, <1>7, Zenon DEF new, leg, log

LEMMA ClosingRow ==
  ASSUME LoopIsRight, NEW st, RowIsRight(st, "trade", day), st.closed = None, Priced(st.legs)
  PROVE  LET new == [st EXCEPT
                       !.closed = day,
                       !.legs = [i \in DOMAIN st.legs |->
                                   Moved(st.legs[i], -st.legs[i].current_size)],
                       !.event_log = Append(@, Event("full close", st.legs,
                         [i \in DOMAIN st.legs |-> st.legs[i].current_size]))]
         IN  RowIsRight(new, "trade", day) /\ new.trade_id = st.trade_id
<1> DEFINE legs == [i \in DOMAIN st.legs |-> Moved(st.legs[i], -st.legs[i].current_size)]
           changes == [i \in DOMAIN st.legs |-> st.legs[i].current_size]
           log == Append(st.event_log, Event("full close", st.legs, changes))
           new == [st EXCEPT !.closed = day, !.legs = legs, !.event_log = log]
<1>1. st \in Rows
  BY Zenon DEF RowIsRight
<1>2. /\ Len(st.legs) \in Nat /\ DOMAIN st.legs = 1..Len(st.legs) /\ day \in Days
      /\ \A i \in DOMAIN st.legs : quote[st.legs[i].ticker] \in Floats
  BY <1>1, PricedLegs, Zenon
<1>3. ASSUME NEW i \in DOMAIN st.legs
      PROVE  /\ legs[i] \in LegStates
             /\ legs[i].daily_total_pnl = st.legs[i].daily_total_pnl
             /\ legs[i].pricing_inputs = st.legs[i].pricing_inputs
             /\ legs[i].valuation_data = st.legs[i].valuation_data
  <2>1. /\ st.legs[i] \in LegStates /\ quote[st.legs[i].ticker] \in Floats
        /\ -st.legs[i].current_size \in Int
    BY <1>1, PricedLegs
  <2>2. legs[i] = Moved(st.legs[i], -st.legs[i].current_size)
    OBVIOUS
  <2> HIDE DEF legs
  <2> QED BY <2>1, <2>2, MovedLeg
<1>4. log \in Seq(EventStates)
  <2>1. changes \in [1..Len(st.legs) -> Int]
    BY <1>1, <1>2, PricedLegs, Zenon
  <2>2. changes \in Seq(Int) /\ DOMAIN changes = DOMAIN st.legs
    BY <1>2, <2>1, FunctionIsSeq
  <2> HIDE DEF changes
  <2>3. Event("full close", st.legs, changes) \in EventStates
    BY <1>2, <2>2, EventType, Zenon DEF EventTypes
  <2> QED BY <1>1, <2>3, LoggedRow, Zenon
<1>5. legs \in Seq(LegStates) /\ DOMAIN legs = DOMAIN st.legs
  <2>1. legs \in [1..Len(st.legs) -> LegStates]
    BY <1>2, <1>3, Zenon
  <2> QED BY <1>2, <2>1, FunctionIsSeq
<1> HIDE DEF legs, log
<1>6. /\ new \in Rows /\ new.legs = legs /\ new.closed = day
      /\ new.original_entry_date = st.original_entry_date /\ new.trade_id = st.trade_id
  BY <1>1, <1>2, <1>4, <1>5 DEF Rows
<1> HIDE DEF new
<1>7. RowIsRight(new, "trade", day)
  BY <1>3, <1>5, <1>6, CommittedRow, Zenon
<1> QED BY <1>6, <1>7, Zenon DEF new, legs, log, changes

-----------------------------------------------------------------------------
(* Steps. *)

LEMMA StructureRows ==
  ASSUME RowsAreRight
  PROVE  /\ Len(structures) \in Nat /\ DOMAIN structures = 1..Len(structures)
         /\ \A s \in DOMAIN structures : RowIsRight(structures[s], phase, day)
BY DEF RowsAreRight

\* Rows changed one by one are again the structures.
LEMMA RowsStep ==
  ASSUME RowsAreRight, NEW new, new = [s \in DOMAIN structures |-> new[s]], structures' = new,
         UNCHANGED trades, modified' \subseteq DOMAIN structures,
         \A s \in DOMAIN structures :
           RowIsRight(new[s], phase', day') /\ new[s].trade_id = structures[s].trade_id
  PROVE  RowsAreRight'
<1>1. Len(structures) \in Nat /\ DOMAIN structures = 1..Len(structures)
  BY StructureRows, Zenon
<1>2. new \in [1..Len(structures) -> Rows]
  BY <1>1, Zenon DEF RowIsRight
<1>3. structures' \in Seq(Rows)
  BY <1>1, <1>2, FunctionIsSeq, Zenon
<1>4. DOMAIN structures' = DOMAIN structures
  BY Zenon
<1>5. \A s \in DOMAIN structures : structures[s].trade_id \in DOMAIN trades
  BY Zenon DEF RowsAreRight
<1>6. \A s \in DOMAIN structures' :
        /\ RowIsRight(structures'[s], phase', day')
        /\ structures'[s].trade_id \in DOMAIN trades'
  BY <1>4, <1>5, Zenon
<1>7. modified' \subseteq DOMAIN structures'
  BY <1>4, Zenon
<1> QED BY <1>3, <1>6, <1>7, Zenon DEF RowsAreRight, RowIsRight, LegIsRight

LEMMA MarkStep == ASSUME AccountInv, MarkToMarket PROVE AccountInv'
<1>1. PICK priced \in SUBSET Tickers : quote' \in [priced -> Closes]
  BY Zenon DEF MarkToMarket
<1>2. \A k \in DOMAIN quote' : k \in Tickers /\ quote'[k] \in Closes
  BY <1>1, Zenon
<1>3. PICK given \in Gives :
        structures' = [s \in DOMAIN structures |->
          IF IsOpen(s)
          THEN [structures[s] EXCEPT !.legs =
                  [i \in DOMAIN structures[s].legs |->
                     Marked(structures[s].legs[i], quote', given)]]
          ELSE structures[s]]
  BY Zenon DEF MarkToMarket
<1>4. phase = "mark" /\ phase' = "trade" /\ UNCHANGED <<day, trades, modified>>
  BY Zenon DEF MarkToMarket
<1>5. LoopIsRight'
  BY <1>2, <1>4 DEF AccountInv, LoopIsRight
<1>6. ASSUME NEW s \in DOMAIN structures
      PROVE  RowIsRight(structures'[s], "trade", day) /\ structures'[s].trade_id = structures[s].trade_id
  <2>1. RowIsRight(structures[s], "mark", day) /\ day \in Days
    BY <1>4, Zenon DEF AccountInv, RowsAreRight, LoopIsRight
  <2>2. \A k \in DOMAIN quote' : quote'[k] \in Floats
    BY <1>2, ClosesAreFloats, Zenon
  <2>3. CASE IsOpen(s)
    <3>1. structures'[s] = [structures[s] EXCEPT !.legs =
                              [i \in DOMAIN structures[s].legs |->
                                 Marked(structures[s].legs[i], quote', given)]]
      BY <1>3, <2>3, Zenon
    <3>2. structures[s].closed = None
      BY <2>3, Zenon DEF IsOpen
    <3> DEFINE st == structures[s]
    <3>3. RowIsRight(st, "mark", day) /\ st.closed = None
      BY <2>1, <3>2, Zenon
    <3> HIDE DEF st
    <3>4. LET new == [st EXCEPT !.legs =
                        [i \in DOMAIN st.legs |-> Marked(st.legs[i], quote', given)]]
          IN  RowIsRight(new, "trade", day) /\ new.trade_id = st.trade_id
      BY <2>1, <2>2, <3>3, MarkedRow
    <3> QED BY <3>1, <3>4, Zenon DEF st
  <2>4. CASE ~IsOpen(s)
    <3>1. structures'[s] = structures[s] /\ structures[s].closed # None
      BY <1>3, <2>4, Zenon DEF IsOpen
    <3> QED BY <2>1, <3>1, ClosedRow, Zenon
  <2> QED BY <2>3, <2>4, Zenon
<1>7. RowsAreRight'
  <2>1. structures' = [s \in DOMAIN structures |-> structures'[s]]
    BY <1>3, Zenon
  <2>2. modified' \subseteq DOMAIN structures
    BY <1>4, Zenon DEF AccountInv, RowsAreRight
  <2> QED BY <1>4, <1>6, <2>1, <2>2, RowsStep, Zenon DEF AccountInv
<1> QED BY <1>5, <1>7, Zenon DEF AccountInv

LEMMA EndDayStep == ASSUME AccountInv, EndDay PROVE AccountInv'
<1>1. PICK given \in Gives :
        structures' = [s \in DOMAIN structures |->
          IF IsOpen(s)
          THEN [structures[s] EXCEPT !.legs =
                  [i \in DOMAIN structures[s].legs |-> Valued(structures[s].legs[i], given)]]
          ELSE structures[s]]
  BY Zenon DEF EndDay
<1>2. /\ phase = "trade" /\ modified' = {} /\ quote' = <<>> /\ trades' = trades
      /\ \/ phase' = "done" /\ day' = day /\ day = NDays
         \/ phase' = "mark" /\ day' = day + 1 /\ day # NDays
  BY Zenon DEF EndDay, IsLastDay
<1>3. day \in Days /\ day' \in Days
  BY <1>2, SizesAssumption DEF AccountInv, LoopIsRight, Days
<1>4. LoopIsRight'
  BY <1>2, <1>3 DEF AccountInv, LoopIsRight
<1>5. ASSUME NEW s \in DOMAIN structures
      PROVE  RowIsRight(structures'[s], phase', day') /\ structures'[s].trade_id = structures[s].trade_id
  <2>1. RowIsRight(structures[s], "trade", day)
    BY <1>2, Zenon DEF AccountInv, RowsAreRight
  <2>2. \/ phase' = "mark" /\ day' = day + 1
        \/ phase' = "done" /\ day' = day
    BY <1>2, Zenon
  <2>3. CASE IsOpen(s)
    <3>1. structures'[s] = [structures[s] EXCEPT !.legs =
                              [i \in DOMAIN structures[s].legs |->
                                 Valued(structures[s].legs[i], given)]]
      BY <1>1, <2>3, Zenon
    <3>2. structures[s].closed = None
      BY <2>3, Zenon DEF IsOpen
    <3> DEFINE st == structures[s]
    <3>3. RowIsRight(st, "trade", day) /\ st.closed = None
      BY <2>1, <3>2, Zenon
    <3> HIDE DEF st
    <3>4. LET new == [st EXCEPT !.legs = [i \in DOMAIN st.legs |-> Valued(st.legs[i], given)]]
          IN  RowIsRight(new, phase', day') /\ new.trade_id = st.trade_id
      BY <1>3, <2>1, <2>2, <3>3, ValuedRow
    <3> QED BY <3>1, <3>4, Zenon DEF st
  <2>4. CASE ~IsOpen(s)
    <3>1. structures'[s] = structures[s] /\ structures[s].closed # None
      BY <1>1, <2>4, Zenon DEF IsOpen
    <3> QED BY <2>1, <3>1, ClosedRow, Zenon
  <2> QED BY <2>3, <2>4, Zenon
<1>6. RowsAreRight'
  <2>1. structures' = [s \in DOMAIN structures |-> structures'[s]]
    BY <1>1, Zenon
  <2> QED BY <1>2, <1>5, <2>1, RowsStep, Zenon DEF AccountInv
<1> QED BY <1>4, <1>6, Zenon DEF AccountInv

LEMMA OpeningStep ==
  ASSUME AccountInv, NEW t \in Nat, NEW content \in Contents, NewStructure(t, content),
         t \in DOMAIN trades', \A u \in DOMAIN trades : u \in DOMAIN trades',
         trades' \in Seq([entry_date : Days, exit_date : Days \cup {None}])
  PROVE  AccountInv'
<1>1. PICK given \in Gives :
        structures' = Append(structures,
          [trade_id |-> t, original_entry_date |-> day, closed |-> None,
           legs |-> [i \in DOMAIN content |-> OpenedLeg(content[i], given)],
           event_log |-> <<Event("open", content,
                                 [i \in DOMAIN content |-> content[i].size])>>])
  BY Zenon DEF NewStructure
<1> DEFINE row == [trade_id |-> t, original_entry_date |-> day, closed |-> None,
                   legs |-> [i \in DOMAIN content |-> OpenedLeg(content[i], given)],
                   event_log |-> <<Event("open", content,
                                         [i \in DOMAIN content |-> content[i].size])>>]
<1>2. phase = "trade" /\ Priced(content) /\ UNCHANGED <<phase, day, quote, modified>>
  BY Zenon DEF NewStructure
<1>3. RowIsRight(row, "trade", day)
  BY <1>2, OpenedRow, Zenon DEF AccountInv
<1>4. row.trade_id = t
  OBVIOUS
<1>5. structures' = Append(structures, row)
  BY <1>1, Zenon
<1> HIDE DEF row
<1>6. structures \in Seq(Rows) /\ row \in Rows /\ DOMAIN structures = 1..Len(structures)
  BY <1>3, StructureRows, Zenon DEF AccountInv, RowsAreRight, RowIsRight
<1>7. /\ structures' \in Seq(Rows) /\ DOMAIN structures \subseteq DOMAIN structures'
      /\ \A s \in DOMAIN structures' :
           \/ structures'[s] = row
           \/ s \in DOMAIN structures /\ structures'[s] = structures[s]
  <2>1. Len(structures) \in Nat
    BY <1>6
  <2>2. /\ structures' \in Seq(Rows) /\ Len(structures') = Len(structures) + 1
        /\ \A s \in 1..Len(structures) : structures'[s] = structures[s]
        /\ structures'[Len(structures) + 1] = row
    BY <1>5, <1>6, AppendProperties
  <2>3. DOMAIN structures' = 1..Len(structures')
    BY <2>2
  <2>4. \A s \in DOMAIN structures' : s = Len(structures) + 1 \/ s \in 1..Len(structures)
    BY <2>1, <2>2, <2>3
  <2>5. 1..Len(structures) \subseteq DOMAIN structures'
    BY <2>1, <2>2, <2>3
  <2>6. ASSUME NEW s \in DOMAIN structures'
        PROVE  \/ structures'[s] = row
               \/ s \in DOMAIN structures /\ structures'[s] = structures[s]
    <3>1. CASE s = Len(structures) + 1
      BY <2>2, <3>1, Zenon
    <3>2. CASE s \in 1..Len(structures)
      BY <1>6, <2>2, <3>2, Zenon
    <3> QED BY <2>4, <3>1, <3>2, Zenon
  <2> QED BY <1>6, <2>2, <2>5, <2>6, Zenon
<1>8. ASSUME NEW s \in DOMAIN structures'
      PROVE  RowIsRight(structures'[s], phase', day') /\ structures'[s].trade_id \in DOMAIN trades'
  <2>1. CASE structures'[s] = row
    BY <1>2, <1>3, <1>4, <2>1, Zenon
  <2>2. CASE s \in DOMAIN structures /\ structures'[s] = structures[s]
    BY <1>2, <2>2, Zenon DEF AccountInv, RowsAreRight
  <2> QED BY <1>7, <2>1, <2>2, Zenon
<1>9. modified' \subseteq DOMAIN structures'
  BY <1>2, <1>7, Zenon DEF AccountInv, RowsAreRight
<1>10. LoopIsRight'
  BY <1>2, Zenon DEF AccountInv, LoopIsRight
<1>11. RowsAreRight'
  BY <1>7, <1>8, <1>9, Zenon DEF RowsAreRight, RowIsRight, LegIsRight
<1> QED BY <1>10, <1>11, Zenon DEF AccountInv

LEMMA OpenStep ==
  ASSUME AccountInv, NEW content \in Contents, OpenTrade(content)
  PROVE  AccountInv'
<1>1. /\ trades \in Seq([entry_date : Days, exit_date : Days \cup {None}])
      /\ NewStructure(Len(trades) + 1, content)
      /\ trades' = Append(trades, [entry_date |-> day, exit_date |-> None])
      /\ [entry_date |-> day, exit_date |-> None] \in [entry_date : Days, exit_date : Days \cup {None}]
  BY DEF AccountInv, LoopIsRight, OpenTrade
<1>2. /\ Len(trades) + 1 \in Nat /\ Len(trades) + 1 \in DOMAIN trades'
      /\ \A u \in DOMAIN trades : u \in DOMAIN trades'
      /\ trades' \in Seq([entry_date : Days, exit_date : Days \cup {None}])
  <2> DEFINE Trades == [entry_date : Days, exit_date : Days \cup {None}]
             new == [entry_date |-> day, exit_date |-> None]
  <2>1. trades \in Seq(Trades) /\ new \in Trades /\ trades' = Append(trades, new)
    BY <1>1, Zenon
  <2> HIDE DEF Trades, new
  <2>2. trades' \in Seq(Trades) /\ Len(trades') = Len(trades) + 1 /\ Len(trades) \in Nat
    BY <2>1, AppendProperties
  <2>3. DOMAIN trades = 1..Len(trades) /\ DOMAIN trades' = 1..Len(trades')
    BY <2>1, <2>2
  <2>4. /\ Len(trades) + 1 \in Nat /\ Len(trades) + 1 \in DOMAIN trades'
        /\ \A u \in DOMAIN trades : u \in DOMAIN trades'
    BY <2>2, <2>3
  <2> QED BY <2>2, <2>4 DEF Trades
<1> QED BY <1>1, <1>2, OpeningStep, Zenon

LEMMA ExtendStep ==
  ASSUME AccountInv, NEW content \in Contents, NEW t \in DOMAIN trades, ExtendTrade(t, content)
  PROVE  AccountInv'
<1>1. /\ NewStructure(t, content) /\ trades' = trades
      /\ trades \in Seq([entry_date : Days, exit_date : Days \cup {None}])
  BY Zenon DEF ExtendTrade, AccountInv, LoopIsRight
<1>2. t \in Nat
  <2> DEFINE Trades == [entry_date : Days, exit_date : Days \cup {None}]
  <2> HIDE DEF Trades
  <2>1. trades \in Seq(Trades)
    BY <1>1 DEF Trades
  <2> QED BY <2>1
<1> QED BY <1>1, <1>2, OpeningStep, Zenon

LEMMA ModifiableRow ==
  ASSUME AccountInv, phase = "trade", NEW s \in Modifiable
  PROVE  /\ s \in DOMAIN structures /\ structures[s].closed = None
         /\ RowIsRight(structures[s], "trade", day)
BY Zenon DEF Modifiable, OpenStructures, IsOpen, AccountInv, RowsAreRight

LEMMA ResizeStep ==
  ASSUME AccountInv, NEW s \in DOMAIN structures, NEW delta \in Int, Resize(s, delta)
  PROVE  AccountInv'
<1> DEFINE event == IF delta > 0 THEN Event("partial add", structures[s].legs, <<delta>>)
                    ELSE Event("partial unwind", structures[s].legs, <<-delta>>)
           row == [structures[s] EXCEPT !.legs = <<Moved(structures[s].legs[1], delta)>>,
                                        !.event_log = Append(@, event)]
<1>1. /\ phase = "trade" /\ s \in Modifiable /\ Len(structures[s].legs) = 1
      /\ Priced(structures[s].legs) /\ modified' = modified \cup {s}
      /\ UNCHANGED <<phase, day, quote, trades>>
  BY Zenon DEF Resize
<1>2. structures' = [structures EXCEPT
        ![s].legs = <<Moved(structures[s].legs[1], delta)>>,
        ![s].event_log = Append(@, event)]
  BY Zenon DEF Resize
<1>3. structures' = [structures EXCEPT ![s] = row]
  BY <1>2
<1>4. RowIsRight(row, "trade", day) /\ row.trade_id = structures[s].trade_id
  <2>1. structures[s].closed = None /\ RowIsRight(structures[s], "trade", day) /\ LoopIsRight
    BY <1>1, ModifiableRow, Zenon DEF AccountInv
  <2>2. -delta \in Int /\ "partial add" \in EventTypes /\ "partial unwind" \in EventTypes
    BY DEF EventTypes
  <2>3. CASE delta > 0
    <3> DEFINE st == structures[s]
    <3>1. RowIsRight(st, "trade", day) /\ st.closed = None /\ Len(st.legs) = 1 /\ Priced(st.legs)
      BY <1>1, <2>1, Zenon
    <3>2. event = Event("partial add", st.legs, <<delta>>)
      BY <2>3, Zenon
    <3> HIDE DEF st, event
    <3>3. LET new == [st EXCEPT !.legs = <<Moved(st.legs[1], delta)>>,
                         !.event_log = Append(@, Event("partial add", st.legs, <<delta>>))]
          IN  RowIsRight(new, "trade", day) /\ new.trade_id = st.trade_id
      BY <2>1, <2>2, <3>1, ResizedRow
    <3> QED BY <3>2, <3>3, Zenon DEF st
  <2>4. CASE ~(delta > 0)
    <3> DEFINE st == structures[s]
    <3>1. RowIsRight(st, "trade", day) /\ st.closed = None /\ Len(st.legs) = 1 /\ Priced(st.legs)
      BY <1>1, <2>1, Zenon
    <3>2. event = Event("partial unwind", st.legs, <<-delta>>)
      BY <2>4, Zenon
    <3> HIDE DEF st, event
    <3>3. LET new == [st EXCEPT !.legs = <<Moved(st.legs[1], delta)>>,
                         !.event_log = Append(@, Event("partial unwind", st.legs, <<-delta>>))]
          IN  RowIsRight(new, "trade", day) /\ new.trade_id = st.trade_id
      BY <2>1, <2>2, <3>1, ResizedRow
    <3> QED BY <3>2, <3>3, Zenon DEF st
  <2> QED BY <2>3, <2>4, Zenon
<1> HIDE DEF row, event
<1>5. RowsAreRight'
  <2>1. structures' = [r \in DOMAIN structures |-> structures'[r]]
    BY <1>3, Zenon
  <2>2. \A r \in DOMAIN structures : structures'[r] = IF r = s THEN row ELSE structures[r]
    BY <1>3, Zenon
  <2>3. \A r \in DOMAIN structures : RowIsRight(structures[r], "trade", day)
    BY <1>1, Zenon DEF AccountInv, RowsAreRight
  <2>4. \A r \in DOMAIN structures :
          RowIsRight(structures'[r], phase', day') /\ structures'[r].trade_id = structures[r].trade_id
    BY <1>1, <1>4, <2>2, <2>3, Zenon
  <2>5. modified' \subseteq DOMAIN structures
    BY <1>1, Zenon DEF AccountInv, RowsAreRight
  <2> QED BY <1>1, <2>1, <2>4, <2>5, RowsStep, Zenon DEF AccountInv
<1>6. LoopIsRight'
  BY <1>1, Zenon DEF AccountInv, LoopIsRight
<1> QED BY <1>5, <1>6, Zenon DEF AccountInv

LEMMA CloseStep ==
  ASSUME AccountInv, NEW t \in DOMAIN trades, NEW closing, Close(t, closing)
  PROVE  AccountInv'
<1> DEFINE closed(st) ==
      [st EXCEPT !.closed = day,
                 !.legs = [i \in DOMAIN st.legs |-> Moved(st.legs[i], -st.legs[i].current_size)],
                 !.event_log = Append(@, Event("full close", st.legs,
                   [i \in DOMAIN st.legs |-> st.legs[i].current_size]))]
           Trades == [entry_date : Days, exit_date : Days \cup {None}]
           exit == IF OpenStructures \cap StructuresOf(t) \subseteq closing THEN day
                   ELSE trades[t].exit_date
<1>1. /\ phase = "trade" /\ closing \subseteq Modifiable
      /\ \A s \in closing : Priced(structures[s].legs)
      /\ modified' = modified \cup closing /\ UNCHANGED <<phase, day, quote>>
  BY Zenon DEF Close
<1>2. structures' = [s \in DOMAIN structures |->
        IF s \in closing THEN closed(structures[s]) ELSE structures[s]]
  BY Zenon DEF Close
<1>3. trades' = [trades EXCEPT ![t].exit_date = exit]
  BY Zenon DEF Close
<1>4. trades \in Seq(Trades) /\ day \in Days /\ LoopIsRight
  BY Zenon DEF AccountInv, LoopIsRight
<1>5. trades' \in Seq(Trades) /\ DOMAIN trades' = DOMAIN trades
  <2>1. trades[t] \in Trades
    <3> HIDE DEF Trades
    <3> QED BY <1>4
  <2>2. exit \in Days \cup {None}
    BY <1>4, <2>1
  <2> DEFINE new == [trades[t] EXCEPT !.exit_date = exit]
  <2> HIDE DEF exit
  <2>3. new \in Trades
    BY <2>1, <2>2
  <2>4. trades' = [trades EXCEPT ![t] = new]
    BY <1>3
  <2> HIDE DEF Trades, new
  <2> QED BY <1>4, <2>3, <2>4
<1> HIDE DEF closed, Trades, exit
<1>6. ASSUME NEW s \in DOMAIN structures
      PROVE  /\ RowIsRight(structures'[s], phase', day')
             /\ structures'[s].trade_id = structures[s].trade_id
  <2>1. CASE s \in closing
    <3> DEFINE st == structures[s]
    <3>1. structures'[s] = closed(st)
      BY <1>2, <2>1, Zenon
    <3>2. st.closed = None /\ RowIsRight(st, "trade", day) /\ Priced(st.legs)
      BY <1>1, <2>1, ModifiableRow, Zenon
    <3> HIDE DEF st
    <3>3. RowIsRight(closed(st), "trade", day) /\ closed(st).trade_id = st.trade_id
      BY <1>4, <3>2, ClosingRow DEF closed
    <3> QED BY <1>1, <3>1, <3>3, Zenon DEF st
  <2>2. CASE s \notin closing
    BY <1>1, <1>2, <2>2, Zenon DEF AccountInv, RowsAreRight
  <2> QED BY <2>1, <2>2, Zenon
<1>7. Len(structures) \in Nat /\ DOMAIN structures = 1..Len(structures)
  BY StructureRows, Zenon DEF AccountInv
<1>8. structures' \in Seq(Rows) /\ DOMAIN structures' = DOMAIN structures
  <2>1. structures' = [s \in DOMAIN structures |-> structures'[s]]
    BY <1>2, Zenon
  <2>2. structures' \in [1..Len(structures) -> Rows] /\ DOMAIN structures' = DOMAIN structures
    BY <1>6, <1>7, <2>1, Zenon DEF RowIsRight
  <2> QED BY <1>7, <2>2, FunctionIsSeq, Zenon
<1>9. modified' \subseteq DOMAIN structures'
  BY <1>1, <1>8, ModifiableRow, Zenon DEF AccountInv, RowsAreRight
<1>10. \A s \in DOMAIN structures' : structures'[s].trade_id \in DOMAIN trades'
  BY <1>5, <1>6, <1>8, Zenon DEF AccountInv, RowsAreRight
<1>11. RowsAreRight'
  BY <1>6, <1>8, <1>9, <1>10, Zenon DEF RowsAreRight, RowIsRight, LegIsRight
<1>12. LoopIsRight'
  BY <1>1, <1>4, <1>5, Zenon DEF LoopIsRight, Trades
<1> QED BY <1>11, <1>12, Zenon DEF AccountInv

LEMMA AccountInit == Init => AccountInv
<1> SUFFICES ASSUME Init PROVE AccountInv
  OBVIOUS
<1>1. /\ phase = "mark" /\ day = 1 /\ DOMAIN quote = {} /\ DOMAIN structures = {}
      /\ structures = <<>> /\ trades = <<>> /\ modified = {}
  BY DEF Init
<1>2. 1 \in Days
  BY SizesAssumption DEF Days
<1> QED BY <1>1, <1>2 DEF AccountInv, LoopIsRight, RowsAreRight

LEMMA AccountStep == AccountInv /\ [Next]_vars => AccountInv'
<1> SUFFICES ASSUME AccountInv, [Next]_vars PROVE AccountInv'
  OBVIOUS
<1>1. CASE MarkToMarket
  BY <1>1, MarkStep, Zenon
<1>2. ASSUME NEW content \in Contents,
             OpenTrade(content) \/ \E t \in DOMAIN trades : ExtendTrade(t, content)
      PROVE  AccountInv'
  BY <1>2, OpenStep, ExtendStep, Zenon
<1>3. ASSUME NEW s \in DOMAIN structures, NEW n \in Amounts, Resize(s, n) \/ Resize(s, -n)
      PROVE  AccountInv'
  <2>1. n \in Int /\ -n \in Int
    BY SizesAssumption
  <2> QED BY <1>3, <2>1, ResizeStep, Zenon
<1>4. CASE CloseSome
  BY <1>4, CloseStep, Zenon DEF CloseSome
<1>5. CASE EndDay
  BY <1>5, EndDayStep, Zenon
<1>6. CASE UNCHANGED vars
  <2>1. UNCHANGED <<phase, day, quote, structures, trades, modified>>
    BY <1>6, Zenon DEF vars
  <2> QED BY <2>1, Zenon DEF AccountInv, LoopIsRight, RowsAreRight, RowIsRight, LegIsRight
<1> QED BY <1>1, <1>2, <1>3, <1>4, <1>5, <1>6, Zenon DEF Next, Stopped

LEMMA AccountInvariant == Spec => []AccountInv
BY AccountInit, AccountStep, PTL DEF Spec

-----------------------------------------------------------------------------
(* What follows from it. *)

\* The values of the legs, trades and events keep their types.
THEOREM SeriesTypes == Spec => []TypeOK
<1>1. ASSUME AccountInv PROVE TypeOK
  <2>1. /\ Len(structures) \in Nat /\ DOMAIN structures = 1..Len(structures)
        /\ \A s \in DOMAIN structures : structures[s] \in Rows
    BY <1>1, StructureRows, Zenon DEF AccountInv, RowIsRight
  <2>2. ASSUME NEW s \in DOMAIN structures
        PROVE  /\ structures[s].original_entry_date \in Days
               /\ structures[s].closed \in Days \cup {None}
               /\ structures[s].legs \in Seq(LegStates)
               /\ \A e \in DOMAIN structures[s].event_log : IsEvent(structures[s].event_log[e])
    <3>1. structures[s].event_log \in Seq(EventStates)
      BY <2>1 DEF Rows
    <3>2. \A e \in DOMAIN structures[s].event_log : structures[s].event_log[e] \in EventStates
      BY <3>1
    <3>3. \A event \in EventStates : IsEvent(event)
      BY DEF IsEvent, EventStates
    <3> QED BY <2>1, <3>2, <3>3 DEF Rows
  <2> QED BY <1>1, <2>1, <2>2, Zenon DEF TypeOK, AccountInv, LoopIsRight, RowsAreRight
<1>2. AccountInv => TypeOK
  BY <1>1
<1> QED BY <1>2, AccountInvariant, PTL

LEMMA EveryLegIsRight ==
  ASSUME AccountInv, NEW s \in DOMAIN structures, NEW i \in DOMAIN structures[s].legs
  PROVE  LegIsRight(structures[s], structures[s].legs[i], phase, day)
BY Zenon DEF AccountInv, RowsAreRight, RowIsRight

\* _compute_pnl_for_date: one P&L entry per day of a leg's life, neither more
\* (a closed structure is still marked) nor less (a gap that is skipped).
THEOREM PnlSpans == Spec => []PnlSpansTheLife
<1>1. AccountInv => PnlSpansTheLife
  BY EveryLegIsRight, Zenon DEF PnlSpansTheLife, EveryLeg, LegIsRight, LastMarked
<1> QED BY <1>1, AccountInvariant, PTL

\* LegState.record of the pricing inputs keeps them aligned with the P&L.
THEOREM InputsAlign == Spec => []InputsAligned
<1>1. AccountInv => InputsAligned
  BY EveryLegIsRight, Zenon DEF InputsAligned, EveryLeg, LegIsRight
<1> QED BY <1>1, AccountInvariant, PTL

\* _compute_risk_for_date keeps the valuation data of open structures aligned.
THEOREM ValuationAligns == Spec => []ValuationAlignedWhileOpen
<1>1. AccountInv => ValuationAlignedWhileOpen
  BY EveryLegIsRight, Zenon DEF ValuationAlignedWhileOpen, EveryLeg, LegIsRight
<1> QED BY <1>1, AccountInvariant, PTL

\* summary.py's check of a leg's length holds in every finished run for every
\* structure that closes with its trade.
THEOREM SummaryReads == Spec => []SummaryReadsTradesThatCloseAtOnce
<1>1. ASSUME AccountInv, phase = "done", NEW s \in DOMAIN structures,
             structures[s].closed = trades[structures[s].trade_id].exit_date,
             NEW i \in DOMAIN structures[s].legs
      PROVE  Len(structures[s].legs[i].daily_total_pnl) = Cardinality(PnlDates(s))
  <2> DEFINE st == structures[s]
             length == Len(st.legs[i].daily_total_pnl)
             start == st.original_entry_date
             last == LastPnlDate(s)
  <2>1. length # 0 /\ length = LastMarked(st.closed, "done", day) - start + 1
    BY <1>1, EveryLegIsRight, Zenon DEF LegIsRight
  <2>2. LastMarked(st.closed, "done", day) = last
    <3>1. day = NDays
      BY <1>1, Zenon DEF AccountInv, LoopIsRight
    <3> QED BY <1>1, <3>1 DEF LastMarked, LastPnlDate
  <2>3. st \in Rows /\ st.legs[i] \in LegStates
    <3>1. st \in Rows
      BY <1>1, Zenon DEF AccountInv, RowsAreRight, RowIsRight
    <3>2. st.legs \in Seq(LegStates) /\ i \in DOMAIN st.legs
      BY <3>1 DEF Rows
    <3> HIDE DEF st
    <3> QED BY <3>1, <3>2
  <2>4. length \in Nat
    BY <2>3 DEF LegStates
  <2>5. start \in Int /\ last \in Int
    <3>1. start \in Days /\ st.closed \in Days \cup {None}
      BY <2>3 DEF Rows
    <3>2. last = IF st.closed = None THEN NDays ELSE st.closed
      BY <1>1, Zenon DEF LastPnlDate
    <3> HIDE DEF start, last
    <3> QED BY <3>1, <3>2, SizesAssumption DEF Days, None
  <2>6. Cardinality(start..last) = IF start > last THEN 0 ELSE last - start + 1
    BY <2>5, FS_Interval, Zenon
  <2>7. PnlDates(s) = start..last
    BY Zenon DEF PnlDates
  <2> HIDE DEF length, start, last
  <2>8. length = Cardinality(start..last)
    BY <2>1, <2>2, <2>4, <2>5, <2>6
  <2> QED BY <2>7, <2>8 DEF length
<1>2. AccountInv => SummaryReadsTradesThatCloseAtOnce
  BY <1>1, Zenon DEF SummaryReadsTradesThatCloseAtOnce, PnlExtracts
<1> QED BY <1>2, AccountInvariant, PTL

-----------------------------------------------------------------------------
(***************************************************************************)
(* What the P&L of a leg adds up to.  It needs that no close is blank      *)
(* (run "blank" shows what a blank one does), and, to be inductive, that   *)
(* the mark of an open leg is the close of the day when there is one:      *)
(* fills are at the close.                                                 *)
(***************************************************************************)
NoBlankCloses == \A close \in Closes : ~close.nan

LegAddsUp(leg) ==
  /\ ~leg.current_price.nan /\ ~leg.paid.nan
  /\ leg.current_size * leg.current_price.value - leg.paid.value = TotalPnl(leg)

LegIsExplained(st, leg, closes) ==
  /\ LegAddsUp(leg)
  /\ st.closed = None /\ leg.ticker \in DOMAIN closes =>
       leg.current_price = closes[leg.ticker]

RowIsExplained(st, closes) ==
  \A i \in DOMAIN st.legs : LegIsExplained(st, st.legs[i], closes)

PnlInv == AccountInv /\ \A s \in DOMAIN structures : RowIsExplained(structures[s], quote)

LEMMA FilledIsInt == \A x \in Floats : Filled(x) \in Int
BY DEF Floats, Filled

LEMMA TotalPnlIsInt ==
  ASSUME NEW leg, leg.daily_total_pnl \in Seq(Floats) PROVE TotalPnl(leg) \in Int
<1> DEFINE series == leg.daily_total_pnl
           f == [d \in DOMAIN series |-> Filled(series[d])]
<1>1. IsFiniteSet(DOMAIN series) /\ \A d \in DOMAIN series : series[d] \in Floats
  <2>1. /\ DOMAIN series = 1..Len(series) /\ 1 \in Int /\ Len(series) \in Int
        /\ \A d \in DOMAIN series : series[d] \in Floats
    OBVIOUS
  <2> QED BY <2>1, FiniteInterval, Zenon
<1>2. \A d \in DOMAIN series : f[d] \in Int
  BY <1>1, FilledIsInt
<1>3. TotalPnl(leg) = SumFunctionOnSet(f, DOMAIN series)
  BY DEF TotalPnl, SumFunction
<1> HIDE DEF f
<1> QED BY <1>1, <1>2, <1>3, SumInt

\* A day's entry adds to the total; a gap adds nothing.
LEMMA TotalOfAppended ==
  ASSUME NEW leg, leg.daily_total_pnl \in Seq(Floats), NEW x \in Floats, NEW new,
         new.daily_total_pnl = Append(leg.daily_total_pnl, x)
  PROVE  TotalPnl(new) = TotalPnl(leg) + Filled(x)
<1> DEFINE old == leg.daily_total_pnl
           series == new.daily_total_pnl
           n == Len(old)
           f == [d \in DOMAIN old |-> Filled(old[d])]
           g == [d \in DOMAIN series |-> Filled(series[d])]
<1>1. /\ n \in Nat /\ DOMAIN old = 1..n /\ DOMAIN series = 1..(n + 1)
      /\ \A d \in 1..n : series[d] = old[d] /\ old[d] \in Floats
      /\ series[n + 1] = x
  <2> HIDE DEF old
  <2>1. old \in Seq(Floats) /\ series = Append(old, x)
    BY DEF old
  <2> HIDE DEF series
  <2> QED BY <2>1, AppendProperties
<1>2. /\ DOMAIN series = (1..n) \cup {n + 1} /\ n + 1 \notin 1..n /\ IsFiniteSet(1..n)
  <2>1. n \in Nat /\ DOMAIN series = 1..(n + 1)
    BY <1>1, Zenon
  <2> HIDE DEF n, series
  <2> QED BY <2>1, FiniteInterval
<1>3. g[n + 1] = Filled(x) /\ \A d \in 1..n : g[d] = f[d] /\ f[d] \in Int
  BY <1>1, <1>2, FilledIsInt
<1>4. /\ TotalPnl(leg) = SumFunctionOnSet(f, 1..n)
      /\ TotalPnl(new) = SumFunctionOnSet(g, (1..n) \cup {n + 1})
  BY <1>1, <1>2, Zenon DEF TotalPnl, SumFunction
<1>5. Filled(x) \in Int
  BY FilledIsInt
<1> HIDE DEF f, g, n
<1>6. SumFunctionOnSet(g, (1..n) \cup {n + 1}) = SumFunctionOnSet(g, 1..n) + g[n + 1]
  BY <1>2, <1>3, <1>5, SumAdd
<1>7. SumFunctionOnSet(g, 1..n) = SumFunctionOnSet(f, 1..n)
  BY <1>3, SumEqual
<1> QED BY <1>3, <1>4, <1>6, <1>7

\* The mark: the P&L of the day is what the position gained since the last one.
LEMMA MarkedLegAddsUp ==
  ASSUME NEW leg \in LegStates, LegAddsUp(leg), NEW closes, NEW given,
         \A k \in DOMAIN closes : closes[k] \in Floats /\ ~closes[k].nan
  PROVE  LET new == Marked(leg, closes, given)
         IN  /\ LegAddsUp(new) /\ new.ticker = leg.ticker
             /\ leg.ticker \in DOMAIN closes => new.current_price = closes[leg.ticker]
<1> DEFINE priced == leg.ticker \in DOMAIN closes
           pnl == IF priced
                  THEN Times(leg.current_size, Minus(closes[leg.ticker], leg.current_price))
                  ELSE NaN
           price == IF priced THEN closes[leg.ticker] ELSE leg.current_price
           new == Marked(leg, closes, given)
<1>1. /\ leg.current_size \in Int /\ leg.current_price \in Floats /\ leg.paid \in Floats
      /\ leg.daily_total_pnl \in Seq(Floats)
  BY DEF LegStates
<1>2. /\ new.daily_total_pnl = Append(leg.daily_total_pnl, pnl) /\ new.current_price = price
      /\ new.current_size = leg.current_size /\ new.paid = leg.paid /\ new.ticker = leg.ticker
  BY DEF Marked, LegStates
<1>3. pnl \in Floats
  BY <1>1, FloatOperations, Zenon
<1>4. TotalPnl(new) = TotalPnl(leg) + Filled(pnl)
  <2> HIDE DEF pnl, new
  <2> QED BY <1>1, <1>2, <1>3, TotalOfAppended
<1>5. TotalPnl(leg) \in Int
  BY <1>1, TotalPnlIsInt
<1>6. CASE priced
  <2> DEFINE n == leg.current_size
             p == leg.current_price.value
             c == closes[leg.ticker].value
  <2>1. n \in Int /\ p \in Int /\ c \in Int /\ ~closes[leg.ticker].nan /\ leg.paid.value \in Int
    BY <1>1, <1>6 DEF Floats
  <2>2. Filled(pnl) = n * (c - p)
    BY <1>6, <2>1 DEF LegAddsUp, Times, Minus, Num, Filled
  <2>3. n * p - leg.paid.value = TotalPnl(leg)
    BY DEF LegAddsUp
  <2>4. price.value = c /\ ~price.nan /\ ~leg.paid.nan
    BY <1>6, <2>1 DEF LegAddsUp
  <2> HIDE DEF pnl, price, new, n, p, c
  <2>5. n * (c - p) = n * c - n * p
    BY <2>1
  <2>6. n * c \in Int /\ n * p \in Int
    BY <2>1
  <2>7. n * c - leg.paid.value = TotalPnl(new)
    BY <1>4, <1>5, <2>1, <2>2, <2>3, <2>5, <2>6
  <2>8. LegAddsUp(new)
    BY <1>2, <2>4, <2>7 DEF LegAddsUp, n
  <2> QED BY <1>2, <1>6, <2>8 DEF new, price
<1>7. CASE ~priced
  <2>1. Filled(pnl) = 0 /\ price = leg.current_price
    BY <1>7 DEF Filled, NaN
  <2> HIDE DEF pnl, price, new
  <2>2. TotalPnl(new) = TotalPnl(leg)
    BY <1>4, <1>5, <2>1
  <2> QED BY <1>2, <1>7, <2>1, <2>2 DEF LegAddsUp, new
<1> QED BY <1>6, <1>7

\* A fill at the mark pays what the position is then worth more.
LEMMA MovedLegAddsUp ==
  ASSUME NEW leg \in LegStates, LegAddsUp(leg), NEW delta \in Int,
         leg.current_price = quote[leg.ticker]
  PROVE  LET new == Moved(leg, delta)
         IN  /\ LegAddsUp(new) /\ new.ticker = leg.ticker
             /\ new.current_price = leg.current_price
<1> DEFINE new == Moved(leg, delta)
           n == leg.current_size
           p == leg.current_price.value
           q == leg.paid.value
<1>1. n \in Int /\ p \in Int /\ q \in Int /\ ~leg.current_price.nan /\ ~leg.paid.nan
  BY DEF LegStates, Floats, LegAddsUp
<1>2. /\ new.current_size = n + delta /\ new.current_price = leg.current_price
      /\ new.paid = Num(q + delta * p) /\ new.ticker = leg.ticker
      /\ new.daily_total_pnl = leg.daily_total_pnl
  <2>1. Plus(leg.paid, Times(delta, leg.current_price)) = Num(q + delta * p)
    BY <1>1 DEF Plus, Times, Num
  <2> QED BY <2>1 DEF Moved, LegStates
<1>3. n * p - q = TotalPnl(leg) /\ TotalPnl(new) = TotalPnl(leg)
  BY <1>2 DEF LegAddsUp, TotalPnl
<1> HIDE DEF new, n, p, q
<1>4. (n + delta) * p = n * p + delta * p /\ n * p \in Int /\ delta * p \in Int
  BY <1>1
<1>5. (n + delta) * p - (q + delta * p) = TotalPnl(new)
  BY <1>1, <1>3, <1>4
<1>6. LegAddsUp(new)
  BY <1>1, <1>2, <1>5 DEF LegAddsUp, Num, p
<1> QED BY <1>2, <1>6 DEF new

LEMMA OpenedLegAddsUp ==
  ASSUME NEW order, order.size \in Int, quote[order.ticker] \in Floats,
         ~quote[order.ticker].nan, NEW given
  PROVE  LET new == OpenedLeg(order, given)
         IN  /\ LegAddsUp(new) /\ new.ticker = order.ticker
             /\ new.current_price = quote[order.ticker]
<1> DEFINE new == OpenedLeg(order, given)
           n == order.size
           p == quote[order.ticker].value
<1>1. /\ new.current_size = n /\ new.current_price = quote[order.ticker]
      /\ new.paid = Times(n, quote[order.ticker]) /\ new.ticker = order.ticker
      /\ new.daily_total_pnl = Append(<<>>, Num(0))
  BY DEF OpenedLeg
<1>2. p \in Int /\ n \in Int /\ n * p \in Int /\ Times(n, quote[order.ticker]) = Num(n * p)
  BY DEF Floats, Times
<1>3. TotalPnl(new) = 0
  <2> DEFINE none == [daily_total_pnl |-> <<>>]
             f == [d \in DOMAIN <<>> |-> Filled(<<>>[d])]
  <2>1. none.daily_total_pnl = <<>> /\ <<>> \in Seq(Floats) /\ Num(0) \in Floats
    BY FloatOperations
  <2>2. TotalPnl(none) = SumFunctionOnSet(f, {})
    BY DEF TotalPnl, SumFunction
  <2>3. TotalPnl(none) = 0
    <3> HIDE DEF f
    <3> QED BY <2>2, SumEmpty
  <2>4. Filled(Num(0)) = 0
    BY DEF Filled, Num
  <2> HIDE DEF none, new
  <2>5. TotalPnl(new) = TotalPnl(none) + Filled(Num(0))
    BY <1>1, <2>1, TotalOfAppended, Zenon
  <2> QED BY <2>3, <2>4, <2>5
<1> HIDE DEF new, n
<1>4. LegAddsUp(new)
  BY <1>1, <1>2, <1>3 DEF LegAddsUp, Num
<1> QED BY <1>1, <1>4 DEF new

\* Rows.
LEMMA UntouchedRow ==
  ASSUME NEW st, NEW q, NEW r, RowIsExplained(st, q), st.closed # None \/ DOMAIN r = {}
  PROVE  RowIsExplained(st, r)
BY Zenon DEF RowIsExplained, LegIsExplained

LEMMA LegsOfRow ==
  ASSUME NEW st \in Rows, NEW i \in DOMAIN st.legs PROVE st.legs[i] \in LegStates
<1>1. st.legs \in Seq(LegStates)
  BY DEF Rows
<1> QED BY <1>1

LEMMA QuotesAreNumbers ==
  ASSUME LoopIsRight, NoBlankCloses
  PROVE  \A k \in DOMAIN quote : quote[k] \in Floats /\ ~quote[k].nan
BY ClosesAreFloats, Zenon DEF LoopIsRight, NoBlankCloses

LEMMA MarkExplains ==
  ASSUME PnlInv, NoBlankCloses, MarkToMarket
  PROVE  \A s \in DOMAIN structures' : RowIsExplained(structures'[s], quote')
<1>1. PICK given \in Gives :
        structures' = [s \in DOMAIN structures |->
          IF IsOpen(s)
          THEN [structures[s] EXCEPT !.legs =
                  [i \in DOMAIN structures[s].legs |->
                     Marked(structures[s].legs[i], quote', given)]]
          ELSE structures[s]]
  BY Zenon DEF MarkToMarket
<1>2. \A k \in DOMAIN quote' : quote'[k] \in Floats /\ ~quote'[k].nan
  BY ClosesAreFloats, Zenon DEF MarkToMarket, NoBlankCloses
<1> SUFFICES ASSUME NEW s \in DOMAIN structures PROVE RowIsExplained(structures'[s], quote')
  BY <1>1, Zenon
<1> DEFINE st == structures[s]
           new == [i \in DOMAIN st.legs |-> Marked(st.legs[i], quote', given)]
<1>3. RowIsExplained(st, quote) /\ st \in Rows
  BY Zenon DEF PnlInv, AccountInv, RowsAreRight, RowIsRight
<1>4. CASE IsOpen(s)
  <2>1. structures'[s] = [st EXCEPT !.legs = new]
    BY <1>1, <1>4, Zenon
  <2>2. ASSUME NEW i \in DOMAIN new
        PROVE  /\ LegAddsUp(new[i])
               /\ new[i].ticker \in DOMAIN quote' =>
                    new[i].current_price = quote'[new[i].ticker]
    <3> DEFINE leg == st.legs[i]
    <3>1. leg \in LegStates /\ LegAddsUp(leg)
      BY <1>3, LegsOfRow, Zenon DEF RowIsExplained, LegIsExplained
    <3>2. new[i] = Marked(leg, quote', given)
      BY Zenon
    <3> HIDE DEF new, leg
    <3> QED BY <1>2, <3>1, <3>2, MarkedLegAddsUp
  <2> HIDE DEF new
  <2>3. [st EXCEPT !.legs = new].legs = new
    BY <1>3 DEF Rows
  <2> QED BY <2>1, <2>2, <2>3, Zenon DEF RowIsExplained, LegIsExplained
<1>5. CASE ~IsOpen(s)
  BY <1>1, <1>3, <1>5, UntouchedRow, Zenon DEF IsOpen
<1> QED BY <1>4, <1>5

LEMMA EndDayExplains ==
  ASSUME PnlInv, EndDay
  PROVE  \A s \in DOMAIN structures' : RowIsExplained(structures'[s], quote')
<1>1. PICK given \in Gives :
        structures' = [s \in DOMAIN structures |->
          IF IsOpen(s)
          THEN [structures[s] EXCEPT !.legs =
                  [i \in DOMAIN structures[s].legs |-> Valued(structures[s].legs[i], given)]]
          ELSE structures[s]]
  BY Zenon DEF EndDay
<1>2. DOMAIN quote' = {}
  BY DEF EndDay
<1> SUFFICES ASSUME NEW s \in DOMAIN structures PROVE RowIsExplained(structures'[s], quote')
  BY <1>1, Zenon
<1> DEFINE st == structures[s]
           new == [i \in DOMAIN st.legs |-> Valued(st.legs[i], given)]
<1>3. RowIsExplained(st, quote) /\ st \in Rows
  BY Zenon DEF PnlInv, AccountInv, RowsAreRight, RowIsRight
<1>4. CASE IsOpen(s)
  <2>1. structures'[s] = [st EXCEPT !.legs = new]
    BY <1>1, <1>4, Zenon
  <2>2. ASSUME NEW i \in DOMAIN new PROVE LegAddsUp(new[i])
    <3> DEFINE leg == st.legs[i]
    <3>1. leg \in LegStates /\ LegAddsUp(leg)
      BY <1>3, LegsOfRow, Zenon DEF RowIsExplained, LegIsExplained
    <3>2. new[i] = Valued(leg, given)
      BY Zenon
    <3> HIDE DEF new, leg
    <3>3. /\ new[i].current_price = leg.current_price /\ new[i].paid = leg.paid
          /\ new[i].current_size = leg.current_size
          /\ new[i].daily_total_pnl = leg.daily_total_pnl
      BY <3>1, <3>2 DEF Valued, LegStates
    <3> QED BY <3>1, <3>3, Zenon DEF LegAddsUp, TotalPnl
  <2> HIDE DEF new
  <2>3. [st EXCEPT !.legs = new].legs = new
    BY <1>3 DEF Rows
  <2>4. \A i \in DOMAIN new :
           /\ LegAddsUp(new[i])
           /\ new[i].ticker \in DOMAIN quote' => new[i].current_price = quote'[new[i].ticker]
    BY <1>2, <2>2, Zenon
  <2> HIDE DEF st
  <2> QED BY <2>1, <2>3, <2>4, Zenon DEF RowIsExplained, LegIsExplained
<1>5. CASE ~IsOpen(s)
  BY <1>1, <1>3, <1>5, UntouchedRow, Zenon DEF IsOpen
<1> QED BY <1>4, <1>5

LEMMA OpeningExplains ==
  ASSUME PnlInv, NoBlankCloses, NEW t, NEW content \in Contents, NewStructure(t, content)
  PROVE  \A s \in DOMAIN structures' : RowIsExplained(structures'[s], quote')
<1>1. PICK given \in Gives :
        structures' = Append(structures,
          [trade_id |-> t, original_entry_date |-> day, closed |-> None,
           legs |-> [i \in DOMAIN content |-> OpenedLeg(content[i], given)],
           event_log |-> <<Event("open", content,
                                 [i \in DOMAIN content |-> content[i].size])>>])
  BY Zenon DEF NewStructure
<1> DEFINE legs == [i \in DOMAIN content |-> OpenedLeg(content[i], given)]
           row == [trade_id |-> t, original_entry_date |-> day, closed |-> None,
                   legs |-> legs,
                   event_log |-> <<Event("open", content,
                                         [i \in DOMAIN content |-> content[i].size])>>]
<1>2. Priced(content) /\ quote' = quote
  BY Zenon DEF NewStructure
<1>3. structures' = Append(structures, row) /\ row.legs = legs
  BY <1>1, Zenon
<1>4. ASSUME NEW i \in DOMAIN legs
      PROVE  /\ LegAddsUp(legs[i])
             /\ legs[i].ticker \in DOMAIN quote => legs[i].current_price = quote[legs[i].ticker]
  <2>1. content[i].ticker \in DOMAIN quote
    BY <1>2, Zenon DEF Priced
  <2>2. quote[content[i].ticker] \in Floats /\ ~quote[content[i].ticker].nan
    BY <2>1, QuotesAreNumbers, Zenon DEF PnlInv, AccountInv
  <2>3. content[i].size \in Int
    <3>1. content \in Seq([ticker : Tickers, size : Int \ {0}, cost_leg : BOOLEAN])
      BY SizesAssumption, Zenon
    <3>2. content[i] \in [ticker : Tickers, size : Int \ {0}, cost_leg : BOOLEAN]
      <4> DEFINE Orders == [ticker : Tickers, size : Int \ {0}, cost_leg : BOOLEAN]
      <4>1. content \in Seq(Orders) /\ i \in DOMAIN content
        BY <3>1, Zenon
      <4> HIDE DEF Orders
      <4>2. content[i] \in Orders
        BY <4>1
      <4> QED BY <4>2 DEF Orders
    <3> QED BY <3>2
  <2>4. legs[i] = OpenedLeg(content[i], given)
    BY Zenon
  <2> HIDE DEF legs
  <2> QED BY <2>2, <2>3, <2>4, OpenedLegAddsUp
<1> HIDE DEF row, legs
<1>5. RowIsExplained(row, quote)
  BY <1>3, <1>4, Zenon DEF RowIsExplained, LegIsExplained
<1>6. structures \in Seq(Rows) /\ DOMAIN structures = 1..Len(structures) /\ Len(structures) \in Nat
  BY StructureRows, Zenon DEF PnlInv, AccountInv, RowsAreRight
<1>7. ASSUME NEW s \in DOMAIN structures'
      PROVE  structures'[s] = row \/ (s \in DOMAIN structures /\ structures'[s] = structures[s])
  <2>1. /\ DOMAIN structures' = 1..(Len(structures) + 1)
        /\ structures'[Len(structures) + 1] = row
        /\ \A r \in 1..Len(structures) : structures'[r] = structures[r]
    BY <1>3, <1>6
  <2> QED BY <1>6, <2>1
<1> QED BY <1>2, <1>5, <1>7, Zenon DEF PnlInv

LEMMA ResizeExplains ==
  ASSUME PnlInv, NEW s \in DOMAIN structures, NEW delta \in Int, Resize(s, delta)
  PROVE  \A r \in DOMAIN structures' : RowIsExplained(structures'[r], quote')
<1> DEFINE st == structures[s]
           leg == Moved(st.legs[1], delta)
           log == Append(st.event_log, IF delta > 0 THEN Event("partial add", st.legs, <<delta>>)
                                       ELSE Event("partial unwind", st.legs, <<-delta>>))
           row == [st EXCEPT !.legs = <<leg>>, !.event_log = log]
<1>1. /\ s \in Modifiable /\ Len(st.legs) = 1 /\ Priced(st.legs) /\ quote' = quote
      /\ phase = "trade"
  BY Zenon DEF Resize
<1>2. structures' = [structures EXCEPT ![s] = row]
  BY DEF Resize
<1>3. st.closed = None /\ st \in Rows /\ RowIsExplained(st, quote) /\ LoopIsRight
  BY <1>1, Zenon DEF PnlInv, AccountInv, RowsAreRight, RowIsRight, Modifiable,
     OpenStructures, IsOpen
<1>4. DOMAIN st.legs = {1}
  BY <1>1, <1>3, PricedLegs
<1>5. /\ st.legs[1] \in LegStates /\ LegAddsUp(st.legs[1])
      /\ st.legs[1].current_price = quote[st.legs[1].ticker]
  BY <1>1, <1>3, <1>4, LegsOfRow DEF RowIsExplained, LegIsExplained, Priced
<1>6. row.legs = <<leg>> /\ DOMAIN <<leg>> = {1} /\ <<leg>>[1] = leg
  BY <1>3 DEF Rows
<1>7. /\ LegAddsUp(leg)
      /\ leg.current_price = quote[leg.ticker]
  <2> DEFINE old == st.legs[1]
  <2> HIDE DEF old, st
  <2> QED BY <1>5, MovedLegAddsUp DEF old
<1> HIDE DEF leg, row
<1>8. RowIsExplained(row, quote)
  BY <1>6, <1>7 DEF RowIsExplained, LegIsExplained
<1> HIDE DEF st
<1>9. \A r \in DOMAIN structures : structures'[r] = IF r = s THEN row ELSE structures[r]
  BY <1>2, Zenon
<1> QED BY <1>1, <1>2, <1>8, <1>9, Zenon DEF PnlInv

LEMMA CloseExplains ==
  ASSUME PnlInv, NEW t, NEW closing, Close(t, closing)
  PROVE  \A s \in DOMAIN structures' : RowIsExplained(structures'[s], quote')
<1> DEFINE legs(st) == [i \in DOMAIN st.legs |-> Moved(st.legs[i], -st.legs[i].current_size)]
           closed(st) ==
      [st EXCEPT !.closed = day, !.legs = legs(st),
                 !.event_log = Append(@, Event("full close", st.legs,
                   [i \in DOMAIN st.legs |-> st.legs[i].current_size]))]
<1>1. /\ closing \subseteq Modifiable /\ quote' = quote
      /\ \A s \in closing : Priced(structures[s].legs)
  BY Zenon DEF Close
<1>2. structures' = [s \in DOMAIN structures |->
        IF s \in closing THEN closed(structures[s]) ELSE structures[s]]
  BY Zenon DEF Close
<1> SUFFICES ASSUME NEW s \in DOMAIN structures PROVE RowIsExplained(structures'[s], quote)
  BY <1>1, <1>2, Zenon
<1> DEFINE st == structures[s]
<1>3. RowIsExplained(st, quote) /\ st \in Rows /\ LoopIsRight
  BY Zenon DEF PnlInv, AccountInv, RowsAreRight, RowIsRight
<1>4. CASE s \in closing
  <2>1. structures'[s] = closed(st)
    BY <1>2, <1>4, Zenon
  <2>2. st.closed = None /\ Priced(st.legs)
    BY <1>1, <1>4, Zenon DEF Modifiable, OpenStructures, IsOpen
  <2>3. ASSUME NEW i \in DOMAIN st.legs
        PROVE  /\ LegAddsUp(legs(st)[i])
               /\ legs(st)[i].current_price = quote[legs(st)[i].ticker]
    <3> DEFINE leg == st.legs[i]
               delta == -leg.current_size
    <3>1. /\ leg \in LegStates /\ LegAddsUp(leg) /\ leg.current_price = quote[leg.ticker]
      BY <1>3, <2>2, LegsOfRow, Zenon DEF RowIsExplained, LegIsExplained, Priced
    <3>2. legs(st)[i] = Moved(leg, delta)
      BY Zenon
    <3>3. delta \in Int
      BY <3>1 DEF LegStates
    <3> HIDE DEF legs, leg, delta
    <3> QED BY <3>1, <3>2, <3>3, MovedLegAddsUp
  <2>4. closed(st).legs = legs(st) /\ DOMAIN legs(st) = DOMAIN st.legs
    BY <1>3 DEF Rows
  <2> HIDE DEF legs, closed, st
  <2> QED BY <2>1, <2>3, <2>4, Zenon DEF RowIsExplained, LegIsExplained
<1>5. CASE s \notin closing
  BY <1>2, <1>3, <1>5, Zenon
<1> QED BY <1>4, <1>5

LEMMA PnlInvStep == ASSUME PnlInv, NoBlankCloses, [Next]_vars PROVE PnlInv'
<1> DEFINE Explained == \A s \in DOMAIN structures : RowIsExplained(structures[s], quote)
<1>1. ASSUME MarkToMarket PROVE Explained'
  BY <1>1, MarkExplains, Zenon
<1>2. ASSUME NEW content \in Contents,
             OpenTrade(content) \/ \E t \in DOMAIN trades : ExtendTrade(t, content)
      PROVE  Explained'
  BY <1>2, OpeningExplains, Zenon DEF OpenTrade, ExtendTrade
<1>3. ASSUME NEW s \in DOMAIN structures, NEW n \in Amounts, Resize(s, n) \/ Resize(s, -n)
      PROVE  Explained'
  <2>1. n \in Int /\ -n \in Int
    BY SizesAssumption
  <2> QED BY <1>3, <2>1, ResizeExplains, Zenon
<1>4. ASSUME CloseSome PROVE Explained'
  BY <1>4, CloseExplains, Zenon DEF CloseSome
<1>5. ASSUME EndDay PROVE Explained'
  BY <1>5, EndDayExplains, Zenon
<1>6. CASE UNCHANGED vars
  <2>1. UNCHANGED <<phase, day, quote, structures, trades, modified>>
    BY <1>6, Zenon DEF vars
  <2> QED BY <2>1, Zenon DEF PnlInv, AccountInv, LoopIsRight, RowsAreRight, RowIsRight, LegIsRight
<1>7. Explained' \/ UNCHANGED vars
  BY <1>1, <1>2, <1>3, <1>4, <1>5, Zenon DEF Next, Stopped
<1> QED BY <1>6, <1>7, AccountStep, Zenon DEF PnlInv

LEMMA PnlInvariant == ASSUME NoBlankCloses PROVE Spec => []PnlInv
<1>1. Init => PnlInv
  <2>1. Init => DOMAIN structures = {}
    BY DEF Init
  <2> QED BY <2>1, AccountInit, Zenon DEF PnlInv
<1>2. PnlInv /\ [Next]_vars => PnlInv'
  BY PnlInvStep
<1> QED BY <1>1, <1>2, PTL DEF Spec

\* Marks, gaps, fills and closes: without blank closes, the P&L a leg has shown is
\* what its position is worth less what its fills paid.
THEOREM PnlIsExplained ==
  ASSUME NoBlankCloses
  PROVE  Spec => []PnlExplainsFills
<1>1. ASSUME PnlInv, NEW s \in DOMAIN structures, NEW i \in DOMAIN structures[s].legs
      PROVE  LET leg == structures[s].legs[i]
             IN  Minus(Times(leg.current_size, leg.current_price), leg.paid)
                   = Num(TotalPnl(leg))
  <2> DEFINE leg == structures[s].legs[i]
  <2>1. LegAddsUp(leg)
    BY <1>1, Zenon DEF PnlInv, RowIsExplained, LegIsExplained
  <2> HIDE DEF leg
  <2>2. Minus(Times(leg.current_size, leg.current_price), leg.paid) = Num(TotalPnl(leg))
    BY <2>1 DEF LegAddsUp, Minus, Times, Num
  <2> QED BY <2>2 DEF leg
<1>2. PnlInv => PnlExplainsFills
  BY <1>1, Zenon DEF PnlExplainsFills, EveryLeg
<1> QED BY <1>2, PnlInvariant, PTL
===============================================================================
