------------------------- MODULE Backtester_proofs -------------------------
(***************************************************************************)
(* Proofs about module Backtester, for every value of its constants: type  *)
(* correctness, the T-1 book against the live book during dispatch, and    *)
(* that the commit tripwire never fires on content that names a ticker     *)
(* once per structure.                                                     *)
(***************************************************************************)
EXTENDS BacktesterProperties, SequenceTheorems, TLAPS

-----------------------------------------------------------------------------
(* Conversion. *)

\* What the Action constructor guarantees of an action's fields.
LEMMA ActionFields ==
  ASSUME NEW a \in AnyAction
  PROVE  /\ a.type \in {"NEW", "UNWIND"}
         /\ a.trade_id \in Nat /\ a.structure_id \in Nat
         /\ a.size \in Nat
         /\ CreatesContent(a) => a.spec \in Seq(Content) \ {<<>>}
         /\ Adds(a) => a.size \in Nat \ {0}
         /\ CreatesContent(a) \/ Adds(a) \/ Reduces(a) \/ Closes(a)
<1> DEFINE Row(type, specs, trades, ids, amounts) ==
      [type : {type}, spec : specs, trade_id : trades, structure_id : ids, size : amounts]
<1>a. Amounts \subseteq Nat \ {0} /\ None \in Nat
  BY ContentAssumption DEF None
<1>1. CASE a \in Row("NEW", TradeSpecs, {None}, {None}, {None})
  BY <1>1, ContentAssumption DEF Content, None, CreatesContent, Adds
<1>2. CASE a \in Row("NEW", {<<st>> : st \in StructureSpecs}, Nat \ {0}, {None}, {None})
  <2>1. PICK st \in StructureSpecs : a.spec = <<st>>
    BY <1>2
  <2>2. a.spec \in Seq(Content) \ {<<>>}
    <3>1. st \in Content
      BY ContentAssumption DEF Content
    <3> QED BY <2>1, <3>1
  <2> QED BY <1>2, <2>2 DEF None, CreatesContent, Adds
<1>3. CASE a \in Row("NEW", {<<>>}, Nat \ {0}, Nat \ {0}, Amounts)
  BY <1>a, <1>3 DEF None, CreatesContent, Adds
<1>4. CASE a \in Row("UNWIND", {<<>>}, Nat \ {0}, Nat \ {0}, Amounts \cup {None})
  <2>1. /\ a.type = "UNWIND" /\ a.trade_id \in Nat /\ a.structure_id \in Nat
        /\ a.size \in Amounts \cup {None}
    BY <1>4
  <2>2. a.size \in Nat
    BY <1>a, <2>1, Zenon
  <2> QED BY <2>1, <2>2 DEF CreatesContent, Adds, Reduces, Closes
<1>5. CASE a \in Row("UNWIND", {<<>>}, (Nat \ {0}) \cup {None}, {None}, {None})
  BY <1>5 DEF None, CreatesContent, Adds, Reduces, Closes
<1> QED BY <1>1, <1>2, <1>3, <1>4, <1>5 DEF AnyAction, ActionMatrix

\* The structures a converted action targets: none for content, those it
\* addresses otherwise, and all of them are in the book it was converted on.
LEMMA OrderTargets ==
  ASSUME NEW a \in AnyAction, NEW book, None \notin DOMAIN book,
         ConvertibleAction(a, book)
  PROVE  /\ CreatesContent(a) =>
              /\ OrdersOf(a, book) = [k \in DOMAIN a.spec |->
                   [structure_id |-> None, trade_id |-> a.trade_id, legs |-> a.spec[k]]]
              /\ Targets(OrdersOf(a, book)) = {}
         /\ ~CreatesContent(a) =>
              /\ OrdersOf(a, book) = [s \in Addressed(a, book) |->
                   [structure_id |-> s, trade_id |-> book[s].trade_id,
                    legs |-> DeltaLegs(a, book[s])]]
              /\ Targets(OrdersOf(a, book)) = Addressed(a, book)
              /\ Addressed(a, book) \subseteq DOMAIN book
<1>1. CASE CreatesContent(a)
  BY <1>1 DEF OrdersOf, Targets
<1>2. CASE ~CreatesContent(a)
  <2>1. Addressed(a, book) \subseteq DOMAIN book
    BY <1>2, ActionFields
    DEF ConvertibleAction, Addressed, Addresses, StructuresOf, TradesIn, Adds, Reduces, Closes
  <2>2. OrdersOf(a, book) = [s \in Addressed(a, book) |->
          [structure_id |-> s, trade_id |-> book[s].trade_id,
           legs |-> DeltaLegs(a, book[s])]]
    BY <1>2 DEF OrdersOf
  <2>3. Targets(OrdersOf(a, book)) = Addressed(a, book)
    BY <2>1, <2>2 DEF Targets
  <2> QED BY <1>2, <2>1, <2>2, <2>3
<1> QED BY <1>1, <1>2

-----------------------------------------------------------------------------
(* The group at the cursor. *)

LEMMA OpenedRow ==
  ASSUME TypeOK, NEW s \in Opened
  PROVE  /\ structures[s] \in Structures
         /\ structures[s].legs \in Content
         /\ structures[s].trade_id \in Nat \ {0}
<1>1. structures[s] \in Structures
  BY DEF TypeOK, Opened
<1> QED BY <1>1 DEF Structures

\* A row of the live book shows the structure's owner and legs.
LEMMA LiveRow ==
  ASSUME TypeOK, NEW s \in active_structures
  PROVE  /\ s \in Opened
         /\ structures[s] \in Structures
         /\ LiveBook[s] = [trade_id |-> structures[s].trade_id, legs |-> structures[s].legs]
         /\ LiveBook[s] \in BookRows
<1>1. s \in Opened /\ structures[s] \in Structures
  BY DEF TypeOK, Opened
<1>2. LiveBook[s] = [trade_id |-> structures[s].trade_id, legs |-> structures[s].legs]
  BY DEF LiveBook
<1> QED BY <1>1, <1>2 DEF Structures, BookRows

\* What is known of the group being dispatched: it is the conversion of the
\* action logged at the cursor; content orders carry the content of its spec,
\* target orders address structures that are live as the T-1 book shows them.
LEMMA CurrentGroup ==
  ASSUME TypeOK, PlanIsThePatch, PendingTargetsAreCurrent,
         phase \in {"dispatch", "commit"}, cursor <= Len(action_group_log)
  PROVE  /\ cursor \in Patch /\ cursor \in DOMAIN action_group_log
         /\ CurrentAction \in AnyAction
         /\ ConvertibleAction(CurrentAction, portfolio_state)
         /\ CreatesContent(CurrentAction) =>
              /\ Len(Current) \in Nat /\ DOMAIN Current = 1..Len(Current)
              /\ \A k \in DOMAIN Current :
                   /\ Current[k].legs \in Content
                   /\ Current[k].structure_id = None
         /\ ~CreatesContent(CurrentAction) =>
              /\ DOMAIN Current = Addressed(CurrentAction, portfolio_state)
              /\ DOMAIN Current = Targets(Current)
              /\ DOMAIN Current \subseteq DOMAIN portfolio_state
              /\ \A s \in DOMAIN Current :
                   /\ s \in active_structures /\ s \in Opened
                   /\ structures[s] \in Structures
                   /\ portfolio_state[s].legs = structures[s].legs
                   /\ portfolio_state[s].trade_id = structures[s].trade_id
                   /\ Current[s] = [structure_id |-> s,
                                    trade_id |-> structures[s].trade_id,
                                    legs |-> DeltaLegs(CurrentAction, structures[s])]
<1>1. /\ cursor \in Patch /\ cursor \in DOMAIN action_group_log
      /\ action_group_log[cursor] \in Records
  BY DEF TypeOK, PlanIsThePatch, Patch
<1>2. /\ Len(action_group_log[cursor].actions) = 1
      /\ ConvertibleAction(CurrentAction, portfolio_state)
  BY <1>1 DEF PlanIsThePatch, PatchConverts, Convertible, CurrentAction
<1>3. CurrentAction \in AnyAction
  BY <1>1, <1>2 DEF Records, CurrentAction
<1>4. Current = OrdersOf(CurrentAction, portfolio_state)
  BY <1>1 DEF PlanIsThePatch, PatchOrders, Current, CurrentAction
<1>5. None \notin DOMAIN portfolio_state
  BY DEF TypeOK, Opened, None
<1>6. CASE CreatesContent(CurrentAction)
  <2>1. Current = [k \in DOMAIN CurrentAction.spec |->
                     [structure_id |-> None, trade_id |-> CurrentAction.trade_id,
                      legs |-> CurrentAction.spec[k]]]
    BY <1>2, <1>3, <1>4, <1>5, <1>6, OrderTargets
  <2>2. CurrentAction.spec \in Seq(Content)
    BY <1>3, <1>6, ActionFields
  <2>3. Len(Current) \in Nat /\ DOMAIN Current = 1..Len(Current)
    BY <2>1, <2>2
  <2>4. \A k \in DOMAIN Current : Current[k].legs \in Content /\ Current[k].structure_id = None
    BY <2>1, <2>2
  <2> QED BY <1>1, <1>2, <1>3, <1>6, <2>3, <2>4
<1>7. CASE ~CreatesContent(CurrentAction)
  <2>1. /\ Current = [s \in Addressed(CurrentAction, portfolio_state) |->
              [structure_id |-> s, trade_id |-> portfolio_state[s].trade_id,
               legs |-> DeltaLegs(CurrentAction, portfolio_state[s])]]
        /\ Targets(Current) = Addressed(CurrentAction, portfolio_state)
        /\ Addressed(CurrentAction, portfolio_state) \subseteq DOMAIN portfolio_state
    BY <1>2, <1>3, <1>4, <1>5, <1>7, OrderTargets
  <2>2. \A s \in DOMAIN Current : s \in active_structures /\ LiveBook[s] = portfolio_state[s]
    <3>1. cursor \in cursor..Len(action_group_log)
      BY DEF TypeOK
    <3> QED BY <2>1, <3>1 DEF PendingTargetsAreCurrent, Current
  <2>3. ASSUME NEW s \in DOMAIN Current
        PROVE  /\ s \in active_structures /\ s \in Opened
               /\ structures[s] \in Structures
               /\ portfolio_state[s].legs = structures[s].legs
               /\ portfolio_state[s].trade_id = structures[s].trade_id
    <3>1. s \in active_structures /\ LiveBook[s] = portfolio_state[s]
      BY <2>2
    <3>2. /\ s \in Opened /\ structures[s] \in Structures
          /\ LiveBook[s] = [trade_id |-> structures[s].trade_id, legs |-> structures[s].legs]
      BY <3>1, LiveRow
    <3> QED BY <3>1, <3>2
  <2>4. ASSUME NEW s \in DOMAIN Current
        PROVE  Current[s] = [structure_id |-> s, trade_id |-> structures[s].trade_id,
                             legs |-> DeltaLegs(CurrentAction, structures[s])]
    BY <2>1, <2>3 DEF DeltaLegs
  <2> QED BY <1>1, <1>2, <1>3, <1>7, <2>1, <2>3, <2>4
<1> QED BY <1>6, <1>7

-----------------------------------------------------------------------------
(* Type correctness. *)

LEMMA FunctionIsSeq ==
  ASSUME NEW T, NEW n \in Nat, NEW f \in [1..n -> T]
  PROVE  f \in Seq(T) /\ Len(f) = n
BY SeqDef

LEMMA ContentFields ==
  ASSUME NEW legs \in Content
  PROVE  /\ Len(legs) \in Nat \ {0} /\ DOMAIN legs = 1..Len(legs)
         /\ \A i \in DOMAIN legs : legs[i] \in Legs /\ legs[i].size \in Int
<1>1. legs \in Seq(Legs) /\ legs # <<>>
  BY DEF Content
<1>2. \A i \in DOMAIN legs : legs[i] \in Legs
  BY <1>1
<1> QED BY <1>1, <1>2 DEF Legs

\* The sizes of well-formed legs, and legs with other integer sizes.
LEMMA LegsMapped ==
  ASSUME NEW legs \in Content, NEW g, g \in [DOMAIN legs -> Int]
  PROVE  /\ g \in Seq(Int)
         /\ [i \in DOMAIN legs |-> [ticker |-> legs[i].ticker, size |-> g[i]]] \in Content
<1>1. /\ legs \in Seq(Legs) /\ Len(legs) \in Nat /\ Len(legs) # 0
      /\ DOMAIN legs = 1..Len(legs) /\ legs \in [1..Len(legs) -> Legs]
  BY DEF Content
<1>2. g \in Seq(Int)
  BY <1>1, FunctionIsSeq
<1> DEFINE h == [i \in DOMAIN legs |-> [ticker |-> legs[i].ticker, size |-> g[i]]]
<1>3. h \in [1..Len(legs) -> Legs]
  BY <1>1 DEF Legs
<1>4. h \in Seq(Legs) /\ Len(h) = Len(legs)
  BY <1>1, <1>3, FunctionIsSeq
<1> QED BY <1>1, <1>2, <1>4 DEF Content

LEMMA InitType == Init => TypeOK
<1> SUFFICES ASSUME Init PROVE TypeOK
  OBVIOUS
<1> USE DEF Init
<1>1. 1 \in Days /\ 1 \in 1..MaxRuns
  BY BoundsAssumption DEF Days
<1>2. DOMAIN portfolio_state = {} /\ portfolio_state \in [DOMAIN portfolio_state -> BookRows]
  OBVIOUS
<1>3. Len(structures) = 0 /\ Opened = {} /\ structures \in Seq(Structures)
  BY DEF Opened
<1>4. /\ trade_history \in Seq([entry_date : Days, exit_date : Days \cup {None}])
      /\ action_group_log \in Seq(Records)
  OBVIOUS
<1> QED BY <1>1, <1>2, <1>3, <1>4 DEF TypeOK, Phases, Reasons

\* Opening and extending append well-formed structures of an existing trade.
LEMMA NewStructuresType ==
  ASSUME TypeOK, NEW t \in Nat \ {0}, NewStructures(t),
         DOMAIN Current = 1..Len(Current), Len(Current) \in Nat,
         \A k \in DOMAIN Current : Current[k].legs \in Content
  PROVE  /\ structures' \in Seq(Structures)
         /\ Len(structures') = Len(structures) + Len(Current)
         /\ \A s \in Opened : structures'[s] = structures[s]
         /\ \A s \in Opened' \ Opened : /\ s - Len(structures) \in DOMAIN Current
                                        /\ structures'[s].trade_id = t
                                        /\ structures'[s].legs = Current[s - Len(structures)].legs
                                        /\ structures'[s] =
                                             OpenedStructure(t, Current[s - Len(structures)].legs)
         /\ active_structures' = active_structures \cup (Opened' \ Opened)
<1> DEFINE new == [k \in 1..Len(Current) |-> OpenedStructure(t, Current[k].legs)]
<1>1. ASSUME NEW k \in 1..Len(Current)
      PROVE  /\ new[k] \in Structures
             /\ new[k] = OpenedStructure(t, Current[k].legs)
             /\ new[k].trade_id = t /\ new[k].legs = Current[k].legs
  <2>1. Current[k].legs \in Content
    OBVIOUS
  <2>2. [i \in DOMAIN Current[k].legs |-> Current[k].legs[i].size] \in Seq(Int)
    <3>1. \A i \in DOMAIN Current[k].legs : Current[k].legs[i].size \in Int
      BY <2>1, ContentFields
    <3> QED BY <2>1, <3>1, LegsMapped
  <2>3. OpenedStructure(t, Current[k].legs) \in Structures
    BY <2>1, <2>2 DEF OpenedStructure, Structures, Events, TypeOK
  <2> QED BY <2>3 DEF OpenedStructure
<1>2. new \in Seq(Structures) /\ Len(new) = Len(Current)
  BY <1>1
<1>3. structures \in Seq(Structures) /\ structures' = structures \o new
  BY DEF TypeOK, NewStructures
<1> HIDE DEF new
<1>4. /\ structures' \in Seq(Structures)
      /\ Len(structures') = Len(structures) + Len(Current)
  BY <1>2, <1>3, ConcatProperties
<1>5. \A s \in Opened : structures'[s] = structures[s]
  BY <1>2, <1>3, ConcatProperties DEF Opened
<1>6. \A s \in Opened' \ Opened : /\ s - Len(structures) \in DOMAIN Current
                                  /\ structures'[s] = new[s - Len(structures)]
  BY <1>2, <1>3, <1>4, ConcatProperties DEF Opened
<1>7. active_structures' = active_structures \cup (Opened' \ Opened)
  BY <1>3, <1>4 DEF NewStructures, Opened
<1> QED BY <1>1, <1>4, <1>5, <1>6, <1>7

\* Adding to a structure or unwinding it leaves it well-formed.
LEMMA ResizedType ==
  ASSUME TypeOK, NEW a \in AnyAction, NEW st \in Structures
  PROVE  /\ Resized(a, st) \in Structures
         /\ Resized(a, st).trade_id = st.trade_id
         /\ DOMAIN Resized(a, st).legs = DOMAIN st.legs
         /\ \A i \in DOMAIN st.legs : Resized(a, st).legs[i].ticker = st.legs[i].ticker
<1> DEFINE change == SizeChanges(a, st)
           size(i) == SignedSize(a, st.legs[i], change[i])
           event == [event_type |-> EventType(a, st), date |-> day,
                     leg_size_changes |-> change]
<1>1. /\ st.legs \in Content /\ st.event_log \in Seq(Events) /\ st.trade_id \in Nat \ {0}
      /\ a.size \in Int /\ day \in Days
  BY ActionFields DEF Structures, TypeOK
<1>2. \A i \in DOMAIN st.legs : change[i] \in Int
  BY <1>1, ContentFields DEF SizeChanges
<1>3. change \in Seq(Int)
  BY <1>1, <1>2, LegsMapped DEF SizeChanges
<1>4. \A i \in DOMAIN st.legs : size(i) \in Int
  BY <1>1, <1>2, ContentFields DEF SignedSize
<1>5. [i \in DOMAIN st.legs |-> [ticker |-> st.legs[i].ticker, size |-> size(i)]] \in Content
  <2> DEFINE g == [i \in DOMAIN st.legs |-> size(i)]
  <2>1. g \in [DOMAIN st.legs -> Int]
    BY <1>4
  <2> HIDE DEF size
  <2>2. [i \in DOMAIN st.legs |-> [ticker |-> st.legs[i].ticker, size |-> g[i]]] \in Content
    BY <1>1, <2>1, LegsMapped
  <2> QED BY <2>2
<1>6. event \in Events
  BY <1>1, <1>3 DEF Events, EventType
<1>7. Append(st.event_log, event) \in Seq(Events)
  BY <1>1, <1>6, AppendProperties
<1>8. Resized(a, st) = [trade_id |-> st.trade_id,
        legs |-> [i \in DOMAIN st.legs |-> [ticker |-> st.legs[i].ticker, size |-> size(i)]],
        event_log |-> Append(st.event_log, event)]
  BY DEF Resized
<1> HIDE DEF event, size
<1> QED BY <1>1, <1>5, <1>7, <1>8 DEF Structures

\* Whatever patch the signal emits, its groups are typed.
LEMMA PatchType ==
  ASSUME TypeOK, NEW patch \in Patches
  PROVE  /\ Len(patch) \in Nat /\ patch \in Seq(Seq(AnyAction) \ {<<>>})
         /\ DOMAIN patch = 1..Len(patch)
<1>1. Actions \subseteq AnyAction
  <2>1. DOMAIN trade_history \subseteq Nat \ {0} /\ DOMAIN structures \subseteq Nat \ {0}
    BY DEF TypeOK
  <2> DEFINE Row(type, specs, trades, ids, amounts) ==
        [type : {type}, spec : specs, trade_id : trades, structure_id : ids, size : amounts]
             T == DOMAIN trade_history
             S == DOMAIN structures
             N == Nat \ {0}
  <2>2. /\ T \subseteq N /\ S \subseteq N
    BY <2>1
  <2> HIDE DEF T, S, N
  <2>3. /\ Row("NEW", {<<st>> : st \in StructureSpecs}, T, {None}, {None})
             \subseteq Row("NEW", {<<st>> : st \in StructureSpecs}, N, {None}, {None})
        /\ Row("NEW", {<<>>}, T, S, Amounts) \subseteq Row("NEW", {<<>>}, N, N, Amounts)
        /\ Row("UNWIND", {<<>>}, T, S, Amounts \cup {None})
             \subseteq Row("UNWIND", {<<>>}, N, N, Amounts \cup {None})
        /\ Row("UNWIND", {<<>>}, T \cup {None}, {None}, {None})
             \subseteq Row("UNWIND", {<<>>}, N \cup {None}, {None}, {None})
    BY <2>2
  <2> QED BY <2>3 DEF Actions, AnyAction, ActionMatrix, T, S, N
<1>2. Groups \subseteq Seq(AnyAction) \ {<<>>}
  <2> SUFFICES ASSUME NEW n \in 1..MaxActions, NEW g \in [1..n -> Actions]
               PROVE  g \in Seq(AnyAction) \ {<<>>}
    BY DEF Groups
  <2>1. n \in Nat \ {0} /\ g \in [1..n -> AnyAction]
    BY <1>1, BoundsAssumption
  <2>2. g \in Seq(AnyAction) /\ Len(g) = n
    BY <2>1, FunctionIsSeq
  <2> QED BY <2>1, <2>2
<1>3. PICK n \in 0..MaxPatch : patch \in [1..n -> Groups]
  BY DEF Patches
<1>4. n \in Nat /\ patch \in [1..n -> Seq(AnyAction) \ {<<>>}]
  BY <1>2, <1>3, BoundsAssumption
<1> QED BY <1>4, FunctionIsSeq

LEMMA EmitType == ASSUME TypeOK, EmitPatch PROVE TypeOK'
<1>1. PICK patch \in Patches : Emit(patch)
  BY DEF EmitPatch
<1> DEFINE new == [i \in DOMAIN patch |-> [actions |-> patch[i], date |-> day,
                                           finalized |-> FALSE, outcomes |-> {}]]
<1>2. new \in [1..Len(patch) -> Records] /\ Len(patch) \in Nat
  BY PatchType DEF Records, TypeOK
<1>3. new \in Seq(Records)
  BY <1>2, FunctionIsSeq
<1>4. action_group_log' \in Seq(Records)
  <2> HIDE DEF new
  <2> QED BY <1>1, <1>3, ConcatProperties DEF Emit, TypeOK, new
<1>5. first' \in Nat \ {0}
  BY <1>1 DEF Emit, TypeOK
<1> QED BY <1>1, <1>4, <1>5 DEF Emit, bookVars, TypeOK, Phases, Opened

LEMMA ExecuteType == ASSUME TypeOK, Execute PROVE TypeOK'
<1>1. cursor \in DOMAIN action_group_log /\ action_group_log[cursor] \in Records
  BY DEF TypeOK, Execute
<1> DEFINE outcomes == {Report(k, Current, LiveBook, priced).outcome : k \in DOMAIN Current}
<1>2. outcomes \subseteq Outcomes
  BY DEF Report, Outcomes
<1>3. action_group_log' = [action_group_log EXCEPT ![cursor] =
        [action_group_log[cursor] EXCEPT !.finalized = TRUE, !.outcomes = outcomes]]
  BY DEF Execute
<1>4. [action_group_log[cursor] EXCEPT !.finalized = TRUE, !.outcomes = outcomes] \in Records
  <2> HIDE DEF outcomes
  <2> QED BY <1>1, <1>2 DEF Records
<1>5. action_group_log' \in Seq(Records)
  BY <1>1, <1>3, <1>4, ExceptSeq DEF TypeOK
<1>6. \A r \in execution_log' : r.group \in Nat /\ r.date \in Days
  BY DEF Execute, TypeOK
<1>7. cursor' \in Nat \ {0} /\ phase' \in Phases
  BY DEF Execute, TypeOK, Phases
<1> QED BY <1>5, <1>6, <1>7 DEF Execute, bookVars, TypeOK, Opened

Plan == PlanIsThePatch /\ PendingTargetsAreCurrent

LEMMA CommitDoneType ==
  ASSUME TypeOK, CommitDone
  PROVE  /\ phase' \in Phases /\ cursor' \in Nat \ {0}
         /\ raised' \in Reasons /\ day' \in Days /\ runs' \in 1..MaxRuns
         /\ priced' \in SUBSET Tickers /\ action_group_log' \in Seq(Records)
         /\ portfolio_state' = portfolio_state /\ first' \in Nat \ {0}
         /\ \A r \in execution_log' : r.group \in Nat /\ r.date \in Days
BY DEF TypeOK, CommitDone, logVars, Phases

LEMMA CommitOpenType == ASSUME TypeOK, Plan, CommitOpen PROVE TypeOK'
<1> DEFINE t == Len(trade_history) + 1
<1>1. /\ CreatesContent(CurrentAction) /\ cursor <= Len(action_group_log)
      /\ phase = "commit" /\ NewStructures(t) /\ CommitDone
  BY DEF CommitOpen, Opens, Plan, PlanIsThePatch
<1>2. t \in Nat \ {0}
  BY DEF TypeOK
<1>3. /\ DOMAIN Current = 1..Len(Current) /\ Len(Current) \in Nat
      /\ \A k \in DOMAIN Current : Current[k].legs \in Content
  BY <1>1, CurrentGroup DEF Plan
<1>4. /\ structures' \in Seq(Structures)
      /\ Len(structures') = Len(structures) + Len(Current)
      /\ \A s \in Opened : structures'[s] = structures[s]
      /\ \A s \in Opened' \ Opened : structures'[s].trade_id = t
      /\ active_structures' = active_structures \cup (Opened' \ Opened)
  <2> HIDE DEF t
  <2> QED BY <1>1, <1>2, <1>3, NewStructuresType
<1>5. trade_history' \in Seq([entry_date : Days, exit_date : Days \cup {None}])
      /\ Len(trade_history') = t
  <2>1. [entry_date |-> day, exit_date |-> None]
          \in [entry_date : Days, exit_date : Days \cup {None}]
    BY DEF TypeOK
  <2> QED BY <2>1, AppendProperties DEF CommitOpen, TypeOK
<1>6. Opened \subseteq Opened'
  BY <1>3, <1>4 DEF Opened, TypeOK
<1>7. \A s \in Opened' : structures'[s].trade_id <= Len(trade_history')
  <2>1. \A s \in Opened : structures[s].trade_id <= Len(trade_history)
                          /\ structures[s].trade_id \in Nat
    BY OpenedRow DEF TypeOK
  <2>2. Len(trade_history) \in Nat
    BY DEF TypeOK
  <2>3. \A s \in Opened : structures'[s].trade_id <= t
    BY <1>4, <2>1, <2>2
  <2> QED BY <1>2, <1>4, <1>5, <2>3
<1>8. active_trades' \subseteq 1..Len(trade_history')
  BY <1>2, <1>5 DEF CommitOpen, TypeOK
<1>9. /\ DOMAIN portfolio_state' \subseteq Opened'
      /\ portfolio_state' \in [DOMAIN portfolio_state' -> BookRows]
      /\ active_structures' \subseteq Opened'
  BY <1>1, <1>4, <1>6, CommitDoneType DEF TypeOK
<1> QED BY <1>1, <1>4, <1>5, <1>7, <1>8, <1>9, CommitDoneType DEF TypeOK

LEMMA CommitExtendType == ASSUME TypeOK, Plan, CommitExtend PROVE TypeOK'
<1> DEFINE t == CurrentAction.trade_id
<1>1. /\ CreatesContent(CurrentAction) /\ cursor <= Len(action_group_log)
      /\ phase = "commit" /\ NewStructures(t) /\ CommitDone
      /\ t \in active_trades
      /\ UNCHANGED <<trade_history, active_trades>>
  BY DEF CommitExtend, Extends, Plan, PlanIsThePatch, TradeIsLive
<1>2. t \in Nat \ {0} /\ t <= Len(trade_history)
  BY <1>1 DEF TypeOK
<1>3. /\ DOMAIN Current = 1..Len(Current) /\ Len(Current) \in Nat
      /\ \A k \in DOMAIN Current : Current[k].legs \in Content
  BY <1>1, CurrentGroup DEF Plan
<1>4. /\ structures' \in Seq(Structures)
      /\ Len(structures') = Len(structures) + Len(Current)
      /\ \A s \in Opened : structures'[s] = structures[s]
      /\ \A s \in Opened' \ Opened : structures'[s].trade_id = t
      /\ active_structures' = active_structures \cup (Opened' \ Opened)
  <2> HIDE DEF t
  <2> QED BY <1>1, <1>2, <1>3, NewStructuresType
<1>5. Opened \subseteq Opened'
  BY <1>3, <1>4 DEF Opened, TypeOK
<1>6. \A s \in Opened' : structures'[s].trade_id <= Len(trade_history')
  BY <1>1, <1>2, <1>4 DEF TypeOK
<1>7. /\ DOMAIN portfolio_state' \subseteq Opened'
      /\ portfolio_state' \in [DOMAIN portfolio_state' -> BookRows]
      /\ active_structures' \subseteq Opened'
  BY <1>1, <1>4, <1>5, CommitDoneType DEF TypeOK
<1> QED BY <1>1, <1>4, <1>6, <1>7, CommitDoneType DEF TypeOK

LEMMA CommitStructureEffect ==
  ASSUME TypeOK, Plan, CommitStructure
  PROVE  /\ structures' \in Seq(Structures) /\ Len(structures') = Len(structures)
         /\ \A s \in Opened :
              /\ structures'[s].trade_id = structures[s].trade_id
              /\ DOMAIN structures'[s].legs = DOMAIN structures[s].legs
              /\ \A i \in DOMAIN structures[s].legs :
                   structures'[s].legs[i].ticker = structures[s].legs[i].ticker
              /\ s \notin Targets(Current) => structures'[s] = structures[s]
              /\ s \in Targets(Current) =>
                   structures'[s] = Resized(CurrentAction, structures[s])
         /\ \A s \in active_structures :
              s \notin Targets(Current) => s \in active_structures'
<1>1. /\ ~CreatesContent(CurrentAction) /\ cursor <= Len(action_group_log)
      /\ phase = "commit"
  BY DEF CommitStructure, Plan, PlanIsThePatch
<1>2. CurrentAction \in AnyAction /\ DOMAIN Current = Targets(Current)
  BY <1>1, CurrentGroup DEF Plan
<1>3. structures \in Seq(Structures) /\ Len(structures) \in Nat /\ DOMAIN structures = Opened
  BY DEF TypeOK, Opened
<1>4. structures' = [s \in DOMAIN structures |->
         IF s \in DOMAIN Current THEN Resized(CurrentAction, structures[s]) ELSE structures[s]]
  BY DEF CommitStructure
<1>5. ASSUME NEW s \in Opened
      PROVE  /\ structures'[s] \in Structures
             /\ structures'[s].trade_id = structures[s].trade_id
             /\ DOMAIN structures'[s].legs = DOMAIN structures[s].legs
             /\ \A i \in DOMAIN structures[s].legs :
                  structures'[s].legs[i].ticker = structures[s].legs[i].ticker
             /\ s \notin Targets(Current) => structures'[s] = structures[s]
             /\ s \in Targets(Current) =>
                  structures'[s] = Resized(CurrentAction, structures[s])
  <2>1. structures[s] \in Structures
    BY <1>3
  <2>2. CASE s \in DOMAIN Current
    <3>1. structures'[s] = Resized(CurrentAction, structures[s])
      BY <1>3, <1>4, <2>2
    <3> QED BY <1>2, <2>1, <2>2, <3>1, ResizedType
  <2>3. CASE s \notin DOMAIN Current
    <3>1. structures'[s] = structures[s]
      BY <1>3, <1>4, <2>3
    <3> QED BY <1>2, <2>1, <2>3, <3>1
  <2> QED BY <2>2, <2>3
<1>6. structures' \in [1..Len(structures) -> Structures]
  BY <1>3, <1>4, <1>5 DEF Opened
<1>7. structures' \in Seq(Structures) /\ Len(structures') = Len(structures)
  BY <1>3, <1>6, FunctionIsSeq
<1>8. \A s \in active_structures : s \notin Targets(Current) => s \in active_structures'
  BY <1>2 DEF CommitStructure, FullyClosed
<1> QED BY <1>5, <1>7, <1>8

LEMMA CommitStructureType == ASSUME TypeOK, Plan, CommitStructure PROVE TypeOK'
<1>1. CommitDone
  BY DEF CommitStructure
<1>2. /\ structures' \in Seq(Structures) /\ Opened' = Opened
      /\ \A s \in Opened : structures'[s].trade_id = structures[s].trade_id
  BY CommitStructureEffect DEF Opened
<1>3. active_structures' \subseteq Opened
  BY DEF CommitStructure, TypeOK
<1> DEFINE Row == [entry_date : Days, exit_date : Days \cup {None}]
<1>4. trade_history' \in Seq(Row) /\ Len(trade_history') = Len(trade_history)
  <2>0. trade_history \in Seq(Row)
    BY DEF TypeOK
  <2>1. \A t \in 1..Len(trade_history) : trade_history[t] \in Row
    BY <2>0, ElementOfSeq
  <2>2. \A t \in 1..Len(trade_history) : [trade_history[t] EXCEPT !.exit_date = day] \in Row
    BY <2>1 DEF TypeOK
  <2>3. Len(trade_history) \in Nat /\ DOMAIN trade_history = 1..Len(trade_history)
    BY DEF TypeOK
  <2> HIDE DEF Row
  <2>4. trade_history' \in [1..Len(trade_history) -> Row]
    BY <2>1, <2>2, <2>3 DEF CommitStructure
  <2> QED BY <2>3, <2>4, FunctionIsSeq
<1>5. active_trades' \subseteq 1..Len(trade_history)
  BY DEF CommitStructure, TypeOK
<1>6. \A s \in Opened' : structures'[s].trade_id <= Len(trade_history')
  BY <1>2, <1>4 DEF TypeOK
<1>7. /\ DOMAIN portfolio_state' \subseteq Opened'
      /\ portfolio_state' \in [DOMAIN portfolio_state' -> BookRows]
  BY <1>1, <1>2, CommitDoneType DEF TypeOK
<1> QED BY <1>1, <1>2, <1>3, <1>4, <1>5, <1>6, <1>7, CommitDoneType DEF TypeOK

LEMMA EndDayType == ASSUME TypeOK, EndDay PROVE TypeOK'
<1>1. /\ DOMAIN portfolio_state' \subseteq Opened
      /\ portfolio_state' \in [DOMAIN portfolio_state' -> BookRows]
  <2>1. portfolio_state' = LiveBook /\ DOMAIN LiveBook = active_structures
    BY DEF EndDay, Snapshot, LiveBook
  <2>2. \A s \in active_structures : LiveBook[s] \in BookRows
    BY LiveRow
  <2>3. LiveBook \in [active_structures -> BookRows]
    BY <2>2 DEF LiveBook
  <2> QED BY <2>1, <2>3 DEF TypeOK
<1>2. phase' \in Phases /\ day' \in Days
  BY BoundsAssumption DEF EndDay, IsLastDay, Phases, TypeOK, Days
<1> QED BY <1>1, <1>2 DEF EndDay, TypeOK, Opened, planVars, logVars, bookVars

LEMMA TypeStep == ASSUME TypeOK, Plan, [Next]_vars PROVE TypeOK'
<1> USE DEF planVars, logVars, bookVars, Opened
<1>1. CASE MarkToMarket
  BY <1>1 DEF MarkToMarket, TypeOK, Phases
<1>2. CASE EmitPatch
  BY <1>2, EmitType
<1>3. CASE Assemble
  BY <1>3 DEF Assemble, TypeOK, Phases
<1>4. CASE SignalRaises \/ ConversionRaises \/ DuplicateRaises \/ TripwireFires \/ ExtendRaises
  BY <1>4 DEF SignalRaises, ConversionRaises, DuplicateRaises, TripwireFires, ExtendRaises, Raise,
              TypeOK, Phases, Reasons
<1>5. CASE Execute
  BY <1>5, ExecuteType
<1>6. CASE CommitOpen
  BY <1>6, CommitOpenType
<1>7. CASE CommitExtend
  BY <1>7, CommitExtendType
<1>8. CASE CommitStructure
  BY <1>8, CommitStructureType
<1>9. CASE EndDay
  BY <1>9, EndDayType
<1>10. CASE RunAgain
  <2>1. portfolio_state' = <<>> /\ action_group_log' \in Seq(Records)
    BY <1>10 DEF RunAgain
  <2>2. day' \in Days /\ runs' \in 1..MaxRuns
    BY <1>10, BoundsAssumption DEF RunAgain, TypeOK, Days
  <2> QED BY <1>10, <2>1, <2>2 DEF RunAgain, TypeOK, Phases, Reasons
<1>11. CASE Stopped \/ UNCHANGED vars
  BY <1>11 DEF Stopped, vars, loopVars, TypeOK
<1> QED BY <1>1, <1>2, <1>3, <1>4, <1>5, <1>6, <1>7, <1>8, <1>9, <1>10, <1>11
        DEF Next, Step, Commit

-----------------------------------------------------------------------------
(* The T-1 book and the plan. *)

LEMMA UnchangedBook ==
  ASSUME UNCHANGED bookVars
  PROVE  LiveBook' = LiveBook /\ Opened' = Opened /\ active_structures' = active_structures
BY DEF bookVars, LiveBook, Opened

LEMMA SnapshotStep ==
  ASSUME TypeOK, SnapshotIsCurrent, [Next]_vars
  PROVE  SnapshotIsCurrent'
<1>1. CASE MarkToMarket \/ EmitPatch
  <2>1. /\ phase \in {"mark", "emit", "assemble"} /\ portfolio_state' = portfolio_state
        /\ UNCHANGED bookVars
    BY <1>1 DEF MarkToMarket, EmitPatch, Emit
  <2> QED BY <2>1, UnchangedBook DEF SnapshotIsCurrent
<1>2. CASE EndDay
  <2>1. portfolio_state' = LiveBook /\ UNCHANGED bookVars
    BY <1>2 DEF EndDay, Snapshot
  <2>2. DOMAIN LiveBook = active_structures
    BY DEF LiveBook
  <2> QED BY <2>1, <2>2, UnchangedBook DEF SnapshotIsCurrent
<1>3. CASE RunAgain
  <2>1. DOMAIN portfolio_state' = {}
    BY <1>3 DEF RunAgain
  <2> QED BY <2>1 DEF SnapshotIsCurrent
<1>4. CASE \/ Assemble \/ SignalRaises \/ ConversionRaises \/ DuplicateRaises \/ Execute
           \/ TripwireFires \/ ExtendRaises
  BY <1>4 DEF Assemble, SignalRaises, ConversionRaises, DuplicateRaises, Execute, TripwireFires,
              ExtendRaises, Raise, SnapshotIsCurrent
<1>5. CASE CommitOpen \/ CommitExtend \/ CommitStructure
  BY <1>5 DEF CommitOpen, CommitExtend, CommitStructure, CommitDone, SnapshotIsCurrent
<1>6. CASE Stopped \/ UNCHANGED vars
  <2>1. phase' = phase /\ portfolio_state' = portfolio_state /\ UNCHANGED bookVars
    BY <1>6 DEF Stopped, vars, loopVars
  <2> QED BY <2>1, UnchangedBook DEF SnapshotIsCurrent
<1> QED BY <1>1, <1>2, <1>3, <1>4, <1>5, <1>6 DEF Next, Step, Commit

\* The plan depends on the actions of the patch and the T-1 book only.
LEMMA SamePatch ==
  ASSUME portfolio_state' = portfolio_state, first' = first,
         Len(action_group_log') = Len(action_group_log),
         \A i \in Patch : action_group_log'[i].actions = action_group_log[i].actions
  PROVE  /\ Patch' = Patch
         /\ PatchOrders' = PatchOrders
         /\ PatchConverts' = PatchConverts
<1>1. Patch' = Patch
  BY DEF Patch
<1> QED BY <1>1 DEF PatchOrders, PatchConverts

LEMMA ExecuteKeepsPatch ==
  ASSUME TypeOK, Execute
  PROVE  /\ portfolio_state' = portfolio_state /\ first' = first
         /\ Len(action_group_log') = Len(action_group_log)
         /\ \A i \in Patch : action_group_log'[i].actions = action_group_log[i].actions
<1>1. /\ cursor \in DOMAIN action_group_log
      /\ \A i \in Patch : i \in DOMAIN action_group_log
      /\ action_group_log \in Seq(Records)
  BY DEF Execute, TypeOK, Patch
<1>2. PICK o : action_group_log' = [action_group_log EXCEPT
                 ![cursor].finalized = TRUE, ![cursor].outcomes = o]
  BY DEF Execute
<1>3. action_group_log[cursor] \in Records
  BY <1>1
<1>4. \A i \in DOMAIN action_group_log :
        action_group_log'[i] = IF i = cursor
          THEN [action_group_log[cursor] EXCEPT !.finalized = TRUE, !.outcomes = o]
          ELSE action_group_log[i]
  BY <1>1, <1>2
<1>5. \A i \in DOMAIN action_group_log :
        action_group_log'[i].actions = action_group_log[i].actions
  BY <1>1, <1>3, <1>4 DEF Records
<1>6. Len(action_group_log') = Len(action_group_log)
  BY <1>1, <1>2
<1>7. portfolio_state' = portfolio_state /\ first' = first
  BY Zenon DEF Execute
<1> QED BY <1>1, <1>5, <1>6, <1>7

LEMMA PlanStep ==
  ASSUME TypeOK, PlanIsThePatch, [Next]_vars
  PROVE  PlanIsThePatch'
<1>1. CASE Assemble
  <2>1. /\ portfolio_state' = portfolio_state /\ first' = first
        /\ action_group_log' = action_group_log
        /\ order_groups' = PatchOrders /\ PatchConverts /\ NoDuplicateTargets(PatchOrders)
        /\ cursor' = first /\ phase' = "dispatch"
    BY <1>1 DEF Assemble, logVars
  <2>2. PatchOrders' = PatchOrders /\ PatchConverts' = PatchConverts
    BY <2>1, SamePatch
  <2> QED BY <2>1, <2>2 DEF PlanIsThePatch, TypeOK
<1>2. CASE Execute
  <2>1. PatchOrders' = PatchOrders /\ PatchConverts' = PatchConverts
    BY <1>2, ExecuteKeepsPatch, SamePatch
  <2>2. /\ order_groups' = order_groups /\ phase = "dispatch"
        /\ cursor' >= first' /\ (phase' = "commit" => cursor' <= Len(action_group_log'))
    BY <1>2, ExecuteKeepsPatch DEF Execute, PlanIsThePatch, TypeOK
  <2> QED BY <2>1, <2>2 DEF PlanIsThePatch
<1>3. CASE CommitOpen \/ CommitExtend \/ CommitStructure
  <2>1. phase = "commit" /\ CommitDone
    BY <1>3 DEF CommitOpen, CommitExtend, CommitStructure
  <2>2. PatchOrders' = PatchOrders /\ PatchConverts' = PatchConverts
    BY <2>1, SamePatch DEF CommitDone, logVars
  <2> QED BY <2>1, <2>2 DEF PlanIsThePatch, CommitDone, TypeOK
<1>4. CASE \/ MarkToMarket \/ EmitPatch \/ SignalRaises \/ ConversionRaises \/ DuplicateRaises
           \/ TripwireFires \/ ExtendRaises \/ EndDay \/ RunAgain
  BY <1>4 DEF MarkToMarket, EmitPatch, Emit, SignalRaises, ConversionRaises, DuplicateRaises, TripwireFires,
              ExtendRaises, EndDay, RunAgain, Raise, PlanIsThePatch
<1>5. CASE Stopped \/ UNCHANGED vars
  <2>1. UNCHANGED vars
    BY <1>5 DEF Stopped
  <2>2. PatchOrders' = PatchOrders /\ PatchConverts' = PatchConverts
    BY <2>1, SamePatch DEF vars, planVars, logVars
  <2> QED BY <2>1, <2>2 DEF PlanIsThePatch, vars, loopVars, planVars, logVars
<1> QED BY <1>1, <1>2, <1>3, <1>4, <1>5 DEF Next, Step, Commit

\* A day's dispatch leaves alone every structure that is still to be targeted.
LEMMA PendingStep ==
  ASSUME TypeOK, SnapshotIsCurrent, PlanIsThePatch, PendingTargetsAreCurrent, [Next]_vars
  PROVE  PendingTargetsAreCurrent'
<1>1. CASE Assemble
  <2>1. /\ portfolio_state' = portfolio_state /\ UNCHANGED bookVars
        /\ action_group_log' = action_group_log
        /\ order_groups' = PatchOrders /\ PatchConverts /\ cursor' = first
        /\ phase = "assemble"
    BY <1>1 DEF Assemble, logVars
  <2>2. ASSUME NEW i \in first..Len(action_group_log), NEW s \in Targets(PatchOrders[i])
        PROVE  s \in DOMAIN portfolio_state
    <3> DEFINE a == action_group_log[i].actions[1]
    <3>1. i \in Patch /\ action_group_log[i] \in Records
      BY DEF Patch, TypeOK
    <3>2. Len(action_group_log[i].actions) = 1 /\ ConvertibleAction(a, portfolio_state)
      BY <2>1, <3>1 DEF PatchConverts, Convertible
    <3>3. a \in AnyAction
      BY <3>1, <3>2 DEF Records
    <3>4. None \notin DOMAIN portfolio_state
      BY DEF TypeOK, Opened, None
    <3>5. s \in Targets(OrdersOf(a, portfolio_state))
      BY <3>1 DEF PatchOrders
    <3> HIDE DEF a
    <3> QED BY <3>2, <3>3, <3>4, <3>5, OrderTargets
  <2> QED BY <2>1, <2>2, UnchangedBook DEF PendingTargetsAreCurrent, SnapshotIsCurrent
<1>2. CASE Execute
  <2>1. portfolio_state' = portfolio_state /\ order_groups' = order_groups
        /\ UNCHANGED bookVars /\ phase = "dispatch"
    BY <1>2, Zenon DEF Execute
  <2>2. Len(action_group_log') = Len(action_group_log)
    BY <1>2, ExecuteKeepsPatch
  <2>3. cursor \in Nat /\ (cursor' = cursor \/ cursor' = cursor + 1)
    BY <1>2 DEF Execute, TypeOK
  <2>4. cursor'..Len(action_group_log') \subseteq cursor..Len(action_group_log)
    BY <2>2, <2>3 DEF TypeOK
  <2> QED BY <2>1, <2>4, UnchangedBook DEF PendingTargetsAreCurrent
<1>3. CASE CommitOpen \/ CommitExtend \/ CommitStructure
  <2>1. /\ phase = "commit" /\ portfolio_state' = portfolio_state
        /\ order_groups' = order_groups /\ action_group_log' = action_group_log
        /\ cursor' = cursor + 1 /\ cursor \in Nat
    BY <1>3 DEF CommitOpen, CommitExtend, CommitStructure, CommitDone, logVars, TypeOK
  <2>2. SUFFICES ASSUME NEW i \in (cursor + 1)..Len(action_group_log),
                        NEW s \in Targets(order_groups[i])
                 PROVE  s \in active_structures' /\ LiveBook'[s] = portfolio_state[s]
    BY <2>1 DEF PendingTargetsAreCurrent
  <2>3. s \in active_structures /\ LiveBook[s] = portfolio_state[s]
    BY <2>1 DEF PendingTargetsAreCurrent
  <2>4. s \in Opened /\ LiveBook[s] = [trade_id |-> structures[s].trade_id,
                                       legs |-> structures[s].legs]
    BY <2>3, LiveRow
  <2>5. s \in active_structures' /\ structures'[s] = structures[s]
    <3>1. CASE CommitOpen \/ CommitExtend
      <4>1. /\ CreatesContent(CurrentAction) /\ cursor <= Len(action_group_log)
            /\ phase = "commit"
        BY <3>1 DEF CommitOpen, CommitExtend, Opens, Extends, PlanIsThePatch
      <4>2. /\ DOMAIN Current = 1..Len(Current) /\ Len(Current) \in Nat
            /\ \A k \in DOMAIN Current : Current[k].legs \in Content
        BY <4>1, CurrentGroup
      <4>3. PICK t \in Nat \ {0} : NewStructures(t)
        <5>1. CASE CommitOpen
          <6>1. NewStructures(Len(trade_history) + 1) /\ Len(trade_history) + 1 \in Nat \ {0}
            BY <5>1 DEF CommitOpen, TypeOK
          <6> QED BY <6>1
        <5>2. CASE CommitExtend
          <6>1. /\ NewStructures(CurrentAction.trade_id)
                /\ CurrentAction.trade_id \in 1..Len(trade_history)
            BY <5>2 DEF CommitExtend, TypeOK, TradeIsLive
          <6>2. CurrentAction.trade_id \in Nat \ {0}
            BY <6>1
          <6> QED BY <6>1, <6>2
        <5> QED BY <3>1, <5>1, <5>2
      <4> QED BY <2>3, <2>4, <4>2, <4>3, NewStructuresType
    <3>2. CASE CommitStructure
      <4>1. cursor \in Patch /\ i \in Patch /\ i # cursor
        BY <2>1 DEF PlanIsThePatch, Patch, TypeOK
      <4>2. s \notin Targets(Current)
        BY <2>1, <4>1 DEF PlanIsThePatch, NoDuplicateTargets, PatchOrders, Current
      <4> QED BY <2>3, <2>4, <3>2, <4>2, CommitStructureEffect DEF Plan
    <3> QED BY <1>3, <3>1, <3>2
  <2>6. LiveBook'[s] = [trade_id |-> structures'[s].trade_id, legs |-> structures'[s].legs]
    BY <2>5 DEF LiveBook
  <2> QED BY <2>3, <2>4, <2>5, <2>6
<1>4. CASE \/ MarkToMarket \/ EmitPatch \/ SignalRaises \/ ConversionRaises \/ DuplicateRaises
           \/ TripwireFires \/ ExtendRaises \/ EndDay \/ RunAgain
  BY <1>4 DEF MarkToMarket, EmitPatch, Emit, SignalRaises, ConversionRaises, DuplicateRaises, TripwireFires,
              ExtendRaises, EndDay, RunAgain, Raise, PendingTargetsAreCurrent
<1>5. CASE Stopped \/ UNCHANGED vars
  <2>1. UNCHANGED <<phase, cursor, action_group_log, order_groups, portfolio_state, bookVars>>
    BY <1>5 DEF Stopped, vars, loopVars, planVars, logVars
  <2> QED BY <2>1, UnchangedBook DEF PendingTargetsAreCurrent
<1> QED BY <1>1, <1>2, <1>3, <1>4, <1>5 DEF Next, Step, Commit

-----------------------------------------------------------------------------
(* Legs with distinct tickers, and the tripwire. *)

DistinctStructures == \A s \in Opened : LegsAreDistinct(structures[s].legs)

\* Content that names a ticker once per structure opens structures that do.
LEMMA ContentDistinct ==
  ASSUME OneLegPerTicker, NEW a \in AnyAction, CreatesContent(a)
  PROVE  \A k \in DOMAIN a.spec : LegsAreDistinct(a.spec[k])
<1> DEFINE Row(type, specs, trades, ids, amounts) ==
      [type : {type}, spec : specs, trade_id : trades, structure_id : ids, size : amounts]
<1>1. CASE a \in Row("NEW", TradeSpecs, {None}, {None}, {None})
  BY <1>1 DEF OneLegPerTicker
<1>2. CASE a \in Row("NEW", {<<st>> : st \in StructureSpecs}, Nat \ {0}, {None}, {None})
  <2>1. PICK st \in StructureSpecs : a.spec = <<st>>
    BY <1>2
  <2>2. LegsAreDistinct(st)
    BY DEF OneLegPerTicker
  <2> QED BY <2>1, <2>2
<1>3. a \notin Row("NEW", {<<>>}, Nat \ {0}, Nat \ {0}, Amounts)
  BY DEF CreatesContent, None
<1>4. a.type # "UNWIND"
  BY DEF CreatesContent
<1> QED BY <1>1, <1>2, <1>3, <1>4 DEF AnyAction, ActionMatrix

\* On distinct legs the first match on a ticker is the only one.
LEMMA MatchUnique ==
  ASSUME NEW legs \in Content, LegsAreDistinct(legs), NEW i \in DOMAIN legs
  PROVE  MatchLeg(legs, legs[i].ticker) = i
<1>1. DOMAIN legs \subseteq Nat
  BY ContentFields
<1> DEFINE M(n) == /\ legs[n].ticker = legs[i].ticker
                   /\ \A j \in DOMAIN legs : legs[j].ticker = legs[i].ticker => n <= j
<1>2. M(i)
  BY <1>1 DEF LegsAreDistinct
<1>3. \A n \in DOMAIN legs : M(n) => n = i
  BY DEF LegsAreDistinct
<1> QED BY <1>2, <1>3 DEF MatchLeg

\* A commit leaves the tickers of a structure's legs alone.
LEMMA DistinctStep ==
  ASSUME OneLegPerTicker, TypeOK, Plan, DistinctStructures, [Next]_vars
  PROVE  DistinctStructures'
<1>1. CASE CommitOpen \/ CommitExtend
  <2>1. /\ CreatesContent(CurrentAction) /\ cursor <= Len(action_group_log)
        /\ phase = "commit"
    BY <1>1 DEF CommitOpen, CommitExtend, Opens, Extends, Plan, PlanIsThePatch
  <2>2. /\ DOMAIN Current = 1..Len(Current) /\ Len(Current) \in Nat
        /\ \A k \in DOMAIN Current : Current[k].legs \in Content
        /\ CurrentAction \in AnyAction /\ cursor \in Patch
        /\ ConvertibleAction(CurrentAction, portfolio_state)
    BY <2>1, CurrentGroup DEF Plan
  <2>3. Current = [k \in DOMAIN CurrentAction.spec |->
                     [structure_id |-> None, trade_id |-> CurrentAction.trade_id,
                      legs |-> CurrentAction.spec[k]]]
    BY <2>1, <2>2 DEF Plan, PlanIsThePatch, PatchOrders, Current, CurrentAction, OrdersOf
  <2>4. \A k \in DOMAIN Current : LegsAreDistinct(Current[k].legs)
    BY <2>1, <2>2, <2>3, ContentDistinct
  <2>5. PICK t \in Nat \ {0} : NewStructures(t)
    <3>1. CASE CommitOpen
      <4>1. NewStructures(Len(trade_history) + 1) /\ Len(trade_history) + 1 \in Nat \ {0}
        BY <3>1 DEF CommitOpen, TypeOK
      <4> QED BY <4>1
    <3>2. CASE CommitExtend
      <4>1. /\ NewStructures(CurrentAction.trade_id)
            /\ CurrentAction.trade_id \in 1..Len(trade_history)
        BY <3>2 DEF CommitExtend, TypeOK, TradeIsLive
      <4>2. CurrentAction.trade_id \in Nat \ {0}
        BY <4>1
      <4> QED BY <4>1, <4>2
    <3> QED BY <1>1, <3>1, <3>2
  <2>6. /\ \A s \in Opened : structures'[s] = structures[s]
        /\ \A s \in Opened' \ Opened :
             /\ s - Len(structures) \in DOMAIN Current
             /\ structures'[s].legs = Current[s - Len(structures)].legs
    BY <2>2, <2>5, NewStructuresType
  <2>7. ASSUME NEW s \in Opened' PROVE LegsAreDistinct(structures'[s].legs)
    BY <2>4, <2>6 DEF DistinctStructures
  <2> QED BY <2>7 DEF DistinctStructures
<1>2. CASE CommitStructure
  <2>1. /\ Opened' = Opened
        /\ \A s \in Opened :
             /\ DOMAIN structures'[s].legs = DOMAIN structures[s].legs
             /\ \A i \in DOMAIN structures[s].legs :
                  structures'[s].legs[i].ticker = structures[s].legs[i].ticker
    BY <1>2, CommitStructureEffect DEF Opened
  <2> QED BY <2>1 DEF DistinctStructures, LegsAreDistinct
<1>3. CASE UNCHANGED bookVars
  BY <1>3 DEF bookVars, Opened, DistinctStructures
<1> QED BY <1>1, <1>2, <1>3
  DEF Next, Step, Commit, MarkToMarket, EmitPatch, Emit, Assemble, SignalRaises, ConversionRaises,
      DuplicateRaises, Execute, TripwireFires, ExtendRaises, EndDay, RunAgain, Stopped, vars

\* No order of the group at the cursor trips the commit preconditions.
LEMMA NoTrip ==
  ASSUME TypeOK, Plan, \A s \in active_structures : LegsAreDistinct(structures[s].legs),
         phase = "commit"
  PROVE  \A k \in DOMAIN Current : ~Trips(Current[k])
<1> DEFINE a == CurrentAction
<1>0. cursor <= Len(action_group_log)
  BY DEF Plan, PlanIsThePatch
<1>1. CASE CreatesContent(a)
  BY <1>0, <1>1, CurrentGroup DEF Plan, Trips
<1>2. CASE ~CreatesContent(a)
  <2> SUFFICES ASSUME NEW s \in DOMAIN Current PROVE ~Trips(Current[s])
    OBVIOUS
  <2> DEFINE legs == structures[s].legs
  <2>1. /\ a \in AnyAction /\ ConvertibleAction(a, portfolio_state)
        /\ DOMAIN Current = Addressed(a, portfolio_state)
        /\ s \in active_structures /\ s \in Opened /\ structures[s] \in Structures
        /\ portfolio_state[s].legs = legs
        /\ Current[s] = [structure_id |-> s, trade_id |-> structures[s].trade_id,
                         legs |-> DeltaLegs(a, structures[s])]
    BY <1>0, <1>2, CurrentGroup DEF Plan
  <2>2. legs \in Content /\ LegsAreDistinct(legs)
    BY <2>1 DEF Structures
  <2>3. LiveBook[s] = [trade_id |-> structures[s].trade_id, legs |-> legs]
        /\ s \in DOMAIN LiveBook
    BY <2>1 DEF LiveBook
  <2> DEFINE delta(size) == IF Adds(a) THEN a.size ELSE IF Reduces(a) THEN -a.size ELSE -size
             D == DeltaLegs(a, structures[s])
  <2>4. /\ DOMAIN D \subseteq DOMAIN legs
        /\ \A i \in DOMAIN D : D[i] = [ticker |-> legs[i].ticker, size |-> delta(legs[i].size)]
    BY DEF DeltaLegs
  <2> HIDE DEF legs, delta, D, a
  <2>5. TargetIsLive(Current[s], LiveBook)
    <3>1. \A i \in DOMAIN D : HasTicker(legs, D[i].ticker)
      BY <2>4 DEF HasTicker
    <3>2. /\ Current[s].structure_id = s /\ Current[s].legs = D
          /\ Current[s].trade_id = structures[s].trade_id
      BY <2>1 DEF D
    <3>3. /\ s \in DOMAIN LiveBook /\ LiveBook[s].legs = legs
          /\ LiveBook[s].trade_id = structures[s].trade_id
      BY <2>3
    <3> QED BY <3>1, <3>2, <3>3, Zenon DEF TargetIsLive
  <2>6. ASSUME NEW i \in DOMAIN D
        PROVE  LET held == legs[MatchLeg(legs, D[i].ticker)].size
                   sold == D[i].size
               IN  ~(\/ held >= 0 /\ sold < -held
                     \/ held < 0 /\ sold > -held)
    <3>1. MatchLeg(legs, D[i].ticker) = i /\ D[i].size = delta(legs[i].size)
      BY <2>2, <2>4, MatchUnique
    <3>2. i \in DOMAIN legs /\ legs[i].size \in Int
      BY <2>2, <2>4, ContentFields
    <3>3. CASE Closes(a)
      BY <3>1, <3>2, <3>3, <2>1, ActionFields DEF delta, Closes, Adds, Reduces
    <3>4. CASE Adds(a) \/ Reduces(a)
      <4>1. Addresses(a, portfolio_state) /\ Modifiable(portfolio_state[a.structure_id])
        BY <3>4, <2>1, <1>2 DEF ConvertibleAction, Adds, Reduces, Closes, a
      <4>2. a.structure_id = s
        BY <4>1, <2>1, ActionFields DEF Addressed, Addresses, TypeOK, Opened, None
      <4>3. Len(legs) = 1 /\ legs[1].size > 0
        BY <4>1, <4>2, <2>1 DEF Modifiable, Anchor
      <4>4. i = 1
        BY <4>3, <3>2, <2>2, ContentFields
      <4>5. CASE Adds(a)
        <5>1. a.size \in Nat \ {0}
          BY <4>5, <2>1, ActionFields
        <5> QED BY <3>1, <3>2, <4>3, <4>4, <4>5, <5>1 DEF delta
      <4>6. CASE Reduces(a)
        <5>1. a.size < legs[1].size
          BY <4>6, <4>2, <2>1, <1>2 DEF ConvertibleAction, Reduces, Adds, Closes, Anchor, a
        <5>2. a.size \in Nat /\ ~Adds(a)
          BY <4>6, <2>1, ActionFields DEF Reduces, Adds
        <5> QED BY <3>1, <3>2, <4>3, <4>4, <4>6, <5>1, <5>2 DEF delta
      <4> QED BY <3>4, <4>5, <4>6
    <3> QED BY <3>3, <3>4, <2>1, <1>2, ActionFields DEF a
  <2> QED BY <2>1, <2>5, <2>6 DEF Trips, D, legs
<1> QED BY <1>1, <1>2

-----------------------------------------------------------------------------
(* Theorems. *)

\* What holds of the loop whatever the content is.
BookInv == TypeOK /\ SnapshotIsCurrent /\ PlanIsThePatch /\ PendingTargetsAreCurrent

LEMMA BookInvInit == Init => BookInv
<1> SUFFICES ASSUME Init PROVE BookInv
  OBVIOUS
<1>1. DOMAIN portfolio_state = {} /\ phase = "mark"
  BY DEF Init
<1> QED BY <1>1, InitType
        DEF BookInv, SnapshotIsCurrent, PlanIsThePatch, PendingTargetsAreCurrent

LEMMA BookInvStep == BookInv /\ [Next]_vars => BookInv'
BY TypeStep, SnapshotStep, PlanStep, PendingStep DEF BookInv, Plan

\* Every state the loop can reach is typed.
THEOREM TypeCorrect == Spec => []TypeOK
<1>1. BookInv => TypeOK
  BY DEF BookInv
<1> QED BY <1>1, BookInvInit, BookInvStep, PTL DEF Spec

\* Until its group commits, a structure the patch targets is live exactly as
\* the T-1 book shows it, for every program that emits valid actions.
THEOREM PendingTargets == Spec => []PendingTargetsAreCurrent
<1>1. BookInv => PendingTargetsAreCurrent
  BY DEF BookInv
<1> QED BY <1>1, BookInvInit, BookInvStep, PTL DEF Spec

LEMMA IndInvInit == Init => IndInv
<1> SUFFICES ASSUME Init PROVE IndInv
  OBVIOUS
<1>1. Opened = {} /\ raised = "nothing"
  BY DEF Init, Opened
<1> QED BY <1>1, BookInvInit DEF BookInv, IndInv, TripwireSilent

LEMMA IndInvStep == ASSUME OneLegPerTicker PROVE IndInv /\ [Next]_vars => IndInv'
<1> SUFFICES ASSUME IndInv, [Next]_vars PROVE IndInv'
  OBVIOUS
<1>1. BookInv /\ Plan /\ DistinctStructures
  BY DEF IndInv, BookInv, Plan, DistinctStructures
<1>2. BookInv' /\ DistinctStructures'
  BY <1>1, BookInvStep, DistinctStep DEF BookInv
<1>3. TripwireSilent'
  <2>1. ~TripwireFires
    <3>1. \A s \in active_structures : LegsAreDistinct(structures[s].legs)
      BY <1>1, Zenon DEF DistinctStructures, BookInv, TypeOK
    <3> QED BY <1>1, <3>1, NoTrip, Zenon DEF BookInv, TripwireFires
  <2>2. raised # "tripwire"
    BY DEF IndInv, TripwireSilent
  <2> QED BY <2>1, <2>2
      DEF TripwireSilent, Next, Step, Commit, MarkToMarket, EmitPatch, Emit, Assemble,
          SignalRaises, ConversionRaises, DuplicateRaises, Execute, CommitOpen, CommitExtend,
          CommitStructure, CommitDone, ExtendRaises, EndDay, RunAgain, Stopped, Raise,
          vars, loopVars
<1> QED BY <1>2, <1>3 DEF IndInv, BookInv, DistinctStructures

\* The commit tripwire never fires, for every number of days, patch size and
\* program, as long as no structure holds one ticker in two legs.
THEOREM Tripwire == ASSUME OneLegPerTicker PROVE Spec => []TripwireSilent
<1>1. IndInv => TripwireSilent
  BY DEF IndInv
<1> QED BY <1>1, IndInvInit, IndInvStep, PTL DEF Spec

\* The invariant the tripwire rests on is inductive, not only true.
THEOREM Inductive == ASSUME OneLegPerTicker PROVE Spec => []IndInv
BY IndInvInit, IndInvStep, PTL DEF Spec
=============================================================================
