---------------------------- MODULE Book_proofs ----------------------------
(***************************************************************************)
(* Proofs about the live book, for every value of the constants: the       *)
(* lifecycle of trades, the dates of the events of their structures, and   *)
(* that those events replay to the sizes the book holds.                   *)
(***************************************************************************)
EXTENDS Backtester_proofs, SumTheorems

-----------------------------------------------------------------------------
(* What a commit does to the structures. *)

\* The trade the group at the cursor opens or extends.
OwnerTrade == IF Opens(CurrentAction) THEN Len(trade_history) + 1 ELSE CurrentAction.trade_id

\* The content group at the cursor: the orders of its action's spec, at least one.
LEMMA ContentOrders ==
  ASSUME BookInv, phase \in {"dispatch", "commit"}, cursor <= Len(action_group_log),
         CreatesContent(CurrentAction)
  PROVE  /\ CurrentAction \in AnyAction /\ CurrentAction.spec \in Seq(Content) \ {<<>>}
         /\ ValidContent(CurrentAction.spec)
         /\ Current = [k \in DOMAIN CurrentAction.spec |->
                         [structure_id |-> None, trade_id |-> CurrentAction.trade_id,
                          legs |-> CurrentAction.spec[k]]]
         /\ DOMAIN Current = 1..Len(Current) /\ Len(Current) \in Nat \ {0}
         /\ \A k \in DOMAIN Current : Current[k].legs \in Content
<1>1. /\ DOMAIN Current = 1..Len(Current) /\ Len(Current) \in Nat
      /\ \A k \in DOMAIN Current : Current[k].legs \in Content
      /\ CurrentAction \in AnyAction /\ cursor \in Patch
      /\ ConvertibleAction(CurrentAction, portfolio_state)
  BY CurrentGroup DEF BookInv
<1>2. CurrentAction.spec \in Seq(Content) \ {<<>>}
  BY <1>1, ActionFields
<1>3. Current = [k \in DOMAIN CurrentAction.spec |->
                   [structure_id |-> None, trade_id |-> CurrentAction.trade_id,
                    legs |-> CurrentAction.spec[k]]]
  BY <1>1 DEF BookInv, PlanIsThePatch, PatchOrders, Current, CurrentAction, OrdersOf
<1>4. ValidContent(CurrentAction.spec)
  BY <1>1 DEF ConvertibleAction, CreatesContent, Adds, Reduces, Closes
<1>5. Len(Current) # 0
  <2>1. Len(CurrentAction.spec) \in Nat \ {0}
        /\ DOMAIN CurrentAction.spec = 1..Len(CurrentAction.spec)
    BY <1>2
  <2>2. 1 \in DOMAIN Current
    BY <1>3, <2>1
  <2> QED BY <1>1, <2>2
<1> QED BY <1>1, <1>2, <1>3, <1>4, <1>5

LEMMA ContentGroup ==
  ASSUME BookInv, phase = "commit", CreatesContent(CurrentAction)
  PROVE  /\ CurrentAction \in AnyAction /\ CurrentAction.spec \in Seq(Content) \ {<<>>}
         /\ ValidContent(CurrentAction.spec)
         /\ Current = [k \in DOMAIN CurrentAction.spec |->
                         [structure_id |-> None, trade_id |-> CurrentAction.trade_id,
                          legs |-> CurrentAction.spec[k]]]
         /\ DOMAIN Current = 1..Len(Current) /\ Len(Current) \in Nat \ {0}
         /\ \A k \in DOMAIN Current : Current[k].legs \in Content
<1>1. cursor <= Len(action_group_log)
  BY DEF BookInv, PlanIsThePatch
<1> QED BY <1>1, ContentOrders

\* _commit_open and _commit_extend: new structures of one trade, all opened today.
LEMMA Opening ==
  ASSUME BookInv, CommitOpen \/ CommitExtend
  PROVE  /\ phase = "commit" /\ CommitDone
         /\ OwnerTrade \in Nat \ {0}
         /\ CommitOpen => OwnerTrade = Len(trade_history) + 1
         /\ CommitExtend => OwnerTrade \in active_trades
         /\ Opened \subseteq Opened' /\ Opened' \ Opened # {}
         /\ Len(structures') = Len(structures) + Len(Current)
         /\ \A s \in Opened : structures'[s] = structures[s]
         /\ \A s \in Opened' \ Opened :
              /\ s - Len(structures) \in DOMAIN Current
              /\ structures'[s] = OpenedStructure(OwnerTrade, Current[s - Len(structures)].legs)
         /\ active_structures' = active_structures \cup (Opened' \ Opened)
<1>1. /\ CreatesContent(CurrentAction) /\ phase = "commit" /\ CommitDone
      /\ NewStructures(OwnerTrade)
      /\ CommitOpen => OwnerTrade = Len(trade_history) + 1
      /\ CommitExtend => OwnerTrade \in active_trades
  BY DEF CommitOpen, CommitExtend, Opens, Extends, OwnerTrade, TradeIsLive
<1>2. OwnerTrade \in Nat \ {0}
  BY <1>1 DEF BookInv, TypeOK
<1>3. /\ DOMAIN Current = 1..Len(Current) /\ Len(Current) \in Nat \ {0}
      /\ \A k \in DOMAIN Current : Current[k].legs \in Content
  BY <1>1, ContentGroup
<1>4. TypeOK
  BY DEF BookInv
<1>5. /\ Len(structures') = Len(structures) + Len(Current)
      /\ \A s \in Opened : structures'[s] = structures[s]
      /\ \A s \in Opened' \ Opened :
           /\ s - Len(structures) \in DOMAIN Current
           /\ structures'[s] = OpenedStructure(OwnerTrade, Current[s - Len(structures)].legs)
      /\ active_structures' = active_structures \cup (Opened' \ Opened)
  BY <1>1, <1>2, <1>3, <1>4, NewStructuresType
<1>6. Opened \subseteq Opened' /\ Len(structures) + 1 \in Opened' \ Opened
  BY <1>3, <1>4, <1>5 DEF Opened, TypeOK
<1> QED BY <1>1, <1>2, <1>5, <1>6

\* _commit_structure: the targets of the group are resized, those fully closed
\* leave the book, nothing else changes.
LEMMA Resizing ==
  ASSUME BookInv, CommitStructure
  PROVE  /\ phase = "commit" /\ CommitDone /\ Opened' = Opened
         /\ cursor \in cursor..Len(action_group_log)
         /\ CurrentAction \in AnyAction /\ ~CreatesContent(CurrentAction)
         /\ ConvertibleAction(CurrentAction, portfolio_state)
         /\ Targets(Current) = Addressed(CurrentAction, portfolio_state)
         /\ \A s \in Targets(Current) :
              /\ s \in active_structures /\ s \in Opened
              /\ structures[s] \in Structures
              /\ portfolio_state[s].legs = structures[s].legs
              /\ structures'[s] = Resized(CurrentAction, structures[s])
         /\ \A s \in Opened : s \notin Targets(Current) => structures'[s] = structures[s]
         /\ \A s \in Opened : structures'[s].trade_id = structures[s].trade_id
         /\ FullyClosed \subseteq Targets(Current)
         /\ active_structures' = active_structures \ FullyClosed
<1>1. /\ phase = "commit" /\ CommitDone /\ ~CreatesContent(CurrentAction)
      /\ cursor <= Len(action_group_log) /\ cursor \in Nat
  BY DEF CommitStructure, BookInv, PlanIsThePatch, TypeOK
<1>2. /\ CurrentAction \in AnyAction
      /\ ConvertibleAction(CurrentAction, portfolio_state)
      /\ DOMAIN Current = Addressed(CurrentAction, portfolio_state)
      /\ DOMAIN Current = Targets(Current)
      /\ \A s \in DOMAIN Current :
           /\ s \in active_structures /\ s \in Opened
           /\ structures[s] \in Structures
           /\ portfolio_state[s].legs = structures[s].legs
  BY <1>1, CurrentGroup DEF BookInv
<1>3. /\ Len(structures') = Len(structures)
      /\ \A s \in Opened :
           /\ structures'[s].trade_id = structures[s].trade_id
           /\ s \notin Targets(Current) => structures'[s] = structures[s]
           /\ s \in Targets(Current) => structures'[s] = Resized(CurrentAction, structures[s])
  BY CommitStructureEffect DEF BookInv, Plan
<1>4. FullyClosed \subseteq DOMAIN Current /\ active_structures' = active_structures \ FullyClosed
  BY DEF FullyClosed, CommitStructure
<1>5. cursor \in cursor..Len(action_group_log)
  BY <1>1 DEF BookInv, TypeOK
<1> QED BY <1>1, <1>2, <1>3, <1>4, <1>5 DEF Opened

\* Every other step leaves the book alone.
LEMMA OtherSteps ==
  ASSUME [Next]_vars
  PROVE  CommitOpen \/ CommitExtend \/ CommitStructure \/ UNCHANGED bookVars
BY DEF Next, Step, Commit, MarkToMarket, EmitPatch, Emit, Assemble, SignalRaises, ConversionRaises,
       DuplicateRaises, Execute, TripwireFires, ExtendRaises, EndDay, RunAgain, Stopped, vars

-----------------------------------------------------------------------------
(* The dates of the events. *)

LEMMA ResizedLog ==
  ASSUME TypeOK, NEW a, NEW st \in Structures
  PROVE  /\ Len(st.event_log) \in Nat
         /\ Len(Resized(a, st).event_log) = Len(st.event_log) + 1
         /\ DOMAIN Resized(a, st).event_log = 1..(Len(st.event_log) + 1)
         /\ DOMAIN st.event_log = 1..Len(st.event_log)
         /\ \A e \in 1..Len(st.event_log) : Resized(a, st).event_log[e] = st.event_log[e]
         /\ Resized(a, st).event_log[Len(st.event_log) + 1].date = day
         /\ LastEventDate(Resized(a, st)) = day
<1> DEFINE event == [event_type |-> EventType(a, st), date |-> day,
                     leg_size_changes |-> SizeChanges(a, st)]
<1>1. st.event_log \in Seq(Events)
  BY DEF Structures
<1>2. Resized(a, st).event_log = Append(st.event_log, event)
  BY DEF Resized
<1>3. event.date = day
  OBVIOUS
<1> HIDE DEF event
<1> QED BY <1>1, <1>2, <1>3 DEF LastEventDate

LEMMA OpenedLog ==
  ASSUME NEW t, NEW legs
  PROVE  LET st == OpenedStructure(t, legs)
         IN  /\ Len(st.event_log) = 1 /\ st.event_log[1].date = day
             /\ st.trade_id = t /\ st.legs = legs
             /\ LastEventDate(st) = day
BY DEF OpenedStructure, LastEventDate

\* A structure has been touched once a day, on or after the day its trade was
\* entered, and not after today.
DatesOf(s) ==
  LET log == structures[s].event_log
  IN  /\ log # <<>>
      /\ \A e, f \in DOMAIN log : e < f => log[e].date < log[f].date
      /\ LastEventDate(structures[s]) <= day
      /\ trade_history[structures[s].trade_id].entry_date <= LastEventDate(structures[s])

\* Before the day's dispatch nothing has been touched today; while it lasts, what
\* is still to be targeted has not.
DatesInv ==
  runs = 1 =>
    /\ \A s \in Opened : DatesOf(s)
    /\ \A t \in 1..Len(trade_history) : trade_history[t].entry_date <= day
    /\ phase \in {"mark", "emit", "assemble"} =>
         \A s \in Opened : LastEventDate(structures[s]) < day
    /\ phase \in {"dispatch", "commit"} =>
         \A i \in cursor..Len(action_group_log) :
           \A s \in Targets(order_groups[i]) : LastEventDate(structures[s]) < day

Lifecycle ==
  /\ active_trades = {structures[s].trade_id : s \in active_structures}
  /\ \A t \in 1..Len(trade_history) :
       t \in active_trades <=> trade_history[t].exit_date = None
  /\ runs = 1 => \A t \in 1..Len(trade_history) :
       t \notin active_trades => trade_history[t].entry_date < trade_history[t].exit_date

LEMMA TradeRow ==
  ASSUME TypeOK, NEW t \in 1..Len(trade_history)
  PROVE  /\ trade_history[t].entry_date \in Days
         /\ trade_history[t].exit_date \in Days \cup {None}
<1> DEFINE Row == [entry_date : Days, exit_date : Days \cup {None}]
<1>1. trade_history \in Seq(Row)
  BY DEF TypeOK
<1>2. trade_history[t] \in Row
  <2> HIDE DEF Row
  <2> QED BY <1>1, ElementOfSeq
<1> QED BY <1>2

LEMMA LastDateType ==
  ASSUME TypeOK, NEW s \in Opened, structures[s].event_log # <<>>
  PROVE  /\ LastEventDate(structures[s]) \in Int
         /\ structures[s].event_log \in Seq(Events)
         /\ structures[s].trade_id \in 1..Len(trade_history)
         /\ trade_history[structures[s].trade_id].entry_date \in Int
         /\ trade_history[structures[s].trade_id].exit_date \in Int
         /\ day \in Int
<1>1. structures[s] \in Structures
  BY OpenedRow
<1>2. structures[s].event_log \in Seq(Events) /\ structures[s].trade_id \in 1..Len(trade_history)
  BY <1>1 DEF Structures, TypeOK
<1>3. LastEventDate(structures[s]) \in Days
  <2>1. structures[s].event_log[Len(structures[s].event_log)] \in Events
    BY <1>2
  <2> QED BY <2>1 DEF LastEventDate, Events
<1>4. /\ trade_history[structures[s].trade_id].entry_date \in Days
      /\ trade_history[structures[s].trade_id].exit_date \in Days \cup {None}
  BY <1>2, TradeRow
<1>5. Days \cup {None} \subseteq Int /\ day \in Days
  BY DEF Days, None, TypeOK
<1> QED BY <1>2, <1>3, <1>4, <1>5

\* No step rewrites the date a trade was entered on.
LEMMA EntryDates ==
  ASSUME BookInv, CommitOpen \/ CommitExtend \/ CommitStructure
  PROVE  /\ Len(trade_history) \in Nat /\ Len(trade_history') \in Nat
         /\ Len(trade_history) <= Len(trade_history')
         /\ \A t \in 1..Len(trade_history) :
              trade_history'[t].entry_date = trade_history[t].entry_date
         /\ \A t \in 1..Len(trade_history') : t \notin 1..Len(trade_history) =>
              /\ trade_history'[t].entry_date = day
              /\ CommitOpen /\ t = Len(trade_history) + 1
<1> DEFINE Row == [entry_date : Days, exit_date : Days \cup {None}]
<1>0. trade_history \in Seq(Row) /\ Len(trade_history) \in Nat
      /\ DOMAIN trade_history = 1..Len(trade_history)
  BY DEF BookInv, TypeOK
<1>1. CASE CommitOpen
  <2> DEFINE row == [entry_date |-> day, exit_date |-> None]
  <2>1. trade_history' = Append(trade_history, row) /\ row.entry_date = day
    BY <1>1 DEF CommitOpen
  <2> HIDE DEF row, Row
  <2> QED BY <1>0, <1>1, <2>1
<1>2. CASE CommitExtend
  BY <1>0, <1>2 DEF CommitExtend
<1>3. CASE CommitStructure
  <2> DEFINE left == active_structures \ FullyClosed
             H(t) == IF t \in Exits(left) THEN [trade_history[t] EXCEPT !.exit_date = day]
                     ELSE trade_history[t]
  <2>1. trade_history' = [t \in DOMAIN trade_history |-> H(t)]
    BY <1>3 DEF CommitStructure
  <2>2. \A t \in 1..Len(trade_history) : H(t).entry_date = trade_history[t].entry_date
    <3>1. \A t \in 1..Len(trade_history) : trade_history[t] \in Row
      <4> HIDE DEF Row
      <4> QED BY <1>0, ElementOfSeq
    <3> HIDE DEF left
    <3> QED BY <3>1
  <2>3. trade_history' \in Seq(Row)
    BY <1>3, CommitStructureType DEF BookInv, TypeOK, Plan
  <2>4. Len(trade_history') = Len(trade_history)
    <3> HIDE DEF H, Row
    <3> QED BY <1>0, <2>1, <2>3
  <2> HIDE DEF H, Row
  <2> QED BY <1>0, <2>1, <2>2, <2>4
<1> QED BY <1>1, <1>2, <1>3

\* The dates survive a content commit: what it opens is dated today, its trade
\* was entered today or before.
LEMMA DatesOpening ==
  ASSUME BookInv, DatesInv, CommitOpen \/ CommitExtend, runs = 1
  PROVE  \A s \in Opened' : DatesOf(s)'
<1>1. /\ CommitDone /\ OwnerTrade \in Nat \ {0}
      /\ CommitOpen => OwnerTrade = Len(trade_history) + 1
      /\ CommitExtend => OwnerTrade \in active_trades
      /\ \A s \in Opened : structures'[s] = structures[s]
      /\ \A s \in Opened' \ Opened :
           structures'[s] = OpenedStructure(OwnerTrade, Current[s - Len(structures)].legs)
  BY Opening
<1>2. day' = day /\ day \in Int /\ TypeOK
  BY <1>1 DEF CommitDone, BookInv, TypeOK, Days
<1>3. ASSUME NEW s \in Opened PROVE DatesOf(s)'
  <2>1. DatesOf(s)
    BY DEF DatesInv
  <2>2. structures[s].trade_id \in 1..Len(trade_history)
    BY <1>2, <2>1, LastDateType DEF DatesOf
  <2>3. trade_history'[structures[s].trade_id].entry_date
          = trade_history[structures[s].trade_id].entry_date
    BY <2>2, EntryDates
  <2>4. structures'[s] = structures[s]
    BY <1>1
  <2> QED BY <1>2, <2>1, <2>3, <2>4 DEF DatesOf, LastEventDate
<1>4. ASSUME NEW s \in Opened' \ Opened PROVE DatesOf(s)'
  <2> DEFINE st == OpenedStructure(OwnerTrade, Current[s - Len(structures)].legs)
  <2>1. /\ structures'[s] = st /\ Len(st.event_log) = 1
        /\ st.trade_id = OwnerTrade /\ LastEventDate(st) = day
        /\ DOMAIN st.event_log = {1} /\ st.event_log # <<>>
    <3>1. DOMAIN st.event_log = {1} /\ st.event_log # <<>>
      BY DEF OpenedStructure
    <3> QED BY <1>1, <3>1, OpenedLog
  <2>2. trade_history'[OwnerTrade].entry_date <= day
    <3>1. CASE CommitExtend
      <4>1. OwnerTrade \in 1..Len(trade_history)
        BY <1>1, <3>1 DEF BookInv, TypeOK
      <4> QED BY <4>1, EntryDates DEF DatesInv
    <3>2. CASE CommitOpen
      <4>1. OwnerTrade = Len(trade_history) + 1 /\ Len(trade_history) \in Nat
        BY <1>1, <3>2, EntryDates
      <4>2. trade_history' = Append(trade_history, [entry_date |-> day, exit_date |-> None])
        BY <3>2 DEF CommitOpen
      <4>3. trade_history \in Seq([entry_date : Days, exit_date : Days \cup {None}])
        BY <1>2 DEF TypeOK
      <4>4. trade_history'[OwnerTrade] = [entry_date |-> day, exit_date |-> None]
        BY <4>1, <4>2, <4>3
      <4> QED BY <1>2, <4>4
    <3> QED BY <3>1, <3>2
  <2> HIDE DEF st
  <2>3. LastEventDate(structures[s])' = day
    BY <2>1 DEF LastEventDate
  <2> QED BY <1>2, <2>1, <2>2, <2>3 DEF DatesOf
<1> QED BY <1>3, <1>4

\* They survive a modification: what it touches has not been touched today.
LEMMA DatesResizing ==
  ASSUME BookInv, DatesInv, CommitStructure, runs = 1
  PROVE  \A s \in Opened' : DatesOf(s)'
<1>1. /\ phase = "commit" /\ CommitDone /\ Opened' = Opened
      /\ cursor \in cursor..Len(action_group_log)
      /\ \A s \in Targets(Current) :
           s \in Opened /\ structures[s] \in Structures
             /\ structures'[s] = Resized(CurrentAction, structures[s])
      /\ \A s \in Opened : s \notin Targets(Current) => structures'[s] = structures[s]
      /\ \A s \in Opened : structures'[s].trade_id = structures[s].trade_id
  BY Resizing
<1>2. day' = day /\ day \in Int /\ TypeOK
  BY <1>1 DEF CommitDone, BookInv, TypeOK, Days
<1> SUFFICES ASSUME NEW s \in Opened PROVE DatesOf(s)'
  BY <1>1
<1>3. DatesOf(s)
  BY DEF DatesInv
<1>4. trade_history'[structures'[s].trade_id].entry_date
        = trade_history[structures[s].trade_id].entry_date
  BY <1>1, <1>2, <1>3, EntryDates, LastDateType DEF DatesOf
<1>5. CASE s \notin Targets(Current)
  <2>1. structures'[s] = structures[s]
    BY <1>1, <1>5
  <2> QED BY <1>2, <1>3, <1>4, <2>1 DEF DatesOf, LastEventDate
<1>6. CASE s \in Targets(Current)
  <2> DEFINE old == structures[s].event_log
             new == structures'[s].event_log
             n == Len(old)
  <2>1. LastEventDate(structures[s]) < day
    BY <1>1, <1>6 DEF DatesInv, Current
  <2>2. /\ n \in Nat /\ Len(new) = n + 1 /\ DOMAIN new = 1..(n + 1) /\ DOMAIN old = 1..n
        /\ \A e \in 1..n : new[e] = old[e]
        /\ new[n + 1].date = day
        /\ LastEventDate(structures'[s]) = day
    BY <1>1, <1>2, <1>6, ResizedLog
  <2>3. n # 0 /\ old \in Seq(Events)
    BY <1>2, <1>3, LastDateType DEF DatesOf
  <2>4. \A e \in 1..n : old[e].date \in Int
    <3>1. \A e \in 1..n : old[e] \in Events
      BY <2>3, ElementOfSeq
    <3>2. \A event \in Events : event.date \in Int
      BY DEF Events, Days
    <3> QED BY <3>1, <3>2
  <2>5. \A e, f \in 1..n : e < f => old[e].date < old[f].date
    BY <1>3, <2>2 DEF DatesOf
  <2>6. \A e \in 1..n : old[e].date < day
    <3>1. old[n].date < day
      BY <2>1 DEF LastEventDate
    <3>2. n \in 1..n /\ \A e \in 1..n : e = n \/ e < n
      BY <2>2, <2>3
    <3> QED BY <1>2, <2>4, <2>5, <3>1, <3>2
  <2>7. \A e, f \in DOMAIN new : e < f => new[e].date < new[f].date
    <3> SUFFICES ASSUME NEW e \in 1..(n + 1), NEW f \in 1..(n + 1), e < f
                 PROVE  new[e].date < new[f].date
      BY <2>2
    <3>1. e \in 1..n
      BY <2>2
    <3>2. CASE f = n + 1
      BY <2>2, <2>6, <3>1, <3>2
    <3>3. CASE f \in 1..n
      BY <2>2, <2>5, <3>1, <3>3
    <3> QED BY <2>2, <3>2, <3>3
  <2>8. new # <<>>
    BY <2>2
  <2>9. trade_history[structures[s].trade_id].entry_date <= day
    BY <1>2, <1>3, <2>1, LastDateType DEF DatesOf
  <2>10. LastEventDate(structures[s])' = day
    BY <2>2 DEF LastEventDate
  <2> QED BY <1>2, <1>4, <2>7, <2>8, <2>9, <2>10 DEF DatesOf
<1> QED BY <1>5, <1>6

\* What the rest of the patch targets has not been touched today: it is not
\* what the group at the cursor targets, or opens.
LEMMA DatesPending ==
  ASSUME BookInv, DatesInv, CommitOpen \/ CommitExtend \/ CommitStructure, runs = 1
  PROVE  \A i \in cursor'..Len(action_group_log') :
           \A s \in Targets(order_groups'[i]) : LastEventDate(structures'[s]) < day'
<1>1. /\ phase = "commit" /\ CommitDone
      /\ \A s \in Opened : s \notin Targets(Current) => structures'[s] = structures[s]
  BY Opening, Resizing
<1>2. /\ cursor' = cursor + 1 /\ action_group_log' = action_group_log
      /\ order_groups' = order_groups /\ day' = day /\ cursor \in Nat
  BY <1>1 DEF CommitDone, logVars, BookInv, TypeOK
<1> SUFFICES ASSUME NEW i \in (cursor + 1)..Len(action_group_log),
                    NEW s \in Targets(order_groups[i])
             PROVE  LastEventDate(structures'[s]) < day
  BY <1>2
<1>3. i \in cursor..Len(action_group_log) /\ i # cursor
      /\ cursor \in cursor..Len(action_group_log)
  BY <1>2 DEF BookInv, TypeOK
<1>4. LastEventDate(structures[s]) < day
  BY <1>1, <1>3 DEF DatesInv
<1>5. s \in Opened
  BY <1>1, <1>3 DEF BookInv, PendingTargetsAreCurrent, TypeOK
<1>6. s \notin Targets(Current)
  <2>1. /\ order_groups = PatchOrders /\ NoDuplicateTargets(PatchOrders)
        /\ cursor >= first /\ first \in Nat
    BY <1>1 DEF BookInv, PlanIsThePatch, TypeOK
  <2>2. i \in Patch /\ cursor \in Patch
    BY <1>2, <1>3, <2>1 DEF Patch
  <2>3. i \in DOMAIN order_groups /\ cursor \in DOMAIN order_groups
    BY <2>1, <2>2 DEF PatchOrders
  <2> QED BY <1>3, <2>1, <2>3 DEF NoDuplicateTargets, Current
<1> QED BY <1>1, <1>4, <1>5, <1>6

\* The steps that leave the book alone: only the next day moves the bounds, and
\* it moves them up.
LEMMA DatesOther ==
  ASSUME BookInv, DatesInv, [Next]_vars, UNCHANGED bookVars, runs' = 1
  PROVE  DatesInv'
<1>0. TypeOK /\ day \in Int
  BY DEF BookInv, TypeOK, Days
<1>1. runs = 1 /\ day' \in Int /\ day <= day'
  <2>1. ~RunAgain
    BY <1>0 DEF RunAgain, BookInv, TypeOK
  <2>2. runs' = runs /\ (day' = day \/ day' = day + 1)
    <3>1. CASE EndDay
      BY <3>1 DEF EndDay
    <3>2. CASE CommitOpen \/ CommitExtend \/ CommitStructure
      BY <3>2 DEF CommitOpen, CommitExtend, CommitStructure, CommitDone
    <3> QED BY <2>1, <3>1, <3>2
        DEF Next, Step, Commit, MarkToMarket, EmitPatch, Emit, Assemble, SignalRaises, ConversionRaises,
            DuplicateRaises, Execute, TripwireFires, ExtendRaises, Stopped, vars, loopVars
  <2> QED BY <1>0, <2>2
<1>2. \A s \in Opened : /\ LastEventDate(structures[s]) \in Int
                        /\ LastEventDate(structures[s]) <= day
                        /\ DatesOf(s)
  BY <1>0, <1>1, LastDateType DEF DatesInv, DatesOf
<1>3. /\ Opened' = Opened /\ structures' = structures /\ trade_history' = trade_history
      /\ \A s \in Opened : LastEventDate(structures[s])' = LastEventDate(structures[s])
  BY DEF bookVars, Opened, LastEventDate
<1>4. \A s \in Opened : DatesOf(s)'
  BY <1>0, <1>1, <1>2, <1>3 DEF DatesOf
<1>5. \A t \in 1..Len(trade_history') : trade_history'[t].entry_date <= day'
  <2>1. \A t \in 1..Len(trade_history) : trade_history[t].entry_date \in Int
    BY <1>0, TradeRow DEF Days
  <2> QED BY <1>0, <1>1, <1>3, <2>1 DEF DatesInv
<1>6. phase' \in {"mark", "emit", "assemble"} =>
        \A s \in Opened : LastEventDate(structures[s]) < day'
  <2>1. \/ phase \in {"mark", "emit", "assemble"} /\ day' = day
        \/ day' = day + 1
        \/ phase' \notin {"mark", "emit", "assemble"}
    <3>1. ~RunAgain
      BY <1>1 DEF RunAgain
    <3> QED BY <3>1 DEF Next, Step, Commit, MarkToMarket, EmitPatch, Emit, Assemble,
          SignalRaises, ConversionRaises, DuplicateRaises, Raise, Execute, TripwireFires, ExtendRaises, EndDay,
          Stopped, vars, loopVars, CommitOpen, CommitExtend, CommitStructure, CommitDone
  <2> QED BY <1>0, <1>1, <1>2, <2>1 DEF DatesInv
<1>7. phase' \in {"dispatch", "commit"} =>
        \A i \in cursor'..Len(action_group_log') :
          \A s \in Targets(order_groups'[i]) : LastEventDate(structures[s]) < day'
  <2> SUFFICES ASSUME phase' \in {"dispatch", "commit"},
                      NEW i \in cursor'..Len(action_group_log'),
                      NEW s \in Targets(order_groups'[i])
               PROVE  LastEventDate(structures[s]) < day'
    OBVIOUS
  <2>1. CASE Assemble
    <3>1. s \in Opened
      <4>1. PendingTargetsAreCurrent' /\ TypeOK'
        BY BookInvStep DEF BookInv
      <4> QED BY <1>3, <4>1 DEF PendingTargetsAreCurrent, TypeOK
    <3>2. phase = "assemble" /\ day' = day
      BY <2>1 DEF Assemble
    <3> QED BY <1>1, <3>1, <3>2 DEF DatesInv
  <2>2. CASE Execute
    <3>1. /\ phase = "dispatch" /\ day' = day /\ order_groups' = order_groups
          /\ cursor' \in {cursor, cursor + 1} /\ cursor \in Nat
      BY <1>0, <2>2 DEF Execute, TypeOK
    <3>2. Len(action_group_log') = Len(action_group_log)
      BY <1>0, <2>2, ExecuteKeepsPatch
    <3>3. i \in cursor..Len(action_group_log)
      BY <3>1, <3>2
    <3> QED BY <1>1, <3>1, <3>3 DEF DatesInv
  <2>3. CASE UNCHANGED vars
    <3>1. phase' = phase /\ cursor' = cursor /\ order_groups' = order_groups
          /\ action_group_log' = action_group_log /\ day' = day
      BY <2>3 DEF vars, loopVars, planVars, logVars
    <3> QED BY <1>1, <3>1 DEF DatesInv
  <2>4. CASE CommitOpen \/ CommitExtend
    <3>1. Opened' \ Opened # {}
      BY <2>4, Opening
    <3> QED BY <1>3, <3>1
  <2>5. CASE CommitStructure
    BY <1>1, <1>3, <2>5, DatesPending
  <2> QED BY <1>0, <2>1, <2>2, <2>3, <2>4, <2>5
      DEF Next, Step, Commit, MarkToMarket, EmitPatch, Emit, SignalRaises, ConversionRaises, DuplicateRaises,
          Raise, TripwireFires, ExtendRaises, EndDay, RunAgain, Stopped
<1> QED BY <1>3, <1>4, <1>5, <1>6, <1>7 DEF DatesInv, LastEventDate

LEMMA DatesStep == ASSUME BookInv, DatesInv, [Next]_vars PROVE DatesInv'
<1> SUFFICES ASSUME runs' = 1 PROVE DatesInv'
  BY DEF DatesInv
<1>1. CASE UNCHANGED bookVars
  BY <1>1, DatesOther
<1>2. CASE CommitOpen \/ CommitExtend \/ CommitStructure
  <2>1. phase' = "dispatch" /\ day' = day /\ runs = 1
    BY <1>2 DEF CommitOpen, CommitExtend, CommitStructure, CommitDone
  <2>2. \A s \in Opened' : DatesOf(s)'
    BY <1>2, <2>1, DatesOpening, DatesResizing
  <2>3. \A i \in cursor'..Len(action_group_log') :
          \A s \in Targets(order_groups'[i]) : LastEventDate(structures'[s]) < day'
    BY <1>2, <2>1, DatesPending
  <2>4. \A t \in 1..Len(trade_history') : trade_history'[t].entry_date <= day'
    <3> SUFFICES ASSUME NEW t \in 1..Len(trade_history')
                 PROVE  trade_history'[t].entry_date <= day
      BY <2>1
    <3>1. day \in Int
      BY DEF BookInv, TypeOK, Days
    <3>2. CASE t \in 1..Len(trade_history)
      BY <1>2, <2>1, <3>2, EntryDates DEF DatesInv
    <3>3. CASE t \notin 1..Len(trade_history)
      BY <1>2, <3>1, <3>3, EntryDates
    <3> QED BY <3>2, <3>3
  <2> QED BY <2>1, <2>2, <2>3, <2>4 DEF DatesInv, LastEventDate
<1> QED BY <1>1, <1>2, OtherSteps

-----------------------------------------------------------------------------
(* The lifecycle of a trade. *)

\* An exit date is written on the trades a close leaves without a structure.
LEMMA ExitDates ==
  ASSUME BookInv, CommitStructure
  PROVE  /\ Len(trade_history') = Len(trade_history)
         /\ active_trades' = {t \in active_trades :
                                \E s \in active_structures' : structures[s].trade_id = t}
         /\ \A t \in 1..Len(trade_history) :
              \/ /\ trade_history'[t] = trade_history[t]
                 /\ \A s \in FullyClosed : structures[s].trade_id = t =>
                      \E u \in active_structures' : structures[u].trade_id = t
              \/ /\ trade_history'[t].exit_date = day
                 /\ \A u \in active_structures' : structures[u].trade_id # t
                 /\ \E s \in FullyClosed : structures[s].trade_id = t
<1> DEFINE left == active_structures \ FullyClosed
<1>1. /\ active_structures' = left
      /\ trade_history' = [t \in DOMAIN trade_history |->
                             IF t \in Exits(left)
                             THEN [trade_history[t] EXCEPT !.exit_date = day]
                             ELSE trade_history[t]]
      /\ active_trades' = {t \in active_trades : \E s \in left : structures[s].trade_id = t}
  BY DEF CommitStructure
<1>2. /\ DOMAIN trade_history = 1..Len(trade_history)
      /\ Len(trade_history) \in Nat /\ Len(trade_history') \in Nat
      /\ DOMAIN trade_history' = 1..Len(trade_history')
  <2>1. TypeOK /\ TypeOK'
    BY CommitStructureType DEF BookInv, Plan
  <2> QED BY <2>1 DEF TypeOK
<1>3. DOMAIN trade_history' = DOMAIN trade_history
  BY <1>1
<1>4. \A t \in 1..Len(trade_history) :
        [trade_history[t] EXCEPT !.exit_date = day].exit_date = day
  <2> DEFINE Row == [entry_date : Days, exit_date : Days \cup {None}]
  <2>1. trade_history \in Seq(Row)
    BY DEF BookInv, TypeOK
  <2>2. \A t \in 1..Len(trade_history) : trade_history[t] \in Row
    <3> HIDE DEF Row
    <3> QED BY <2>1, ElementOfSeq
  <2> QED BY <2>2
<1> HIDE DEF left
<1> QED BY <1>1, <1>2, <1>3, <1>4 DEF Exits

LEMMA LifecycleOpening ==
  ASSUME BookInv, Lifecycle, CommitOpen \/ CommitExtend
  PROVE  Lifecycle'
<1>1. /\ phase = "commit" /\ CommitDone /\ runs' = runs
      /\ CommitOpen => OwnerTrade = Len(trade_history) + 1
      /\ CommitExtend => OwnerTrade \in active_trades
      /\ Opened' \ Opened # {}
      /\ \A s \in Opened : structures'[s] = structures[s]
      /\ \A s \in Opened' \ Opened : structures'[s].trade_id = OwnerTrade
      /\ active_structures' = active_structures \cup (Opened' \ Opened)
      /\ active_structures \subseteq Opened
  BY Opening, OpenedLog DEF CommitDone, BookInv, TypeOK
<1>2. /\ trade_history \in Seq([entry_date : Days, exit_date : Days \cup {None}])
      /\ Len(trade_history) \in Nat /\ active_trades \subseteq 1..Len(trade_history)
  BY DEF BookInv, TypeOK
<1>3. {structures'[s].trade_id : s \in active_structures'} = active_trades \cup {OwnerTrade}
  BY <1>1 DEF Lifecycle
<1>4. CASE CommitExtend
  <2>1. trade_history' = trade_history /\ active_trades' = active_trades
    BY <1>4 DEF CommitExtend
  <2> QED BY <1>1, <1>3, <1>4, <2>1 DEF Lifecycle
<1>5. CASE CommitOpen
  <2> DEFINE n == Len(trade_history) + 1
             row == [entry_date |-> day, exit_date |-> None]
  <2>1. trade_history' = Append(trade_history, row) /\ active_trades' = active_trades \cup {n}
        /\ row.exit_date = None
    BY <1>5 DEF CommitOpen
  <2> HIDE DEF row
  <2>2. /\ Len(trade_history') = n /\ trade_history'[n] = row
        /\ \A t \in 1..Len(trade_history) : trade_history'[t] = trade_history[t]
        /\ \A t \in 1..n : t \in 1..Len(trade_history) \/ t = n
    BY <1>2, <2>1
  <2>3. n \notin 1..Len(trade_history)
    BY <1>2
  <2> QED BY <1>1, <1>2, <1>3, <1>5, <2>1, <2>2, <2>3 DEF Lifecycle
<1> QED BY <1>4, <1>5

LEMMA LifecycleResizing ==
  ASSUME BookInv, DatesInv, Lifecycle, CommitStructure
  PROVE  Lifecycle'
<1>1. /\ phase = "commit" /\ CommitDone /\ runs' = runs
      /\ cursor \in cursor..Len(action_group_log)
      /\ \A s \in Opened : structures'[s].trade_id = structures[s].trade_id
      /\ FullyClosed \subseteq Targets(Current)
      /\ \A s \in Targets(Current) : s \in active_structures /\ s \in Opened
      /\ active_structures' = active_structures \ FullyClosed
      /\ active_structures \subseteq Opened
      /\ TypeOK /\ day \in Days
  BY Resizing DEF CommitDone, BookInv, TypeOK
<1>2. active_trades' = {structures'[s].trade_id : s \in active_structures'}
  BY <1>1, ExitDates DEF Lifecycle
<1>3. \A t \in 1..Len(trade_history) :
        t \in active_trades' <=> trade_history'[t].exit_date = None
  <2>1. day # None
    BY <1>1 DEF Days, None
  <2> QED BY <1>1, <2>1, ExitDates DEF Lifecycle
<1>4. ASSUME runs = 1, NEW t \in 1..Len(trade_history), t \notin active_trades'
      PROVE  trade_history'[t].entry_date < trade_history'[t].exit_date
  <2>1. CASE trade_history'[t] = trade_history[t]
    BY <1>3, <1>4, <2>1 DEF Lifecycle
  <2>2. CASE trade_history'[t] # trade_history[t]
    <3>1. PICK s \in FullyClosed : structures[s].trade_id = t
      BY <2>2, ExitDates
    <3>2. trade_history'[t].exit_date = day /\ trade_history'[t].entry_date = trade_history[t].entry_date
      BY <2>2, ExitDates, EntryDates
    <3>3. s \in Targets(Current) /\ s \in Opened
      BY <1>1
    <3>4. LastEventDate(structures[s]) < day
      BY <1>1, <1>4, <3>3 DEF DatesInv, Current
    <3>5. DatesOf(s)
      BY <1>4, <3>3 DEF DatesInv
    <3>6. LastEventDate(structures[s]) \in Int /\ trade_history[t].entry_date \in Int /\ day \in Int
      BY <1>1, <3>1, <3>3, <3>5, LastDateType DEF DatesOf
    <3> QED BY <3>1, <3>2, <3>4, <3>5, <3>6 DEF DatesOf
  <2> QED BY <2>1, <2>2
<1> QED BY <1>1, <1>2, <1>3, <1>4, ExitDates DEF Lifecycle

LEMMA LifecycleStep ==
  ASSUME BookInv, DatesInv, Lifecycle, [Next]_vars
  PROVE  Lifecycle'
<1>1. CASE UNCHANGED bookVars
  <2>1. runs' = 1 => runs = 1
    <3>1. CASE RunAgain
      BY <3>1 DEF RunAgain, BookInv, TypeOK
    <3>2. CASE CommitOpen \/ CommitExtend \/ CommitStructure
      BY <3>2 DEF CommitOpen, CommitExtend, CommitStructure, CommitDone
    <3> QED BY <3>1, <3>2
        DEF Next, Step, Commit, MarkToMarket, EmitPatch, Emit, Assemble, SignalRaises, ConversionRaises,
            DuplicateRaises, Execute, TripwireFires, ExtendRaises, EndDay, Stopped, vars, loopVars
  <2> QED BY <1>1, <2>1 DEF Lifecycle, bookVars
<1>2. CASE CommitOpen \/ CommitExtend
  BY <1>2, LifecycleOpening
<1>3. CASE CommitStructure
  BY <1>3, LifecycleResizing
<1> QED BY <1>1, <1>2, <1>3, OtherSteps

-----------------------------------------------------------------------------
BookHistory == BookInv /\ DatesInv /\ Lifecycle

LEMMA BookHistoryInit == Init => BookHistory
<1> SUFFICES ASSUME Init PROVE BookHistory
  OBVIOUS
<1>1. /\ Opened = {} /\ 1..Len(trade_history) = {} /\ active_trades = {}
      /\ active_structures = {} /\ phase = "mark"
  BY DEF Init, Opened
<1> QED BY <1>1, BookInvInit DEF BookHistory, DatesInv, Lifecycle

LEMMA BookHistoryStep == BookHistory /\ [Next]_vars => BookHistory'
BY BookInvStep, DatesStep, LifecycleStep DEF BookHistory

\* The events of a structure have strictly increasing dates: a structure is
\* modified at most once a day, and never on the day it was opened.
THEOREM EventDates == Spec => []EventDatesIncrease
<1>1. BookHistory => EventDatesIncrease
  BY DEF BookHistory, DatesInv, DatesOf, EventDatesIncrease
<1> QED BY <1>1, BookHistoryInit, BookHistoryStep, PTL DEF Spec

\* A trade is active as long as a structure of it is, it is dated when the last
\* one goes, and that is after the day it was entered.
THEOREM TradesEnd == Spec => []TradeLifecycle
<1>1. BookHistory => TradeLifecycle
  BY DEF BookHistory, Lifecycle, TradeLifecycle
<1> QED BY <1>1, BookHistoryInit, BookHistoryStep, PTL DEF Spec

LEMMA ClosedTradeStep ==
  ASSUME BookHistory, [Next]_vars, NEW t \in DOMAIN trade_history
  PROVE  /\ trade_history'[t].entry_date = trade_history[t].entry_date
         /\ Closed(t) => /\ trade_history'[t] = trade_history[t]
                         /\ HistoryOf(t)' = HistoryOf(t)
                         /\ \A s \in HistoryOf(t) : structures'[s] = structures[s]
<1>0. BookInv /\ Lifecycle /\ TypeOK /\ t \in 1..Len(trade_history)
  BY DEF BookHistory, BookInv, TypeOK
<1>1. Closed(t) => t \notin active_trades
  BY <1>0 DEF Closed, Lifecycle
<1>2. Closed(t) => \A s \in active_structures : structures[s].trade_id # t
  BY <1>0, <1>1 DEF Lifecycle
<1>3. CASE UNCHANGED bookVars
  BY <1>3 DEF bookVars, HistoryOf, Opened
<1>4. CASE CommitOpen \/ CommitExtend
  <2>1. /\ CommitOpen => OwnerTrade = Len(trade_history) + 1
        /\ CommitExtend => OwnerTrade \in active_trades
        /\ Opened \subseteq Opened'
        /\ \A s \in Opened : structures'[s] = structures[s]
        /\ \A s \in Opened' \ Opened : structures'[s].trade_id = OwnerTrade
    BY <1>0, <1>4, Opening, OpenedLog
  <2>2. trade_history'[t] = trade_history[t]
    BY <1>0, <1>4 DEF CommitOpen, CommitExtend, TypeOK
  <2>3. Closed(t) => OwnerTrade # t
    BY <1>0, <1>1, <1>4, <2>1
  <2> QED BY <2>1, <2>2, <2>3 DEF HistoryOf
<1>5. CASE CommitStructure
  <2>1. /\ Opened' = Opened /\ FullyClosed \subseteq Targets(Current)
        /\ \A s \in Targets(Current) : s \in active_structures
        /\ \A s \in Opened : s \notin Targets(Current) => structures'[s] = structures[s]
        /\ \A s \in Opened : structures'[s].trade_id = structures[s].trade_id
    BY <1>0, <1>5, Resizing
  <2>2. trade_history'[t].entry_date = trade_history[t].entry_date
    BY <1>0, <1>5, EntryDates
  <2>3. Closed(t) => trade_history'[t] = trade_history[t]
    BY <1>0, <1>2, <1>5, <2>1, ExitDates
  <2> QED BY <1>2, <2>1, <2>2, <2>3 DEF HistoryOf
<1> QED BY <1>3, <1>4, <1>5, OtherSteps

\* trade_history is an audit trail: nothing of a closed trade changes again, in
\* no step of any run.
THEOREM ClosedFinal == Spec => ClosedTradesAreFinal
<1>1. BookHistory /\ [Next]_vars =>
        [\A t \in DOMAIN trade_history :
           /\ trade_history'[t].entry_date = trade_history[t].entry_date
           /\ Closed(t) => /\ trade_history'[t] = trade_history[t]
                           /\ HistoryOf(t)' = HistoryOf(t)
                           /\ \A s \in HistoryOf(t) : structures'[s] = structures[s]]_vars
  BY ClosedTradeStep
<1> QED BY <1>1, BookHistoryInit, BookHistoryStep, PTL DEF Spec, ClosedTradesAreFinal

-----------------------------------------------------------------------------
(* What a modification does to the legs. *)

\* The rows of the matrix a content group, a partial add or unwind comes from.
LEMMA ActionRows ==
  ASSUME NEW a \in AnyAction
  PROVE  /\ Opens(a) => a.spec \in TradeSpecs
         /\ Extends(a) => \E legs \in StructureSpecs : a.spec = <<legs>>
         /\ Adds(a) \/ Reduces(a) => a.size \in Amounts
<1> DEFINE Row(type, specs, trades, ids, amounts) ==
      [type : {type}, spec : specs, trade_id : trades, structure_id : ids, size : amounts]
<1>1. CASE a \in Row("NEW", TradeSpecs, {None}, {None}, {None})
  BY <1>1 DEF CreatesContent, Opens, Extends, Adds, Reduces
<1>2. CASE a \in Row("NEW", {<<st>> : st \in StructureSpecs}, Nat \ {0}, {None}, {None})
  BY <1>2 DEF CreatesContent, Opens, Extends, Adds, Reduces, None
<1>3. CASE a \in Row("NEW", {<<>>}, Nat \ {0}, Nat \ {0}, Amounts)
  BY <1>3 DEF CreatesContent, Opens, Extends, Adds, Reduces, None
<1>4. CASE a \in Row("UNWIND", {<<>>}, Nat \ {0}, Nat \ {0}, Amounts \cup {None})
  BY <1>4 DEF CreatesContent, Opens, Extends, Adds, Reduces
<1>5. CASE a \in Row("UNWIND", {<<>>}, (Nat \ {0}) \cup {None}, {None}, {None})
  BY <1>5 DEF CreatesContent, Opens, Extends, Adds, Reduces
<1> QED BY <1>1, <1>2, <1>3, <1>4, <1>5 DEF AnyAction, ActionMatrix

\* A partial add or unwind moves the one leg of one long structure, and leaves
\* it long.
LEMMA PartialEffect ==
  ASSUME BookInv, CommitStructure, ~Closes(CurrentAction)
  PROVE  /\ FullyClosed = {} /\ active_structures' = active_structures
         /\ \E s \in active_structures : \E n \in Amounts, sign \in {-1, 1} :
              LET leg == structures[s].legs[1]
              IN  /\ Targets(Current) = {s} /\ Len(structures[s].legs) = 1
                  /\ Modifiable(structures[s])
                  /\ leg \in Legs /\ leg.size > 0 /\ leg.size + sign * n > 0
                  /\ structures'[s].legs = <<[leg EXCEPT !.size = leg.size + sign * n]>>
<1> DEFINE a == CurrentAction
           s == a.structure_id
           leg == structures[s].legs[1]
<1>1. /\ a \in AnyAction /\ ~CreatesContent(a)
      /\ ConvertibleAction(a, portfolio_state)
      /\ Targets(Current) = Addressed(a, portfolio_state)
      /\ \A u \in Targets(Current) :
           /\ u \in active_structures /\ structures[u] \in Structures
           /\ portfolio_state[u].legs = structures[u].legs
           /\ structures'[u] = Resized(a, structures[u])
      /\ FullyClosed \subseteq Targets(Current)
      /\ active_structures' = active_structures \ FullyClosed
  BY Resizing
<1>2. Adds(a) \/ Reduces(a)
  BY <1>1, ActionFields
<1>3. a.size \in Amounts /\ a.size \in Nat \ {0} /\ a.size # None
  BY <1>1, <1>2, ActionRows, ContentAssumption DEF None
<1>4. Addresses(a, portfolio_state) /\ Modifiable(portfolio_state[s])
      /\ (Reduces(a) => a.size < Anchor(portfolio_state[s]))
  BY <1>1 DEF ConvertibleAction, Adds, Reduces, Closes
<1>5. None \notin DOMAIN portfolio_state
  BY DEF BookInv, TypeOK, Opened, None
<1>6. Targets(Current) = {s}
  BY <1>1, <1>4, <1>5 DEF Addresses, Addressed
<1>7. /\ s \in active_structures /\ structures[s] \in Structures
      /\ portfolio_state[s].legs = structures[s].legs
      /\ structures'[s] = Resized(a, structures[s])
  BY <1>1, <1>6
<1>8. structures[s].legs \in Content /\ Len(structures[s].legs) = 1
      /\ leg \in Legs /\ leg.size \in Int /\ leg.size > 0 /\ Anchor(structures[s]) = leg.size
      /\ DOMAIN structures[s].legs = {1} /\ Modifiable(structures[s])
  <2>1. structures[s].legs \in Content /\ Len(structures[s].legs) = 1
    BY <1>4, <1>7 DEF Modifiable, Structures
  <2>2. DOMAIN structures[s].legs = {1} /\ leg \in Legs /\ leg.size \in Int
    BY <2>1, ContentFields
  <2> QED BY <1>4, <1>7, <2>1, <2>2 DEF Modifiable, Anchor
<1> DEFINE sign == IF Adds(a) THEN 1 ELSE -1
<1>9. sign \in {-1, 1} /\ leg.size + sign * a.size > 0
  BY <1>2, <1>3, <1>4, <1>7, <1>8 DEF Anchor
<1>10. structures'[s].legs = <<[leg EXCEPT !.size = leg.size + sign * a.size]>>
  <2> DEFINE moved == [ticker |-> leg.ticker, size |-> SignedSize(a, leg, a.size)]
  <2>1. structures'[s].legs = [i \in {1} |-> moved]
    BY <1>3, <1>7, <1>8 DEF Resized, SizeChanges
  <2>2. moved = [leg EXCEPT !.size = leg.size + sign * a.size]
    BY <1>3, <1>8 DEF SignedSize, Legs
  <2> HIDE DEF moved, leg, sign
  <2> QED BY <2>1, <2>2
<1>11. FullyClosed = {}
  <2>1. EventType(a, structures[s]) # "full_close"
    BY <1>2, <1>3, <1>4, <1>7, <1>8 DEF EventType, Anchor
  <2> QED BY <1>1, <1>6, <2>1 DEF FullyClosed
<1> HIDE DEF leg, sign
<1> QED BY <1>1, <1>3, <1>6, <1>7, <1>8, <1>9, <1>10, <1>11 DEF leg, sign

\* Every other unwind closes all it targets.
LEMMA CloseEffect ==
  ASSUME BookInv, CommitStructure, Closes(CurrentAction)
  PROVE  /\ FullyClosed = Targets(Current) /\ FullyClosed # {}
         /\ FullyClosed \subseteq active_structures
<1> DEFINE a == CurrentAction
<1>1. /\ cursor <= Len(action_group_log) /\ ~CreatesContent(a)
      /\ phase = "commit"
  BY DEF CommitStructure, BookInv, PlanIsThePatch
<1>2. DOMAIN Current = Targets(Current)
  BY <1>1, CurrentGroup DEF BookInv
<1>3. /\ ConvertibleAction(a, portfolio_state)
      /\ Targets(Current) = Addressed(a, portfolio_state)
      /\ \A u \in Targets(Current) : u \in active_structures
  BY Resizing
<1>4. Addressed(a, portfolio_state) # {}
  BY <1>3 DEF ConvertibleAction, CreatesContent, Adds, Reduces, Closes
<1>5. \A s \in DOMAIN Current : EventType(a, structures[s]) = "full_close"
  BY DEF EventType, Closes, Adds
<1> QED BY <1>2, <1>3, <1>4, <1>5 DEF FullyClosed

LEMMA FlipStep ==
  ASSUME BookInv, [Next]_vars, NEW s \in active_structures \cap active_structures'
  PROVE  /\ \A i \in DOMAIN structures[s].legs :
              SignOf(structures'[s].legs[i].size) = SignOf(structures[s].legs[i].size)
         /\ structures'[s].legs # structures[s].legs => Modifiable(structures[s])
<1>0. s \in Opened
  BY DEF BookInv, TypeOK
<1>1. CASE UNCHANGED bookVars
  BY <1>1 DEF bookVars
<1>2. CASE CommitOpen \/ CommitExtend
  BY <1>0, <1>2, Opening
<1>3. CASE CommitStructure /\ s \notin Targets(Current)
  BY <1>0, <1>3, Resizing
<1>4. CASE CommitStructure /\ s \in Targets(Current)
  <2>1. ~Closes(CurrentAction)
    BY <1>4, CloseEffect, Resizing
  <2>2. PICK n \in Amounts, sign \in {-1, 1} :
          LET leg == structures[s].legs[1]
          IN  /\ Len(structures[s].legs) = 1
              /\ Modifiable(structures[s])
              /\ leg \in Legs /\ leg.size > 0 /\ leg.size + sign * n > 0
              /\ structures'[s].legs = <<[leg EXCEPT !.size = leg.size + sign * n]>>
    BY <1>4, <2>1, PartialEffect
  <2>3. structures[s].legs \in Content
    BY <1>0, OpenedRow DEF BookInv
  <2>4. DOMAIN structures[s].legs = {1}
    BY <2>2, <2>3, ContentFields
  <2>5. structures'[s].legs[1].size > 0 /\ structures[s].legs[1].size > 0
    BY <2>2 DEF Legs
  <2> QED BY <2>2, <2>4, <2>5 DEF SignOf
<1> QED BY <1>1, <1>2, <1>3, <1>4, OtherSteps

\* A position never reverses, and only a single long leg changes size.
THEOREM NeverFlip == Spec => PositionsNeverFlip
<1>1. BookInv /\ [Next]_vars =>
        [\A s \in active_structures \cap active_structures' :
           /\ \A i \in DOMAIN structures[s].legs :
                SignOf(structures'[s].legs[i].size) = SignOf(structures[s].legs[i].size)
           /\ structures'[s].legs # structures[s].legs => Modifiable(structures[s])]_vars
  BY FlipStep
<1> QED BY <1>1, BookInvInit, BookInvStep, PTL DEF Spec, PositionsNeverFlip
-----------------------------------------------------------------------------
(* The event log of a structure replays to its sizes. *)

\* What an event puts on a leg.
ChangeOf(event, i) ==
  IF event.event_type \in {"open", "partial_add"}
  THEN event.leg_size_changes[i] ELSE -event.leg_size_changes[i]

ChangesOf(st, i) == [e \in DOMAIN st.event_log |-> ChangeOf(st.event_log[e], i)]

\* A leg is what its events have put on it, and is there as long as its
\* structure is.
Replays(st, live) ==
  \A i \in DOMAIN st.legs :
    /\ \A e \in DOMAIN st.event_log : ChangeOf(st.event_log[e], i) \in Int
    /\ st.legs[i].size = ReplayedSize(st, i)
    /\ live <=> st.legs[i].size # 0

ReplayInv == \A s \in Opened : Replays(structures[s], s \in active_structures)

LEMMA ReplayedIs ==
  ASSUME NEW st, NEW i
  PROVE  ReplayedSize(st, i) = SumFunctionOnSet(ChangesOf(st, i), DOMAIN st.event_log)
<1>1. DOMAIN ChangesOf(st, i) = DOMAIN st.event_log
  BY DEF ChangesOf
<1>2. ReplayedSize(st, i) = SumFunction(ChangesOf(st, i))
  BY DEF ReplayedSize, ChangesOf, ChangeOf
<1> QED BY <1>1, <1>2, Zenon DEF SumFunction

\* A structure of non-zero content replays as soon as it is open.
LEMMA OpenedReplays ==
  ASSUME NEW t, NEW legs \in Content, \A i \in DOMAIN legs : legs[i].size # 0
  PROVE  Replays(OpenedStructure(t, legs), TRUE)
<1> DEFINE st == OpenedStructure(t, legs)
<1> SUFFICES ASSUME NEW i \in DOMAIN st.legs
             PROVE  /\ \A e \in DOMAIN st.event_log : ChangeOf(st.event_log[e], i) \in Int
                    /\ st.legs[i].size = ReplayedSize(st, i)
                    /\ st.legs[i].size # 0
  BY Zenon DEF Replays
<1>1. st.legs = legs /\ DOMAIN st.event_log = {1} /\ ChangeOf(st.event_log[1], i) = legs[i].size
  BY DEF OpenedStructure, ChangeOf
<1>2. legs[i].size \in Int
  BY <1>1, ContentFields
<1> DEFINE f == ChangesOf(st, i)
<1>3. f[1] = legs[i].size
  BY <1>1 DEF ChangesOf
<1> HIDE DEF f, st
<1>4. SumFunctionOnSet(f, {1}) = legs[i].size
  BY <1>2, <1>3, SumSingle
<1>5. ReplayedSize(st, i) = legs[i].size
  BY <1>1, <1>4, ReplayedIs, Zenon DEF f
<1> QED BY <1>1, <1>2, <1>5

\* One more event adds what it puts on a leg.
LEMMA ResizedReplay ==
  ASSUME TypeOK, NEW a \in AnyAction, NEW st \in Structures, NEW live, Replays(st, live),
         NEW i \in DOMAIN st.legs
  PROVE  LET new == Resized(a, st)
             change == SizeChanges(a, st)[i]
         IN  /\ \A e \in DOMAIN new.event_log : ChangeOf(new.event_log[e], i) \in Int
             /\ new.legs[i].size = ReplayedSize(new, i)
             /\ new.legs[i].size = IF Adds(a) THEN st.legs[i].size + change
                                   ELSE st.legs[i].size - change
<1> DEFINE new == Resized(a, st)
           change == SizeChanges(a, st)[i]
           put == IF Adds(a) THEN change ELSE -change
           n == Len(st.event_log)
           f == ChangesOf(new, i)
           g == ChangesOf(st, i)
           S == DOMAIN st.event_log
<1>1. st.legs[i].size \in Int /\ change \in Int
  <2>1. st.legs \in Content /\ a.size \in Int
    BY ActionFields DEF Structures
  <2> QED BY <2>1, ContentFields DEF SizeChanges
<1>2. /\ n \in Nat /\ DOMAIN new.event_log = 1..(n + 1) /\ S = 1..n
      /\ \A e \in 1..n : new.event_log[e] = st.event_log[e]
  BY ResizedLog
<1>3. ChangeOf(new.event_log[n + 1], i) = put
  <2> DEFINE event == [event_type |-> EventType(a, st), date |-> day,
                       leg_size_changes |-> SizeChanges(a, st)]
  <2>1. new.event_log[n + 1] = event
    <3>1. st.event_log \in Seq(Events)
      BY DEF Structures
    <3>2. new.event_log = Append(st.event_log, event)
      BY DEF Resized
    <3> HIDE DEF event, new
    <3> QED BY <3>1, <3>2
  <2>2. event.event_type \in {"open", "partial_add"} <=> Adds(a)
    BY DEF EventType
  <2>3. event.leg_size_changes[i] = change
    OBVIOUS
  <2> HIDE DEF event, change, new
  <2> QED BY <2>1, <2>2, <2>3, Zenon DEF ChangeOf
<1>4. new.legs[i].size = st.legs[i].size + put
  <2>1. new.legs[i].size = SignedSize(a, st.legs[i], change)
    BY DEF Resized
  <2> HIDE DEF new, change
  <2> QED BY <1>1, <2>1 DEF SignedSize
<1>5. /\ \A e \in S : ChangeOf(st.event_log[e], i) \in Int
      /\ st.legs[i].size = ReplayedSize(st, i)
  BY Zenon DEF Replays
<1>6. DOMAIN new.event_log = S \cup {n + 1} /\ n + 1 \notin S
  BY <1>2
<1>7. /\ \A e \in S : f[e] = g[e] /\ g[e] \in Int
      /\ f[n + 1] = put
      /\ \A e \in DOMAIN new.event_log : ChangeOf(new.event_log[e], i) = f[e]
  <2>1. \A e \in DOMAIN new.event_log : f[e] = ChangeOf(new.event_log[e], i)
    BY DEF ChangesOf
  <2>2. \A e \in S : g[e] = ChangeOf(st.event_log[e], i)
    BY DEF ChangesOf
  <2> HIDE DEF f, g, new, put, S
  <2> QED BY <1>2, <1>3, <1>5, <1>6, <2>1, <2>2, Zenon
<1>8. ReplayedSize(new, i) = SumFunctionOnSet(f, S \cup {n + 1})
  BY <1>6, ReplayedIs, Zenon
<1>9. ReplayedSize(st, i) = SumFunctionOnSet(g, S)
  BY ReplayedIs, Zenon
<1>10. IsFiniteSet(S) /\ put \in Int
  <2>1. IsFiniteSet(1..n)
    BY <1>2, FiniteInterval
  <2> HIDE DEF change
  <2> QED BY <1>1, <1>2, <2>1
<1> HIDE DEF f, g, S, new, put, change, n
<1>11. SumFunctionOnSet(f, S \cup {n + 1}) = SumFunctionOnSet(f, S) + f[n + 1]
  <2>1. f[n + 1] \in Int /\ \A e \in S : f[e] \in Int
    BY <1>7, <1>10, Zenon
  <2> QED BY <1>6, <1>10, <2>1, SumAdd, Zenon
<1>12. SumFunctionOnSet(f, S) = SumFunctionOnSet(g, S)
  BY <1>7, SumEqual, Zenon
<1>13. new.legs[i].size = ReplayedSize(new, i)
  BY <1>4, <1>5, <1>7, <1>8, <1>9, <1>11, <1>12, Zenon
<1>14. \A e \in DOMAIN new.event_log : ChangeOf(new.event_log[e], i) \in Int
  BY <1>6, <1>7, <1>10, Zenon
<1>15. new.legs[i].size = IF Adds(a) THEN st.legs[i].size + change ELSE st.legs[i].size - change
  BY <1>1, <1>4 DEF put
<1> QED BY <1>13, <1>14, <1>15, Zenon DEF new, change

LEMMA ReplayOpening ==
  ASSUME BookInv, ReplayInv, CommitOpen \/ CommitExtend
  PROVE  ReplayInv'
<1>1. /\ \A s \in Opened : structures'[s] = structures[s]
      /\ \A s \in Opened' \ Opened :
           /\ s - Len(structures) \in DOMAIN Current
           /\ structures'[s] = OpenedStructure(OwnerTrade, Current[s - Len(structures)].legs)
      /\ active_structures' = active_structures \cup (Opened' \ Opened)
      /\ phase = "commit"
  BY Opening
<1>2. CreatesContent(CurrentAction)
  BY Zenon DEF CommitOpen, CommitExtend, Opens, Extends
<1>3. /\ ValidContent(CurrentAction.spec)
      /\ \A k \in DOMAIN Current : Current[k].legs \in Content
      /\ Current = [k \in DOMAIN CurrentAction.spec |->
                      [structure_id |-> None, trade_id |-> CurrentAction.trade_id,
                       legs |-> CurrentAction.spec[k]]]
  BY <1>1, <1>2, ContentGroup
<1>4. \A k \in DOMAIN Current : \A i \in DOMAIN Current[k].legs : Current[k].legs[i].size # 0
  BY <1>3 DEF ValidContent
<1>5. ASSUME NEW s \in Opened' \ Opened
      PROVE  Replays(structures'[s], s \in active_structures')
  <2> DEFINE legs == Current[s - Len(structures)].legs
  <2>1. legs \in Content /\ \A i \in DOMAIN legs : legs[i].size # 0
    BY <1>1, <1>3, <1>4, Zenon
  <2>2. Replays(OpenedStructure(OwnerTrade, legs), TRUE)
    <3> HIDE DEF legs
    <3> QED BY <2>1, OpenedReplays, Zenon
  <2>3. s \in active_structures'
    BY <1>1, Zenon
  <2>4. structures'[s] = OpenedStructure(OwnerTrade, legs)
    BY <1>1, Zenon
  <2> HIDE DEF legs
  <2> QED BY <2>2, <2>3, <2>4, Zenon DEF Replays
<1>6. ASSUME NEW s \in Opened PROVE Replays(structures'[s], s \in active_structures')
  <2>1. Replays(structures[s], s \in active_structures)
    BY Zenon DEF ReplayInv
  <2>2. s \in active_structures' <=> s \in active_structures
    BY <1>1, Zenon
  <2> QED BY <1>1, <2>1, <2>2, Zenon DEF Replays
<1> QED BY <1>5, <1>6, Zenon DEF ReplayInv

LEMMA ReplayResizing ==
  ASSUME BookInv, ReplayInv, CommitStructure
  PROVE  ReplayInv'
<1> DEFINE a == CurrentAction
<1>1. /\ Opened' = Opened /\ a \in AnyAction
      /\ \A s \in Targets(Current) :
           /\ s \in active_structures /\ s \in Opened
           /\ structures[s] \in Structures /\ structures'[s] = Resized(a, structures[s])
      /\ \A s \in Opened : s \notin Targets(Current) => structures'[s] = structures[s]
      /\ FullyClosed \subseteq Targets(Current)
      /\ active_structures' = active_structures \ FullyClosed
  BY Resizing
<1>2. ASSUME NEW s \in Opened, s \notin Targets(Current)
      PROVE  Replays(structures'[s], s \in active_structures')
  <2>1. Replays(structures[s], s \in active_structures)
    BY Zenon DEF ReplayInv
  <2>2. s \in active_structures' <=> s \in active_structures
    BY <1>1, <1>2, Zenon
  <2> QED BY <1>1, <1>2, <2>1, <2>2, Zenon DEF Replays
<1>3. ASSUME NEW s \in Targets(Current)
      PROVE  Replays(structures'[s], s \in active_structures')
  <2> DEFINE st == structures[s]
             new == structures'[s]
  <2>1. /\ s \in Opened /\ s \in active_structures /\ st \in Structures /\ new = Resized(a, st)
        /\ DOMAIN new.legs = DOMAIN st.legs /\ TypeOK
    BY <1>1, ResizedType DEF BookInv
  <2>2. Replays(st, s \in active_structures)
    BY <2>1, Zenon DEF ReplayInv
  <2>3. ASSUME NEW i \in DOMAIN st.legs
        PROVE  s \in active_structures' <=> new.legs[i].size # 0
    <3>1. /\ new.legs[i].size = IF Adds(a) THEN st.legs[i].size + SizeChanges(a, st)[i]
                                ELSE st.legs[i].size - SizeChanges(a, st)[i]
          /\ st.legs[i].size \in Int
      <4>1. st.legs \in Content
        BY <2>1 DEF Structures
      <4> QED BY <1>1, <2>1, <2>2, <4>1, ResizedReplay, ContentFields
    <3>2. CASE Closes(a)
      <4>1. s \notin active_structures'
        BY <1>1, <1>3, <3>2, CloseEffect
      <4>2. SizeChanges(a, st)[i] = st.legs[i].size /\ ~Adds(a)
        BY <3>2 DEF SizeChanges, Closes, Adds
      <4> HIDE DEF st, new
      <4> QED BY <3>1, <4>1, <4>2
    <3>3. CASE ~Closes(a)
      <4>1. FullyClosed = {} /\ \E u \in active_structures : \E n \in Amounts, sign \in {-1, 1} :
              LET leg == structures[u].legs[1]
              IN  /\ Targets(Current) = {u} /\ Len(structures[u].legs) = 1
                  /\ leg \in Legs /\ leg.size > 0 /\ leg.size + sign * n > 0
                  /\ structures'[u].legs = <<[leg EXCEPT !.size = leg.size + sign * n]>>
        BY <3>3, PartialEffect
      <4>2. PICK n \in Amounts, sign \in {-1, 1} :
              LET leg == st.legs[1]
              IN  /\ Len(st.legs) = 1 /\ leg \in Legs /\ leg.size + sign * n > 0
                  /\ new.legs = <<[leg EXCEPT !.size = leg.size + sign * n]>>
        BY <1>3, <4>1
      <4>3. i = 1
        <5>1. st.legs \in Content
          BY <2>1 DEF Structures
        <5> QED BY <4>2, <5>1, ContentFields
      <4>4. new.legs[i].size > 0 /\ new.legs[i].size \in Int
        BY <4>2, <4>3, ContentAssumption DEF Legs
      <4>5. s \in active_structures'
        BY <1>1, <2>1, <4>1
      <4> HIDE DEF new
      <4> QED BY <4>4, <4>5
    <3> QED BY <3>2, <3>3
  <2>4. ASSUME NEW i \in DOMAIN st.legs
        PROVE  /\ \A e \in DOMAIN new.event_log : ChangeOf(new.event_log[e], i) \in Int
               /\ new.legs[i].size = ReplayedSize(new, i)
    BY <1>1, <2>1, <2>2, ResizedReplay
  <2> HIDE DEF st, new
  <2> QED BY <2>1, <2>3, <2>4, Zenon DEF Replays, new
<1> QED BY <1>1, <1>2, <1>3, Zenon DEF ReplayInv

LEMMA ReplayStep == BookInv /\ ReplayInv /\ [Next]_vars => ReplayInv'
<1> SUFFICES ASSUME BookInv, ReplayInv, [Next]_vars PROVE ReplayInv'
  OBVIOUS
<1>1. CASE UNCHANGED bookVars
  BY <1>1 DEF bookVars, ReplayInv, Opened
<1> QED BY <1>1, ReplayOpening, ReplayResizing, OtherSteps, Zenon

\* design_notes.md:254, for every program and content: the sizes of the legs
\* are what the events of their structure add up to, and a structure is active
\* as long as its legs have a size.
THEOREM EventsReplay == Spec => []EventLogReplays
<1>1. Init => ReplayInv
  BY DEF Init, ReplayInv, Opened
<1>2. BookInv /\ ReplayInv /\ [Next]_vars => ReplayInv'
  BY ReplayStep
<1>3. ReplayInv => EventLogReplays
  BY Zenon DEF ReplayInv, Replays, EventLogReplays
<1> QED BY <1>1, <1>2, <1>3, BookInvInit, BookInvStep, PTL DEF Spec
=============================================================================
