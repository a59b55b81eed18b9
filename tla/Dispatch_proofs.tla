--------------------------- MODULE Dispatch_proofs ---------------------------
(***************************************************************************)
(* Proofs about the logs and the dispatch of a day's patch, for every      *)
(* value of the constants: a refused patch leaves no trace but its         *)
(* records, groups are decided in emission order, each once and all alike, *)
(* and an order is blocked for missing data only.                          *)
(***************************************************************************)
EXTENDS Backtester_proofs, FiniteSetTheorems

\* How far the records of action_group_log are decided, phase by phase.
Decided(i) ==
  \/ phase \in {"mark", "emit", "done"}
  \/ phase = "assemble" /\ i < first
  \/ phase = "dispatch" /\ i < cursor
  \/ phase = "commit" /\ i <= cursor
  \/ phase = "aborted" /\ raised \in {"conversion", "duplicate"} /\ i < first
  \/ phase = "aborted" /\ raised = "signal"
  \/ phase = "aborted" /\ raised \notin {"conversion", "duplicate", "signal"} /\ i <= cursor

DecidedInv ==
  \A i \in DOMAIN action_group_log : action_group_log[i].finalized <=> Decided(i)

\* The day's patch is what is dated today; until the signal has returned one,
\* nothing is.
RecordDates ==
  /\ phase \in {"mark", "emit"} \/ raised = "signal" =>
       \A i \in DOMAIN action_group_log : action_group_log[i].date < day
  /\ phase \in {"assemble", "dispatch", "commit", "aborted"} /\ raised # "signal" =>
       \A i \in DOMAIN action_group_log :
         /\ i < first => action_group_log[i].date < day
         /\ i >= first => action_group_log[i].date = day

\* Execution records are those of the decided groups, dated and decided alike.
ReportsInv ==
  \A r \in execution_log :
    /\ r.group \in DOMAIN action_group_log
    /\ action_group_log[r.group].finalized
    /\ r.date = action_group_log[r.group].date
    /\ r.report.outcome \in action_group_log[r.group].outcomes

OutcomesInv ==
  \A i \in DOMAIN action_group_log : action_group_log[i].finalized =>
    /\ \E o : action_group_log[i].outcomes = {o}
    /\ \E r \in execution_log : r.group = i
    /\ "BLOCKED" \in action_group_log[i].outcomes =>
         \E r \in execution_log : r.group = i /\ r.report.blocked_code = "DATA_MISSING"

RaisedInv == raised # "nothing" => phase = "aborted"

\* In the first run the T-1 book is the live one until a patch is dispatched.
SnapshotIsLive ==
  runs = 1 /\ \/ phase \in {"mark", "emit", "assemble"}
              \/ raised \in {"signal", "conversion", "duplicate"}
    => LiveBook = portfolio_state

DispatchInv ==
  /\ DecidedInv /\ RecordDates /\ ReportsInv /\ OutcomesInv /\ RaisedInv /\ SnapshotIsLive
  /\ BlockedOnlyForMissingData

LEMMA DispatchInit == Init => DispatchInv
<1> SUFFICES ASSUME Init PROVE DispatchInv
  OBVIOUS
<1>1. DOMAIN action_group_log = {} /\ execution_log = {} /\ LiveBook = portfolio_state
  BY DEF Init, LiveBook
<1>2. phase = "mark" /\ raised = "nothing"
  BY DEF Init
<1> QED BY <1>1, <1>2 DEF DispatchInv, DecidedInv, RecordDates, ReportsInv, OutcomesInv,
            RaisedInv, SnapshotIsLive, BlockedOnlyForMissingData

-----------------------------------------------------------------------------
(* Emission. *)

LEMMA EmittedLog ==
  ASSUME TypeOK, EmitPatch
  PROVE  /\ \A i \in DOMAIN action_group_log :
              i \in DOMAIN action_group_log' /\ action_group_log'[i] = action_group_log[i]
         /\ \A i \in DOMAIN action_group_log' : i \notin DOMAIN action_group_log =>
              /\ i > Len(action_group_log)
              /\ action_group_log'[i].date = day /\ ~action_group_log'[i].finalized
         /\ \A i \in DOMAIN action_group_log : i \in Nat /\ i <= Len(action_group_log)
         /\ Len(action_group_log) \in Nat
<1>1. PICK patch \in Patches : Emit(patch)
  BY DEF EmitPatch
<1> DEFINE new == [i \in DOMAIN patch |-> [actions |-> patch[i], date |-> day,
                                           finalized |-> FALSE, outcomes |-> {}]]
<1>2. new \in [1..Len(patch) -> Records] /\ Len(patch) \in Nat
  BY PatchType DEF Records, TypeOK
<1>3. new \in Seq(Records) /\ Len(new) = Len(patch)
  BY <1>2, FunctionIsSeq
<1>4. \A i \in 1..Len(new) : new[i].date = day /\ ~new[i].finalized
  BY <1>2, <1>3
<1>5. action_group_log' = action_group_log \o new /\ action_group_log \in Seq(Records)
  BY <1>1 DEF Emit, TypeOK
<1> HIDE DEF new
<1>6. /\ Len(action_group_log') = Len(action_group_log) + Len(new)
      /\ \A i \in 1..Len(action_group_log') :
           action_group_log'[i] = IF i <= Len(action_group_log) THEN action_group_log[i]
                                  ELSE new[i - Len(action_group_log)]
      /\ DOMAIN action_group_log' = 1..Len(action_group_log')
  <2> DEFINE both == action_group_log \o new
  <2>1. /\ both \in Seq(Records) /\ Len(both) = Len(action_group_log) + Len(new)
        /\ \A i \in 1..(Len(action_group_log) + Len(new)) :
             both[i] = IF i <= Len(action_group_log) THEN action_group_log[i]
                       ELSE new[i - Len(action_group_log)]
    BY <1>3, <1>5, ConcatProperties
  <2>2. DOMAIN both = 1..Len(both)
    <3> HIDE DEF both
    <3> QED BY <2>1
  <2>3. action_group_log' = both
    BY <1>5
  <2> HIDE DEF both
  <2> QED BY <2>1, <2>2, <2>3
<1>7. /\ DOMAIN action_group_log = 1..Len(action_group_log) /\ Len(action_group_log) \in Nat
      /\ DOMAIN action_group_log' = 1..Len(action_group_log') /\ Len(new) \in Nat
  BY <1>3, <1>5, <1>6
<1>8. ASSUME NEW i \in DOMAIN action_group_log', i \notin DOMAIN action_group_log
      PROVE  /\ i > Len(action_group_log) /\ i - Len(action_group_log) \in 1..Len(new)
             /\ action_group_log'[i] = new[i - Len(action_group_log)]
  BY <1>6, <1>7, <1>8
<1> QED BY <1>4, <1>6, <1>7, <1>8

LEMMA DispatchEmit ==
  ASSUME BookInv, DispatchInv, EmitPatch
  PROVE  DispatchInv'
<1>1. /\ phase = "emit" /\ phase' = "assemble" /\ raised' = raised /\ runs' = runs /\ day' = day
      /\ first' = Len(action_group_log) + 1 /\ execution_log' = execution_log
      /\ portfolio_state' = portfolio_state /\ UNCHANGED bookVars /\ TypeOK
      /\ raised = "nothing"
  BY DEF EmitPatch, Emit, BookInv, DispatchInv, RaisedInv
<1> DEFINE old == DOMAIN action_group_log
<1>2. /\ \A i \in old : i \in DOMAIN action_group_log' /\ action_group_log'[i] = action_group_log[i]
      /\ \A i \in DOMAIN action_group_log' : i \notin old =>
           i >= first' /\ action_group_log'[i].date = day /\ ~action_group_log'[i].finalized
      /\ \A i \in old : i < first' /\ i \in Nat
      /\ \A i \in DOMAIN action_group_log' : i \in Nat
      /\ first' \in Nat
  <2>1. action_group_log' \in Seq(Records)
    BY <1>1, EmitType DEF TypeOK
  <2> QED BY <1>1, <2>1, EmittedLog
<1>3. \A i \in old : action_group_log[i].finalized /\ action_group_log[i].date < day
  BY <1>1 DEF DispatchInv, DecidedInv, Decided, RecordDates
<1>4. DecidedInv' /\ RecordDates' /\ ReportsInv' /\ OutcomesInv'
  <2>1. DecidedInv'
    BY <1>1, <1>2, <1>3 DEF DecidedInv, Decided
  <2>2. RecordDates'
    BY <1>1, <1>2, <1>3 DEF RecordDates
  <2>3. ReportsInv'
    BY <1>1, <1>2, <1>3 DEF DispatchInv, ReportsInv
  <2>4. OutcomesInv'
    <3> SUFFICES ASSUME NEW i \in DOMAIN action_group_log', action_group_log'[i].finalized
                 PROVE  /\ \E o : action_group_log'[i].outcomes = {o}
                        /\ \E r \in execution_log : r.group = i
                        /\ "BLOCKED" \in action_group_log'[i].outcomes =>
                             \E r \in execution_log :
                               r.group = i /\ r.report.blocked_code = "DATA_MISSING"
      BY <1>1 DEF OutcomesInv
    <3>1. i \in old /\ action_group_log'[i] = action_group_log[i]
      BY <1>2
    <3> QED BY <1>3, <3>1 DEF DispatchInv, OutcomesInv
  <2> QED BY <2>1, <2>2, <2>3, <2>4
<1>5. RaisedInv' /\ SnapshotIsLive' /\ BlockedOnlyForMissingData'
  BY <1>1, UnchangedBook DEF DispatchInv, RaisedInv, SnapshotIsLive, BlockedOnlyForMissingData
<1> QED BY <1>4, <1>5 DEF DispatchInv

-----------------------------------------------------------------------------
(* Execution. *)

\* Every group has an order.
LEMMA GroupHasOrders ==
  ASSUME BookInv, phase \in {"dispatch", "commit"}, cursor <= Len(action_group_log)
  PROVE  DOMAIN Current # {}
<1>1. /\ CurrentAction \in AnyAction /\ cursor \in Patch
      /\ ConvertibleAction(CurrentAction, portfolio_state)
      /\ CreatesContent(CurrentAction) => DOMAIN Current = 1..Len(Current)
      /\ ~CreatesContent(CurrentAction) =>
           DOMAIN Current = Addressed(CurrentAction, portfolio_state)
  BY CurrentGroup DEF BookInv
<1>2. CASE CreatesContent(CurrentAction)
  <2>1. CurrentAction.spec \in Seq(Content) \ {<<>>}
    BY <1>1, <1>2, ActionFields
  <2>2. 1 \in DOMAIN CurrentAction.spec
    BY <2>1
  <2>3. Current = [k \in DOMAIN CurrentAction.spec |->
                     [structure_id |-> None, trade_id |-> CurrentAction.trade_id,
                      legs |-> CurrentAction.spec[k]]]
    BY <1>1, <1>2 DEF BookInv, PlanIsThePatch, PatchOrders, Current, CurrentAction, OrdersOf
  <2> QED BY <2>2, <2>3
<1>3. CASE ~CreatesContent(CurrentAction)
  <2>1. CASE Closes(CurrentAction)
    BY <1>1, <1>3, <2>1 DEF ConvertibleAction, Closes, Adds, Reduces
  <2>2. CASE Adds(CurrentAction) \/ Reduces(CurrentAction)
    <3>1. CurrentAction.structure_id \in DOMAIN portfolio_state
      BY <1>1, <1>3, <2>2 DEF ConvertibleAction, Addresses, Closes, Adds, Reduces
    <3>2. CurrentAction.structure_id # None
      BY <3>1 DEF BookInv, TypeOK, Opened, None
    <3> QED BY <1>1, <1>3, <3>2 DEF Addressed
  <2> QED BY <1>1, <1>3, <2>1, <2>2, ActionFields
<1> QED BY <1>2, <1>3

\* The targets of the group at the cursor are there: nothing the earlier groups
\* of the day did can make the probe miss one.
LEMMA TargetsAreLive ==
  ASSUME BookInv, phase \in {"dispatch", "commit"}, cursor <= Len(action_group_log),
         NEW k \in DOMAIN Current
  PROVE  Current[k].structure_id # None => TargetIsLive(Current[k], LiveBook)
<1>1. CASE CreatesContent(CurrentAction)
  BY <1>1, CurrentGroup DEF BookInv
<1>2. CASE ~CreatesContent(CurrentAction)
  <2> DEFINE legs == structures[k].legs
             D == DeltaLegs(CurrentAction, structures[k])
  <2>1. /\ k \in active_structures
        /\ Current[k] = [structure_id |-> k, trade_id |-> structures[k].trade_id,
                         legs |-> DeltaLegs(CurrentAction, structures[k])]
    BY <1>2, CurrentGroup DEF BookInv
  <2>2. \A i \in DOMAIN D : i \in DOMAIN legs /\ D[i].ticker = legs[i].ticker
    BY DEF DeltaLegs
  <2> HIDE DEF legs, D
  <2>3. \A i \in DOMAIN D : HasTicker(legs, D[i].ticker)
    BY <2>2 DEF HasTicker
  <2>4. /\ k \in DOMAIN LiveBook /\ LiveBook[k].legs = legs
        /\ LiveBook[k].trade_id = structures[k].trade_id
    BY <2>1 DEF LiveBook, legs
  <2>5. /\ Current[k].structure_id = k /\ Current[k].legs = D
        /\ Current[k].trade_id = structures[k].trade_id
    BY <2>1 DEF D
  <2> QED BY <2>3, <2>4, <2>5, Zenon DEF TargetIsLive
<1> QED BY <1>1, <1>2

Outcome == IF AllAvailable(Current, LiveBook, priced) THEN "FILLED" ELSE "BLOCKED"

\* The record of an executed group is the only one that changes.
LEMMA ExecutedLog ==
  ASSUME BookInv, Execute
  PROVE  /\ cursor \in DOMAIN action_group_log /\ DOMAIN action_group_log \subseteq Nat
         /\ DOMAIN action_group_log' = DOMAIN action_group_log
         /\ \A i \in DOMAIN action_group_log :
              /\ action_group_log'[i].date = action_group_log[i].date
              /\ i # cursor => action_group_log'[i] = action_group_log[i]
         /\ action_group_log'[cursor].finalized
         /\ action_group_log'[cursor].outcomes = {Outcome}
         /\ IF Outcome = "BLOCKED" THEN phase' = "dispatch" /\ cursor' = cursor + 1
                                   ELSE phase' = "commit" /\ cursor' = cursor
<1> DEFINE O == {Report(k, Current, LiveBook, priced).outcome : k \in DOMAIN Current}
<1>1. /\ action_group_log \in Seq(Records) /\ cursor \in DOMAIN action_group_log
      /\ DOMAIN action_group_log \subseteq Nat /\ action_group_log[cursor] \in Records
  BY DEF Execute, BookInv, TypeOK
<1>2. O = {Outcome}
  <2>1. DOMAIN Current # {}
    BY GroupHasOrders DEF Execute
  <2>2. \A k \in DOMAIN Current : Report(k, Current, LiveBook, priced).outcome = Outcome
    BY DEF Report, Outcome
  <2> QED BY <2>1, <2>2
<1>3. /\ action_group_log' = [action_group_log EXCEPT
           ![cursor].finalized = TRUE, ![cursor].outcomes = O]
      /\ IF "BLOCKED" \in O THEN phase' = "dispatch" /\ cursor' = cursor + 1
                            ELSE phase' = "commit" /\ cursor' = cursor
  BY DEF Execute
<1> HIDE DEF O
<1>4. /\ DOMAIN action_group_log' = DOMAIN action_group_log
      /\ \A i \in DOMAIN action_group_log :
           action_group_log'[i] = IF i = cursor
             THEN [action_group_log[cursor] EXCEPT !.finalized = TRUE, !.outcomes = O]
             ELSE action_group_log[i]
  BY <1>1, <1>3
<1>5. /\ action_group_log'[cursor].date = action_group_log[cursor].date
      /\ action_group_log'[cursor].finalized /\ action_group_log'[cursor].outcomes = O
  BY <1>1, <1>4 DEF Records
<1> QED BY <1>1, <1>2, <1>3, <1>4, <1>5

\* What execution appends.
LEMMA ExecutedReports ==
  ASSUME BookInv, Execute
  PROVE  /\ execution_log \subseteq execution_log'
         /\ \A r \in execution_log' : r \notin execution_log =>
              /\ r.group = cursor /\ r.date = day /\ r.report.outcome = Outcome
              /\ r.report.blocked_code = "DATA_MISSING" =>
                   ~Priced(Current[r.order], priced)
         /\ \E r \in execution_log' : r.group = cursor
         /\ Outcome = "BLOCKED" =>
              \E r \in execution_log' :
                r.group = cursor /\ r.report.blocked_code = "DATA_MISSING"
<1> DEFINE report(k) == Report(k, Current, LiveBook, priced)
           row(k) == [group |-> cursor, order |-> k, date |-> day, report |-> report(k)]
<1>1. execution_log' = execution_log \cup {row(k) : k \in DOMAIN Current}
  BY DEF Execute
<1>2. DOMAIN Current # {}
  BY GroupHasOrders DEF Execute
<1>3. \A k \in DOMAIN Current :
        /\ report(k).outcome = Outcome
        /\ report(k).blocked_code = "DATA_MISSING" => ~Priced(Current[k], priced)
  <2> TAKE k \in DOMAIN Current
  <2>1. Current[k].structure_id # None => TargetIsLive(Current[k], LiveBook)
    BY TargetsAreLive DEF Execute
  <2>2. report(k).blocked_code = "DATA_MISSING" => ~Available(Current[k], LiveBook, priced)
    BY DEF Report
  <2>3. report(k).outcome = Outcome
    BY DEF Report, Outcome
  <2> QED BY <2>1, <2>2, <2>3 DEF Available
<1>4. Outcome = "BLOCKED" => \E k \in DOMAIN Current : report(k).blocked_code = "DATA_MISSING"
  <2> SUFFICES ASSUME Outcome = "BLOCKED"
               PROVE  \E k \in DOMAIN Current : report(k).blocked_code = "DATA_MISSING"
    OBVIOUS
  <2>1. ~AllAvailable(Current, LiveBook, priced)
    BY DEF Outcome
  <2>2. PICK k \in DOMAIN Current : ~Available(Current[k], LiveBook, priced)
    BY <2>1 DEF AllAvailable
  <2>3. report(k).blocked_code = "DATA_MISSING"
    BY <2>1, <2>2 DEF Report
  <2> QED BY <2>3
<1>5. \A k \in DOMAIN Current : /\ row(k).group = cursor /\ row(k).order = k
                                /\ row(k).date = day /\ row(k).report = report(k)
  OBVIOUS
<1> HIDE DEF report, row
<1>6. \A r \in execution_log' : r \notin execution_log => \E k \in DOMAIN Current : r = row(k)
  BY <1>1
<1>7. \A k \in DOMAIN Current : row(k) \in execution_log'
  BY <1>1
<1> QED BY <1>1, <1>2, <1>3, <1>4, <1>5, <1>6, <1>7

LEMMA DispatchExecute ==
  ASSUME BookInv, DispatchInv, Execute
  PROVE  DispatchInv'
<1>1. /\ phase = "dispatch" /\ phase' \in {"dispatch", "commit"} /\ raised' = raised
      /\ day' = day /\ priced' = priced /\ order_groups' = order_groups /\ first' = first
      /\ cursor \in Nat /\ first \in Nat /\ cursor >= first /\ Current = order_groups[cursor]
  BY DEF Execute, BookInv, TypeOK, PlanIsThePatch, Current
<1>2. raised = "nothing"
  BY <1>1 DEF DispatchInv, RaisedInv
<1>3. action_group_log[cursor].date = day /\ ~action_group_log[cursor].finalized
  BY <1>1, <1>2, ExecutedLog DEF DispatchInv, RecordDates, DecidedInv, Decided
<1>4. \A r \in execution_log : r.group # cursor
  BY <1>3 DEF DispatchInv, ReportsInv
<1>5. DecidedInv'
  <2> SUFFICES ASSUME NEW i \in DOMAIN action_group_log
               PROVE  action_group_log'[i].finalized <=> Decided(i)'
    BY ExecutedLog DEF DecidedInv
  <2>1. Decided(i)' <=> i <= cursor
    BY <1>1, ExecutedLog DEF Decided
  <2>2. CASE i = cursor
    BY <1>1, <2>1, <2>2, ExecutedLog
  <2>3. CASE i # cursor
    <3>1. action_group_log[i].finalized <=> i < cursor
      BY <1>1 DEF DispatchInv, DecidedInv, Decided
    <3> QED BY <1>1, <2>1, <2>3, <3>1, ExecutedLog
  <2> QED BY <2>2, <2>3
<1>6. RecordDates'
  BY <1>1, ExecutedLog DEF DispatchInv, RecordDates
<1>7. ReportsInv'
  <2> SUFFICES ASSUME NEW r \in execution_log'
               PROVE  /\ r.group \in DOMAIN action_group_log
                      /\ action_group_log'[r.group].finalized
                      /\ r.date = action_group_log'[r.group].date
                      /\ r.report.outcome \in action_group_log'[r.group].outcomes
    BY ExecutedLog DEF ReportsInv
  <2>1. CASE r \in execution_log
    BY <1>4, <2>1, ExecutedLog DEF DispatchInv, ReportsInv
  <2>2. CASE r \notin execution_log
    BY <1>3, <2>2, ExecutedLog, ExecutedReports
  <2> QED BY <2>1, <2>2
<1>8. OutcomesInv'
  <2> SUFFICES ASSUME NEW i \in DOMAIN action_group_log, action_group_log'[i].finalized
               PROVE  /\ \E o : action_group_log'[i].outcomes = {o}
                      /\ \E r \in execution_log' : r.group = i
                      /\ "BLOCKED" \in action_group_log'[i].outcomes =>
                           \E r \in execution_log' :
                             r.group = i /\ r.report.blocked_code = "DATA_MISSING"
    BY ExecutedLog DEF OutcomesInv
  <2>1. CASE i = cursor
    BY <2>1, ExecutedLog, ExecutedReports
  <2>2. CASE i # cursor
    BY <2>2, ExecutedLog, ExecutedReports DEF DispatchInv, OutcomesInv
  <2> QED BY <2>1, <2>2
<1>9. RaisedInv' /\ SnapshotIsLive'
  BY <1>1, <1>2 DEF RaisedInv, SnapshotIsLive
<1>10. BlockedOnlyForMissingData'
  <2> SUFFICES ASSUME NEW r \in execution_log', r.date = day,
                      r.report.blocked_code = "DATA_MISSING"
               PROVE  ~Priced(order_groups[r.group][r.order], priced)
    BY <1>1 DEF BlockedOnlyForMissingData
  <2>1. CASE r \in execution_log
    BY <1>1, <2>1 DEF DispatchInv, BlockedOnlyForMissingData
  <2>2. CASE r \notin execution_log
    BY <1>1, <2>2, ExecutedReports
  <2> QED BY <2>1, <2>2
<1> QED BY <1>5, <1>6, <1>7, <1>8, <1>9, <1>10 DEF DispatchInv

-----------------------------------------------------------------------------
(* The steps that write no record. *)

LEMMA DispatchAssemble ==
  ASSUME BookInv, DispatchInv, Assemble
  PROVE  DispatchInv'
<1>1. /\ phase = "assemble" /\ phase' = "dispatch" /\ raised' = raised /\ day' = day
      /\ first' = first /\ cursor' = first /\ UNCHANGED logVars
  BY DEF Assemble
<1>2. action_group_log' = action_group_log /\ execution_log' = execution_log
  BY <1>1 DEF logVars
<1>3. raised = "nothing"
  BY <1>1 DEF DispatchInv, RaisedInv
<1>4. \A r \in execution_log : r.date # day
  <2> TAKE r \in execution_log
  <2>1. r.group < first /\ r.group \in DOMAIN action_group_log
    BY <1>1 DEF DispatchInv, ReportsInv, DecidedInv, Decided
  <2>2. r.date < day /\ day \in Int
    BY <1>1, <2>1 DEF DispatchInv, ReportsInv, RecordDates, BookInv, TypeOK, Days
  <2> QED BY <2>2
<1> QED BY <1>1, <1>2, <1>3, <1>4
    DEF DispatchInv, DecidedInv, Decided, RecordDates, ReportsInv, OutcomesInv, RaisedInv,
        SnapshotIsLive, BlockedOnlyForMissingData

LEMMA DispatchNoSignal ==
  ASSUME BookInv, DispatchInv, SignalRaises
  PROVE  DispatchInv'
<1>1. /\ phase = "emit" /\ phase' = "aborted" /\ raised' = "signal"
      /\ day' = day /\ runs' = runs /\ portfolio_state' = portfolio_state
      /\ action_group_log' = action_group_log /\ execution_log' = execution_log
      /\ UNCHANGED bookVars
  BY DEF SignalRaises, Raise, logVars
<1> QED BY <1>1, UnchangedBook
    DEF DispatchInv, DecidedInv, Decided, RecordDates, ReportsInv, OutcomesInv, RaisedInv,
        SnapshotIsLive, BlockedOnlyForMissingData

LEMMA DispatchRefused ==
  ASSUME BookInv, DispatchInv, ConversionRaises \/ DuplicateRaises
  PROVE  DispatchInv'
<1>1. /\ phase = "assemble" /\ phase' = "aborted" /\ raised' \in {"conversion", "duplicate"}
      /\ day' = day /\ first' = first /\ runs' = runs /\ portfolio_state' = portfolio_state
      /\ action_group_log' = action_group_log /\ execution_log' = execution_log
      /\ UNCHANGED bookVars
  BY DEF ConversionRaises, DuplicateRaises, Raise, planVars, logVars
<1> QED BY <1>1, UnchangedBook
    DEF DispatchInv, DecidedInv, Decided, RecordDates, ReportsInv, OutcomesInv, RaisedInv,
        SnapshotIsLive, BlockedOnlyForMissingData

LEMMA DispatchCommit ==
  ASSUME BookInv, DispatchInv, Commit
  PROVE  DispatchInv'
<1>0. cursor \in Nat /\ DOMAIN action_group_log \subseteq Nat
  BY DEF BookInv, TypeOK
<1>1. /\ phase = "commit" /\ day' = day /\ first' = first /\ priced' = priced
      /\ order_groups' = order_groups
      /\ action_group_log' = action_group_log /\ execution_log' = execution_log
      /\ \/ phase' = "dispatch" /\ cursor' = cursor + 1 /\ raised' = raised
         \/ phase' = "aborted" /\ cursor' = cursor /\ raised' \in {"tripwire", "extend"}
  BY DEF Commit, TripwireFires, ExtendRaises, CommitOpen, CommitExtend, CommitStructure,
         CommitDone, Raise, planVars, logVars
<1>2. raised = "nothing"
  BY <1>1 DEF DispatchInv, RaisedInv
<1>3. DecidedInv'
  <2>1. \A i \in DOMAIN action_group_log : Decided(i)' <=> i <= cursor
    BY <1>0, <1>1, <1>2 DEF Decided
  <2> QED BY <1>1, <2>1 DEF DispatchInv, DecidedInv, Decided
<1> QED BY <1>1, <1>2, <1>3
    DEF DispatchInv, RecordDates, ReportsInv, OutcomesInv, RaisedInv,
        SnapshotIsLive, BlockedOnlyForMissingData

LEMMA DispatchEndDay ==
  ASSUME BookInv, DispatchInv, EndDay
  PROVE  DispatchInv'
<1>0. /\ day \in Int /\ first \in Nat /\ cursor \in Nat
      /\ DOMAIN action_group_log = 1..Len(action_group_log) /\ Len(action_group_log) \in Nat
  BY DEF BookInv, TypeOK, Days
<1>1. /\ phase = "dispatch" /\ cursor > Len(action_group_log) /\ portfolio_state' = LiveBook
      /\ raised' = raised /\ UNCHANGED bookVars
      /\ action_group_log' = action_group_log /\ execution_log' = execution_log
      /\ phase' = "done" \/ (phase' = "mark" /\ day' = day + 1)
  BY DEF EndDay, Snapshot, logVars
<1>2. raised = "nothing"
  BY <1>1 DEF DispatchInv, RaisedInv
<1>3. \A i \in DOMAIN action_group_log : action_group_log[i].finalized
  BY <1>0, <1>1 DEF DispatchInv, DecidedInv, Decided
<1>4. DecidedInv'
  BY <1>1, <1>3 DEF DecidedInv, Decided
<1>5. RecordDates'
  <2>1. \A i \in DOMAIN action_group_log : action_group_log[i].date < day + 1
    <3>1. \A i \in DOMAIN action_group_log :
            \/ i < first /\ action_group_log[i].date < day
            \/ action_group_log[i].date = day
      BY <1>0, <1>1, <1>2 DEF DispatchInv, RecordDates
    <3>2. \A i \in DOMAIN action_group_log : action_group_log[i].date \in Int
      <4>1. action_group_log \in Seq(Records)
        BY DEF BookInv, TypeOK
      <4>2. \A i \in DOMAIN action_group_log : action_group_log[i] \in Records
        BY <4>1
      <4>3. \A record \in Records : record.date \in Int
        BY DEF Records, Days
      <4> QED BY <4>2, <4>3
    <3> QED BY <1>0, <3>1, <3>2
  <2> QED BY <1>1, <1>2, <2>1 DEF RecordDates
<1> QED BY <1>1, <1>2, <1>4, <1>5, UnchangedBook
    DEF DispatchInv, ReportsInv, OutcomesInv, RaisedInv, SnapshotIsLive, BlockedOnlyForMissingData

LEMMA DispatchStep == BookInv /\ DispatchInv /\ [Next]_vars => DispatchInv'
<1> SUFFICES ASSUME BookInv, DispatchInv, [Next]_vars PROVE DispatchInv'
  OBVIOUS
<1>1. CASE MarkToMarket
  <2>1. /\ phase = "mark" /\ phase' = "emit" /\ raised' = raised /\ day' = day /\ runs' = runs
        /\ portfolio_state' = portfolio_state /\ UNCHANGED bookVars
        /\ action_group_log' = action_group_log /\ execution_log' = execution_log
    BY <1>1 DEF MarkToMarket, logVars
  <2> QED BY <2>1, UnchangedBook
      DEF DispatchInv, DecidedInv, Decided, RecordDates, ReportsInv, OutcomesInv, RaisedInv,
          SnapshotIsLive, BlockedOnlyForMissingData
<1>2. CASE RunAgain
  <2>1. /\ phase' = "mark" /\ raised' = "nothing" /\ action_group_log' = <<>>
        /\ execution_log' = {} /\ runs' # 1
    BY <1>2 DEF RunAgain, BookInv, TypeOK
  <2> QED BY <2>1
      DEF DispatchInv, DecidedInv, RecordDates, ReportsInv, OutcomesInv, RaisedInv,
          SnapshotIsLive, BlockedOnlyForMissingData
<1>3. CASE Stopped \/ UNCHANGED vars
  <2>1. /\ UNCHANGED <<phase, raised, day, runs, priced, portfolio_state, first, order_groups,
                       cursor, action_group_log, execution_log>>
        /\ UNCHANGED bookVars
    BY <1>3 DEF Stopped, vars, loopVars, planVars, logVars
  <2> QED BY <2>1, UnchangedBook
      DEF DispatchInv, DecidedInv, Decided, RecordDates, ReportsInv, OutcomesInv, RaisedInv,
          SnapshotIsLive, BlockedOnlyForMissingData
<1> QED BY <1>1, <1>2, <1>3, DispatchEmit, DispatchNoSignal, DispatchAssemble, DispatchRefused, DispatchExecute,
           DispatchCommit, DispatchEndDay DEF Next, Step

-----------------------------------------------------------------------------
(* Theorems. *)

\* A patch the converter, the multi-action gate or the duplicate check refuses
\* has executed and finalized nothing, a signal that raises leaves nothing of its
\* day on record, and in a first run the live book is the T-1 book.
THEOREM RefusedPatch == Spec => []RefusedPatchHasNoEffect
<1>1. BookInv /\ DispatchInv => RefusedPatchHasNoEffect
  <2> SUFFICES ASSUME BookInv, DispatchInv, raised \in {"signal", "conversion", "duplicate"}
               PROVE  /\ \A r \in execution_log : r.date # day
                      /\ \A i \in DOMAIN action_group_log : action_group_log[i].date = day =>
                           raised # "signal" /\ ~action_group_log[i].finalized
                      /\ runs = 1 => LiveBook = portfolio_state
    BY DEF RefusedPatchHasNoEffect
  <2>1. /\ phase = "aborted" /\ day \in Int /\ first \in Nat
        /\ \A i \in DOMAIN action_group_log : i \in Int
    BY DEF DispatchInv, RaisedInv, BookInv, TypeOK, Days
  <2>2. \A i \in DOMAIN action_group_log : action_group_log[i].finalized =>
          action_group_log[i].date < day
    BY <2>1 DEF DispatchInv, DecidedInv, Decided, RecordDates
  <2>3. \A r \in execution_log : r.date < day
    BY <2>1, <2>2 DEF DispatchInv, ReportsInv
  <2>4. \A r \in execution_log : r.date # day
    BY <2>1, <2>3
  <2>5. \A i \in DOMAIN action_group_log : action_group_log[i].date = day =>
          raised # "signal" /\ ~action_group_log[i].finalized
    BY <2>1, <2>2 DEF DispatchInv, RecordDates
  <2>6. runs = 1 => LiveBook = portfolio_state
    BY DEF DispatchInv, SnapshotIsLive
  <2> QED BY <2>4, <2>5, <2>6
<1> QED BY <1>1, BookInvInit, BookInvStep, DispatchInit, DispatchStep, PTL DEF Spec

\* The finalized records are a prefix of the log, each decided once, with one
\* outcome for all its orders, and a blocked group names what it missed.
THEOREM DecidedInOrder == Spec => []GroupsAreDecidedInOrder
<1>1. BookInv /\ DispatchInv => GroupsAreDecidedInOrder
  <2> SUFFICES ASSUME BookInv, DispatchInv, NEW i \in DOMAIN action_group_log
               PROVE  LET record  == action_group_log[i]
                          reports == {r \in execution_log : r.group = i}
                      IN  /\ record.finalized <=> reports # {}
                          /\ record.finalized =>
                               /\ \A j \in 1..i : action_group_log[j].finalized
                               /\ Cardinality(record.outcomes) = 1
                               /\ \A r \in reports : /\ r.report.outcome \in record.outcomes
                                                     /\ r.date = record.date
                               /\ "BLOCKED" \in record.outcomes =>
                                    \E r \in reports : r.report.blocked_code = "DATA_MISSING"
                          /\ phase = "done" => record.finalized
    BY DEF GroupsAreDecidedInOrder
  <2> DEFINE record  == action_group_log[i]
             reports == {r \in execution_log : r.group = i}
  <2>1. record.finalized <=> reports # {}
    BY DEF DispatchInv, ReportsInv, OutcomesInv
  <2>2. record.finalized => \A j \in 1..i : action_group_log[j].finalized
    <3> SUFFICES ASSUME record.finalized, NEW j \in 1..i PROVE action_group_log[j].finalized
      OBVIOUS
    <3>1. /\ i \in Nat /\ j \in Nat /\ j <= i /\ j \in DOMAIN action_group_log
          /\ cursor \in Nat /\ first \in Nat
      BY DEF BookInv, TypeOK
    <3>2. Decided(i)
      BY DEF DispatchInv, DecidedInv
    <3>3. Decided(j)
      BY <3>1, <3>2 DEF Decided
    <3> QED BY <3>1, <3>3 DEF DispatchInv, DecidedInv
  <2>3. record.finalized => Cardinality(record.outcomes) = 1
    <3>1. record.finalized => \E o : record.outcomes = {o}
      BY DEF DispatchInv, OutcomesInv
    <3> QED BY <3>1, FS_Singleton
  <2>4. \A r \in reports : r.report.outcome \in record.outcomes /\ r.date = record.date
    BY DEF DispatchInv, ReportsInv
  <2>5. record.finalized /\ "BLOCKED" \in record.outcomes =>
          \E r \in reports : r.report.blocked_code = "DATA_MISSING"
    BY DEF DispatchInv, OutcomesInv
  <2>6. phase = "done" => record.finalized
    BY DEF DispatchInv, DecidedInv, Decided
  <2> QED BY <2>1, <2>2, <2>3, <2>4, <2>5, <2>6
<1> QED BY <1>1, BookInvInit, BookInvStep, DispatchInit, DispatchStep, PTL DEF Spec

\* DATA_MISSING is about the day's closes, never about a target the earlier
\* groups of the day consumed.
THEOREM BlockedForData == Spec => []BlockedOnlyForMissingData
<1>1. DispatchInv => BlockedOnlyForMissingData
  BY DEF DispatchInv
<1> QED BY <1>1, BookInvInit, BookInvStep, DispatchInit, DispatchStep, PTL DEF Spec
=============================================================================
