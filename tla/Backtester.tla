----------------------------- MODULE Backtester -----------------------------
(***************************************************************************)
(* The daily loop of backtester/backtest_engine.py: on every trading day   *)
(* mark to market, let the signal emit a patch of action groups against    *)
(* the T-1 book, log it, convert the whole patch, then dispatch group by   *)
(* group - execute against the live book, write the logs, commit - and     *)
(* take the snapshot tomorrow's signal reads.  An exception anywhere ends  *)
(* the run where it stands ("aborted").                                    *)
(*                                                                         *)
(* The signal is any program that emits actions the Action constructor     *)
(* accepts; the price feed is any choice, per day, of the tickers that     *)
(* have a close.  Prices themselves are in module LegAccounting.           *)
(*                                                                         *)
(* Ids: the n-th trade (structure) ever opened has id n, so the order of   *)
(* active_trades and of active_structures is the order of the ids.         *)
(***************************************************************************)
EXTENDS Execution

CONSTANTS
  Tickers,         \* instruments the content may name
  StructureSpecs,  \* content of one structure: non-empty sequences of legs
  TradeSpecs,      \* content of one trade: non-empty sequences of structures
  Amounts,         \* sizes of partial adds and partial unwinds
  NDays,           \* bound: trading days of the run
  MaxPatch,        \* bound: action groups the signal emits per day
  MaxActions,      \* bound: actions per group (the pipeline accepts one)
  MaxRuns          \* bound: calls of Backtester.run() on one object

ASSUME BoundsAssumption ==
  /\ NDays \in Nat \ {0}
  /\ MaxPatch \in Nat
  /\ MaxActions \in Nat \ {0}
  /\ MaxRuns \in Nat \ {0}

Legs == [ticker : Tickers, size : Int]

ASSUME ContentAssumption ==
  /\ StructureSpecs \subseteq Seq(Legs) \ {<<>>}
  /\ TradeSpecs \subseteq Seq(Seq(Legs) \ {<<>>}) \ {<<>>}
  /\ Amounts \subseteq Nat \ {0}

VARIABLES
  phase,             \* where the loop body stands
  raised,            \* the check that raised, once aborted
  day,               \* index of the loop day in trading_days
  runs,              \* calls of run() so far
  priced,            \* tickers with a close on the loop day
  portfolio_state,   \* the T-1 book the signal and the converter read
  action_group_log,  \* records [actions, date, finalized, outcomes]
  first,             \* index of the first record of the day's patch
  order_groups,      \* the patch's order groups, indexed like its records
  cursor,            \* index of the record being dispatched
  execution_log,     \* the set of execution records
  structures,        \* every structure ever opened
  active_structures, \* union of the active_structures lists of all trades
  trade_history,     \* every trade ever opened: [entry_date, exit_date]
  active_trades      \* the engine's active_trades list

loopVars == <<phase, raised, day, runs, priced>>
planVars == <<first, order_groups, cursor>>
logVars  == <<action_group_log, execution_log>>
bookVars == <<structures, active_structures, trade_history, active_trades>>
vars == <<loopVars, portfolio_state, planVars, logVars, bookVars>>

Days == 1..NDays
LiveBook ==
  [s \in active_structures |-> [trade_id |-> structures[s].trade_id,
                                legs     |-> structures[s].legs]]
-----------------------------------------------------------------------------
Init ==
  /\ phase = "mark" /\ raised = "nothing" /\ day = 1 /\ runs = 1 /\ priced = {}
  /\ portfolio_state = <<>>
  /\ action_group_log = <<>> /\ execution_log = {}
  /\ first = 1 /\ order_groups = <<>> /\ cursor = 1
  /\ structures = <<>> /\ active_structures = {}
  /\ trade_history = <<>> /\ active_trades = {}

Raise(what) == phase' = "aborted" /\ raised' = what

\* _compute_pnl_for_date, as far as availability goes: the day's closes exist
\* or not from here on.
MarkToMarket ==
  /\ phase = "mark"
  /\ priced' \in SUBSET Tickers
  /\ phase' = "emit"
  /\ UNCHANGED <<raised, day, runs, portfolio_state, planVars, logVars, bookVars>>

Actions == ActionMatrix(DOMAIN trade_history, DOMAIN structures, Amounts,
                        TradeSpecs, StructureSpecs)
Groups  == UNION {[1..n -> Actions] : n \in 1..MaxActions}
Patches == UNION {[1..n -> Groups] : n \in 0..MaxPatch}

\* append_many: the whole patch is on record before anything is checked.
Emit(patch) ==
  /\ phase = "emit"
  /\ action_group_log' = action_group_log \o
       [i \in DOMAIN patch |-> [actions |-> patch[i], date |-> day,
                                finalized |-> FALSE, outcomes |-> {}]]
  /\ first' = Len(action_group_log) + 1
  /\ phase' = "assemble"
  /\ UNCHANGED <<raised, day, runs, priced, portfolio_state, order_groups, cursor,
                 execution_log, bookVars>>

\* generate_action_groups, of any signal.
EmitPatch == phase = "emit" /\ \E patch \in Patches : Emit(patch)

\* generate_action_groups raises: nothing of the day is on record yet.
SignalRaises ==
  /\ phase = "emit"
  /\ Raise("signal")
  /\ UNCHANGED <<day, runs, priced, portfolio_state, planVars, logVars, bookVars>>

Patch == first..Len(action_group_log)
PatchConverts == \A i \in Patch : Convertible(action_group_log[i].actions, portfolio_state)
PatchOrders == [i \in Patch |-> OrdersOf(action_group_log[i].actions[1], portfolio_state)]

\* The structures an order group targets; content orders target none.
Targets(orders) == {orders[k].structure_id : k \in DOMAIN orders} \ {None}

\* Mutant of NoDuplicateTargets: no duplicate check.
NoDuplicateTargets_Off(groups) == TRUE

\* _validate_no_duplicate_structure_mods passes.
NoDuplicateTargets(groups) ==
  \A i, j \in DOMAIN groups : i # j => Targets(groups[i]) \cap Targets(groups[j]) = {}

\* Mutant of Assemble: the dispatch loop starts at the second record.
Assemble_SkipsFirst ==
  /\ phase = "assemble"
  /\ PatchConverts
  /\ NoDuplicateTargets(PatchOrders)
  /\ order_groups' = PatchOrders
  /\ cursor' = first + 1
  /\ phase' = "dispatch"
  /\ UNCHANGED <<raised, day, runs, priced, portfolio_state, first, logVars, bookVars>>

\* build_order_groups converts the whole patch and the duplicate check passes.
Assemble ==
  /\ phase = "assemble"
  /\ PatchConverts
  /\ NoDuplicateTargets(PatchOrders)
  /\ order_groups' = PatchOrders
  /\ cursor' = first
  /\ phase' = "dispatch"
  /\ UNCHANGED <<raised, day, runs, priced, portfolio_state, first, logVars, bookVars>>

\* The converter raises, or the duplicate check does.
ConversionRaises ==
  /\ phase = "assemble"
  /\ ~PatchConverts
  /\ Raise("conversion")
  /\ UNCHANGED <<day, runs, priced, portfolio_state, planVars, logVars, bookVars>>

DuplicateRaises ==
  /\ phase = "assemble"
  /\ PatchConverts
  /\ ~NoDuplicateTargets(PatchOrders)
  /\ Raise("duplicate")
  /\ UNCHANGED <<day, runs, priced, portfolio_state, planVars, logVars, bookVars>>
-----------------------------------------------------------------------------
(* Dispatch: execute, write the logs, finalize, then commit. *)

Current == order_groups[cursor]
CurrentAction == action_group_log[cursor].actions[1]

\* _dispatch_synthesized_order up to finalize: one execution record per order,
\* the record's facts, and the commit only when the whole group is filled.
Execute ==
  /\ phase = "dispatch"
  /\ cursor <= Len(action_group_log)
  /\ LET report(k) == Report(k, Current, LiveBook, priced)
         outcomes  == {report(k).outcome : k \in DOMAIN Current}
     IN  /\ execution_log' = execution_log \cup
              {[group |-> cursor, order |-> k, date |-> day, report |-> report(k)] :
                 k \in DOMAIN Current}
         /\ action_group_log' = [action_group_log EXCEPT
              ![cursor].finalized = TRUE, ![cursor].outcomes = outcomes]
         /\ IF "BLOCKED" \in outcomes
            THEN phase' = "dispatch" /\ cursor' = cursor + 1
            ELSE phase' = "commit" /\ cursor' = cursor
  /\ UNCHANGED <<raised, day, runs, priced, portfolio_state, first, order_groups,
                 bookVars>>

\* _assert_commit_preconditions raises on an order: its target is not live, or
\* a reducing leg is larger than the live leg it is matched with.
Trips(order) ==
  /\ order.structure_id # None
  /\ \/ ~TargetIsLive(order, LiveBook)
     \/ \E i \in DOMAIN order.legs :
          LET live == structures[order.structure_id].legs
              held == live[MatchLeg(live, order.legs[i].ticker)].size
              sold == order.legs[i].size
          IN  \/ held >= 0 /\ sold < -held
              \/ held < 0 /\ sold > -held

TripwireFires ==
  /\ phase = "commit"
  /\ \E k \in DOMAIN Current : Trips(Current[k])
  /\ Raise("tripwire")
  /\ UNCHANGED <<day, runs, priced, portfolio_state, planVars, logVars, bookVars>>

Untripped == \A k \in DOMAIN Current : ~Trips(Current[k])

\* The end of _commit_order_group: the next group, same day.
CommitDone ==
  /\ phase' = "dispatch"
  /\ cursor' = cursor + 1
  /\ UNCHANGED <<raised, day, runs, priced, portfolio_state, first, order_groups, logVars>>

\* StrategyStructure.open, on a structure built from a filled content order.
OpenedStructure(t, legs) ==
  [trade_id |-> t, legs |-> legs,
   event_log |-> <<[event_type |-> "open", date |-> day,
                    leg_size_changes |-> [i \in DOMAIN legs |-> legs[i].size]]>>]

NewStructures(t) ==
  /\ structures' = structures \o
       [k \in 1..Len(Current) |-> OpenedStructure(t, Current[k].legs)]
  /\ active_structures' = active_structures \cup
       (Len(structures) + 1)..(Len(structures) + Len(Current))

\* _commit_open
CommitOpen ==
  /\ phase = "commit" /\ Untripped /\ Opens(CurrentAction)
  /\ NewStructures(Len(trade_history) + 1)
  /\ trade_history' = Append(trade_history, [entry_date |-> day, exit_date |-> None])
  /\ active_trades' = active_trades \cup {Len(trade_history) + 1}
  /\ CommitDone

\* Mutant of TradeIsLive: looks in trade_history.
TradeIsLive_Ever(t) == t \in DOMAIN trade_history

\* _find_active_trade
TradeIsLive(t) == t \in active_trades

\* _commit_extend
CommitExtend ==
  /\ phase = "commit" /\ Untripped /\ Extends(CurrentAction)
  /\ TradeIsLive(CurrentAction.trade_id)
  /\ NewStructures(CurrentAction.trade_id)
  /\ UNCHANGED <<trade_history, active_trades>>
  /\ CommitDone

\* _commit_extend, when the trade has left the live book since T-1.
ExtendRaises ==
  /\ phase = "commit" /\ Untripped /\ Extends(CurrentAction)
  /\ ~TradeIsLive(CurrentAction.trade_id)
  /\ Raise("extend")
  /\ UNCHANGED <<day, runs, priced, portfolio_state, planVars, logVars, bookVars>>

\* The per-leg change an event records: add_size gives a single leg the whole
\* amount; unwind takes off current_size * fraction, which is the amount on the
\* only shape partial unwinds reach (one long leg) and everything when size is
\* None.  An unwind records what it took off, not a signed delta.
SizeChanges(a, st) ==
  [i \in DOMAIN st.legs |-> IF a.size = None THEN st.legs[i].size ELSE a.size]

\* Mutant of SignedSize: an unwind takes off the magnitude, whatever the side.
SignedSize_Magnitude(a, leg, change) ==
  IF Adds(a) THEN leg.size + change
  ELSE leg.size - (IF change < 0 THEN -change ELSE change)

\* The new size of a leg.
SignedSize(a, leg, change) == IF Adds(a) THEN leg.size + change ELSE leg.size - change

EventType(a, st) ==
  IF Adds(a) THEN "partial_add"
  ELSE IF a.size \in {None, Anchor(st)} THEN "full_close" ELSE "partial_unwind"

\* StrategyStructure.add_size and StrategyStructure.unwind.
Resized(a, st) ==
  LET change == SizeChanges(a, st)
  IN  [trade_id  |-> st.trade_id,
       legs      |-> [i \in DOMAIN st.legs |->
                        [ticker |-> st.legs[i].ticker,
                         size   |-> SignedSize(a, st.legs[i], change[i])]],
       event_log |-> Append(st.event_log,
                       [event_type |-> EventType(a, st), date |-> day,
                        leg_size_changes |-> change])]

\* unwind_structure drops a structure from the active ones on a full close, and
\* dates the trade's exit when none is left.
FullyClosed == {s \in DOMAIN Current : EventType(CurrentAction, structures[s]) = "full_close"}

\* Mutant of Exits: the first closed structure ends its trade.
Exits_TooEarly(left) == {structures[s].trade_id : s \in FullyClosed}

\* The trades a commit ends, given the structures it leaves active.
Exits(left) ==
  {t \in {structures[s].trade_id : s \in FullyClosed} :
     \A s \in left : structures[s].trade_id # t}

\* _commit_structure on every order of the group, then the active_trades filter
\* of _commit_order_group.
CommitStructure ==
  /\ phase = "commit" /\ Untripped /\ ~CreatesContent(CurrentAction)
  /\ LET left == active_structures \ FullyClosed
     IN  /\ structures' = [s \in DOMAIN structures |->
                             IF s \in DOMAIN Current
                             THEN Resized(CurrentAction, structures[s]) ELSE structures[s]]
         /\ active_structures' = left
         /\ trade_history' = [t \in DOMAIN trade_history |->
                                IF t \in Exits(left)
                                THEN [trade_history[t] EXCEPT !.exit_date = day]
                                ELSE trade_history[t]]
         /\ active_trades' = {t \in active_trades :
                                \E s \in left : structures[s].trade_id = t}
  /\ CommitDone

-----------------------------------------------------------------------------
\* Mutant of Snapshot: the T-1 book is not rebuilt.
Snapshot_Stale == portfolio_state

\* _build_portfolio_state: what tomorrow's signal and converter see.
Snapshot == LiveBook

\* Mutant of IsLastDay: one day too many.
IsLastDay_OffByOne(d) == d > NDays

\* The loop over trading_days ends.
IsLastDay(d) == d = NDays

\* The end of the loop body, after the last group.
EndDay ==
  /\ phase = "dispatch"
  /\ cursor > Len(action_group_log)
  /\ portfolio_state' = Snapshot
  /\ IF IsLastDay(day) THEN phase' = "done" /\ day' = day
                       ELSE phase' = "mark" /\ day' = day + 1
  /\ UNCHANGED <<raised, runs, priced, planVars, logVars, bookVars>>

\* run() called again on the same object, after it has returned or raised: the
\* logs and the snapshot are reset, the trades are not.
RunAgain ==
  /\ phase \in {"done", "aborted"}
  /\ runs < MaxRuns
  /\ runs' = runs + 1
  /\ phase' = "mark" /\ raised' = "nothing" /\ day' = 1
  /\ portfolio_state' = <<>>
  /\ action_group_log' = <<>> /\ execution_log' = {}
  /\ first' = 1 /\ order_groups' = <<>> /\ cursor' = 1
  /\ UNCHANGED <<priced, bookVars>>

\* The run has returned, or has raised.
Stopped ==
  /\ phase \in {"done", "aborted"}
  /\ UNCHANGED vars

Commit == \/ TripwireFires \/ CommitOpen \/ CommitExtend \/ ExtendRaises
          \/ CommitStructure
Step == \/ MarkToMarket \/ EmitPatch \/ SignalRaises
        \/ Assemble \/ ConversionRaises \/ DuplicateRaises
        \/ Execute \/ Commit \/ EndDay
Next == Step \/ RunAgain \/ Stopped

Spec == Init /\ [][Next]_vars
\* One thread: as long as the loop body has a next statement, it runs it.
FairSpec == Spec /\ WF_vars(Step)
=============================================================================
