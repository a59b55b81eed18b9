------------------------ MODULE BacktesterProperties ------------------------
(***************************************************************************)
(* What the daily loop of module Backtester must guarantee.                *)
(***************************************************************************)
EXTENDS Backtester, FiniteSetsExt

Phases  == {"mark", "emit", "assemble", "dispatch", "commit", "done", "aborted"}
Reasons == {"nothing", "signal", "conversion", "duplicate", "tripwire", "extend"}
Outcomes == {"FILLED", "BLOCKED"}
Opened == 1..Len(structures)

Content == Seq(Legs) \ {<<>>}
Events ==
  [event_type : {"open", "partial_add", "partial_unwind", "full_close"},
   date : Days, leg_size_changes : Seq(Int)]
Structures == [trade_id : Nat \ {0}, legs : Content, event_log : Seq(Events)]
BookRows == [trade_id : Nat \ {0}, legs : Content]
AnyAction == ActionMatrix(Nat \ {0}, Nat \ {0}, Amounts, TradeSpecs, StructureSpecs)
Records ==
  [actions : Seq(AnyAction) \ {<<>>}, date : Days, finalized : BOOLEAN,
   outcomes : SUBSET Outcomes]

\* Type invariant of the loop's state.
TypeOK ==
  /\ phase \in Phases /\ raised \in Reasons
  /\ day \in Days /\ runs \in 1..MaxRuns /\ priced \in SUBSET Tickers
  /\ DOMAIN portfolio_state \subseteq Opened
  /\ portfolio_state \in [DOMAIN portfolio_state -> BookRows]
  /\ action_group_log \in Seq(Records)
  /\ first \in Nat \ {0} /\ cursor \in Nat \ {0}
  /\ \A r \in execution_log : r.group \in Nat /\ r.date \in Days
  /\ structures \in Seq(Structures)
  /\ active_structures \subseteq Opened
  /\ \A s \in Opened : structures[s].trade_id <= Len(trade_history)
  /\ trade_history \in Seq([entry_date : Days, exit_date : Days \cup {None}])
  /\ active_trades \subseteq 1..Len(trade_history)

-----------------------------------------------------------------------------
(* The live book and the T-1 book. *)

\* _assert_commit_preconditions: "it cannot fire".  Whatever the signal emits,
\* an order that was filled finds its structure live and large enough, although
\* it was sized against the T-1 book and earlier groups of the day have changed
\* the live one.
TripwireSilent == raised # "tripwire"

\* Why: until its group commits, a structure the patch targets is in the live
\* book exactly as the T-1 book the order was sized on shows it.
PendingTargetsAreCurrent ==
  phase \in {"dispatch", "commit"} =>
    \A i \in cursor..Len(action_group_log) :
      \A s \in Targets(order_groups[i]) :
        s \in active_structures /\ LiveBook[s] = portfolio_state[s]

\* A patch that is refused - by the converter, the multi-action gate or the
\* duplicate check - is refused as a whole: nothing of it is executed, nothing
\* finalized, and the live book is still the T-1 book (first run: a later run
\* starts with no T-1 book).  So it is when the signal itself raises, and then
\* nothing of the day is on record.
RefusedPatchHasNoEffect ==
  raised \in {"signal", "conversion", "duplicate"} =>
    /\ \A r \in execution_log : r.date # day
    /\ \A i \in DOMAIN action_group_log : action_group_log[i].date = day =>
         raised # "signal" /\ ~action_group_log[i].finalized
    /\ runs = 1 => LiveBook = portfolio_state

-----------------------------------------------------------------------------
(* Logs and book. *)

FilledOf(legs, ticker) ==
  SumFunction([i \in {j \in DOMAIN legs : legs[j].ticker = ticker} |-> legs[i].size])

LoggedPosition(ticker) ==
  SumFunction([r \in execution_log |-> FilledOf(r.report.fills, ticker)])

HeldPosition(ticker) ==
  SumFunction([s \in active_structures |-> FilledOf(structures[s].legs, ticker)])

\* The execution log's signed fills add up to the position the book holds, per
\* ticker, whenever no commit is pending: every filled order reached the book,
\* nothing else did (LegFill: "the change in position").
FillsExplainTheBook ==
  phase # "commit" =>
    \A k \in Tickers : LoggedPosition(k) = HeldPosition(k)

\* The same, but for a run that has raised.
FillsExplainTheBookUnlessAborted ==
  phase # "aborted" => FillsExplainTheBook

\* The size a structure's event log derives for a leg: what open and partial
\* add put on, less what the unwinds took off.
ReplayedSize(st, i) ==
  SumFunction([e \in DOMAIN st.event_log |->
    LET event == st.event_log[e]
    IN  IF event.event_type \in {"open", "partial_add"}
        THEN event.leg_size_changes[i] ELSE -event.leg_size_changes[i]])

\* design_notes.md:254: "the complete time-series of leg sizes can be derived
\* by applying these events".  A closed structure replays to zero.
EventLogReplays ==
  \A s \in Opened : \A i \in DOMAIN structures[s].legs :
    /\ structures[s].legs[i].size = ReplayedSize(structures[s], i)
    /\ s \in active_structures <=> structures[s].legs[i].size # 0

\* One modification per structure per day, and none on the day it was opened:
\* the events of a structure have strictly increasing dates, since a patch can
\* only address what the T-1 book shows and only once.
EventDatesIncrease ==
  runs = 1 =>
    \A s \in Opened : \A e, f \in DOMAIN structures[s].event_log :
      e < f => structures[s].event_log[e].date < structures[s].event_log[f].date

\* Groups are decided in emission order, each once, and all alike: the
\* finalized records are a prefix of the log, a record has one outcome and its
\* execution records are exactly one per order of that outcome, and a blocked
\* group has an order of its own that could not be filled.
GroupsAreDecidedInOrder ==
  \A i \in DOMAIN action_group_log :
    LET record  == action_group_log[i]
        reports == {r \in execution_log : r.group = i}
    IN  /\ record.finalized <=> reports # {}
        /\ record.finalized =>
             /\ \A j \in 1..i : action_group_log[j].finalized
             /\ Cardinality(record.outcomes) = 1
             /\ \A r \in reports : /\ r.report.outcome \in record.outcomes
                                   /\ r.date = record.date
             /\ "BLOCKED" \in record.outcomes =>
                  \E r \in reports : r.report.blocked_code = "DATA_MISSING"
        /\ phase = "done" => record.finalized

\* DATA_MISSING means what it says: a blocked order of the day has a leg whose
\* ticker has no close, not a target that earlier groups of the day consumed.
BlockedOnlyForMissingData ==
  phase \in {"dispatch", "commit"} =>
    \A r \in execution_log :
      r.date = day /\ r.report.blocked_code = "DATA_MISSING" =>
        ~Priced(order_groups[r.group][r.order], priced)

-----------------------------------------------------------------------------
(* Trade lifecycle. *)

\* A trade is in active_trades as long as it has an active structure, and has
\* an exit_date from the day it has none; it never starts again after that.
TradeLifecycle ==
  /\ active_trades = {structures[s].trade_id : s \in active_structures}
  /\ \A t \in 1..Len(trade_history) :
       t \in active_trades <=> trade_history[t].exit_date = None
  /\ runs = 1 => \A t \in 1..Len(trade_history) :
       t \notin active_trades => trade_history[t].entry_date < trade_history[t].exit_date

Closed(t) == trade_history[t].exit_date # None
HistoryOf(t) == {s \in Opened : structures[s].trade_id = t}

\* trade_history is an audit trail: entry dates are fixed, and nothing of a
\* closed trade changes again - not its exit_date, not its structures, and no
\* structure joins it.
ClosedTradesAreFinal ==
  [][/\ \A t \in DOMAIN trade_history :
          /\ trade_history'[t].entry_date = trade_history[t].entry_date
          /\ Closed(t) => /\ trade_history'[t] = trade_history[t]
                          /\ HistoryOf(t)' = HistoryOf(t)
                          /\ \A s \in HistoryOf(t) : structures'[s] = structures[s]]_vars

SignOf(n) == IF n > 0 THEN 1 ELSE IF n < 0 THEN -1 ELSE 0

\* A position never reverses: from one step to the next a leg of an active
\* structure keeps its sign or goes with its structure, and only a single-leg
\* long changes size at all (the gates of the single-action subset).
PositionsNeverFlip ==
  [][\A s \in active_structures \cap active_structures' :
       /\ \A i \in DOMAIN structures[s].legs :
            SignOf(structures'[s].legs[i].size) = SignOf(structures[s].legs[i].size)
       /\ structures'[s].legs # structures[s].legs => Modifiable(structures[s])]_vars

\* Every group that was logged is decided, unless the run raises.
EveryGroupIsDecided ==
  \A i \in 1..(NDays * MaxPatch) :
    Len(action_group_log) >= i ~>
      \/ phase = "aborted"
      \/ Len(action_group_log) >= i /\ action_group_log[i].finalized

-----------------------------------------------------------------------------
(* The book as an abstract ledger. *)

LastEventDate(st) == st.event_log[Len(st.event_log)].date

LedgerBook ==
  [s \in active_structures |->
     [trade_id |-> structures[s].trade_id, legs |-> structures[s].legs,
      touched |-> LastEventDate(structures[s])]]

Ledger == INSTANCE PositionLedger WITH
  today <- day, book <- LedgerBook,
  structures <- Len(structures), trades <- Len(trade_history)

\* One run of the loop is a run of the ledger: every commit is one of its steps
\* and everything else - marking, emitting, converting, filling, blocking,
\* raising, the snapshot - leaves the book alone or is the next day.
ImplementsLedger == Ledger!Spec

-----------------------------------------------------------------------------
(* The inductive invariant behind TripwireSilent. *)

\* Content that names every ticker once per structure.
LegsAreDistinct(legs) ==
  \A i, j \in DOMAIN legs : legs[i].ticker = legs[j].ticker => i = j
OneLegPerTicker ==
  /\ \A legs \in StructureSpecs : LegsAreDistinct(legs)
  /\ \A spec \in TradeSpecs : \A k \in DOMAIN spec : LegsAreDistinct(spec[k])

\* Between the snapshot and the day's first commit the T-1 book is live.
SnapshotIsCurrent ==
  phase \in {"mark", "emit", "assemble"} =>
    \A s \in DOMAIN portfolio_state :
      s \in active_structures /\ LiveBook[s] = portfolio_state[s]

\* While it is dispatched, the plan is what the patch converts to on the T-1
\* book, and no structure is in it twice.
PlanIsThePatch ==
  phase \in {"dispatch", "commit"} =>
    /\ order_groups = PatchOrders
    /\ PatchConverts
    /\ NoDuplicateTargets(PatchOrders)
    /\ cursor >= first
    /\ phase = "commit" => cursor <= Len(action_group_log)

\* The inductive invariant: TypeOK, the T-1 book against the live one before
\* and during dispatch, the plan, and the ticker condition on what is live.
IndInv ==
  /\ TypeOK
  /\ SnapshotIsCurrent
  /\ PlanIsThePatch
  /\ PendingTargetsAreCurrent
  /\ \A s \in Opened : LegsAreDistinct(structures[s].legs)
  /\ TripwireSilent
=============================================================================
