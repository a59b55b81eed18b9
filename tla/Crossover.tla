----------------------------- MODULE Crossover -----------------------------
(***************************************************************************)
(* The daily loop of module Backtester with its example signal, the SMA    *)
(* crossover of signals/sma_crossover.py, on a market: a calendar of       *)
(* several exchanges (module Calendar), the closes that come in day by     *)
(* day, missing or not, and the view of them the signal has (module        *)
(* DataView).  Where Backtester lets the signal emit anything, here the    *)
(* patch is the one the crossover computes.                                *)
(*                                                                         *)
(* Shares are notional / close, a float in the code: the instances take    *)
(* closes that divide the notional.                                        *)
(***************************************************************************)
EXTENDS Backtester, DataView

CONSTANTS
  Watchlist,     \* the signal's tickers, in order
  SignalCode,    \* the signal's ticker |-> holiday code
  SimCodes,      \* simulation_calendar_codes
  Start, End,    \* first and last calendar day of the run
  Calendars,     \* the calendars the market may have
  History,       \* the rows there are before the run
  ClosesOf,      \* ticker |-> the closes a new row may have
  ShortWindow, LongWindow,
  LookbackSlack, \* days the lookback goes beyond the long window; 100 in the code
  Notional

VARIABLES
  holidays,      \* code |-> its holidays
  trading_days,  \* the loop days, in order
  feed           \* ticker |-> day |-> close

calendarVars == <<holidays, trading_days>>
marketVars == <<vars, calendarVars, feed>>

Today == trading_days[day]

-----------------------------------------------------------------------------
(* The signal, on a feed f and the T-1 book. *)

IsTradable(k) == IsValidDay(holidays, SignalCode[k], Today)

\* The rows the averages are taken on.
Rows(f, k) ==
  GetSeries(f, k, Today, Today - (LongWindow + LookbackSlack), Today - 1)
Latest(rows, n) == {d \in rows : Cardinality({e \in rows : e > d}) < n}
TotalOf(f, k, days) == SumFunctionOnSet(f[k], days)

HasAverages(f, k) ==
  LET n == Cardinality(Rows(f, k)) IN n >= LongWindow /\ n >= ShortWindow

\* short_sma > long_sma
ShortIsAbove(f, k) ==
  LET total(n) == TotalOf(f, k, Latest(Rows(f, k), n))
  IN  LongWindow * total(ShortWindow) > ShortWindow * total(LongWindow)

Holders(k) == {s \in DOMAIN portfolio_state : HasTicker(portfolio_state[s].legs, k)}

\* PositionBook.find_holding: the first in the order of the trades, then of
\* their structures.
FindHolding(k) ==
  CHOOSE s \in Holders(k) :
    \A r \in Holders(k) :
      \/ portfolio_state[s].trade_id < portfolio_state[r].trade_id
      \/ portfolio_state[s].trade_id = portfolio_state[r].trade_id /\ s <= r

Reference(f, k) == ReferenceDay(f, holidays, k, Today)

\* The signal would enter, and asks the view for a reference price.
AsksForAPrice(f, k) ==
  /\ IsTradable(k) /\ HasAverages(f, k)
  /\ ShortIsAbove(f, k) /\ Holders(k) = {}

\* Mutant of WantsEntry: the signal forgets what it holds.
WantsEntry_Again(f, k) ==
  /\ IsTradable(k) /\ HasAverages(f, k)
  /\ ShortIsAbove(f, k)
  /\ Reference(f, k) # NoDay /\ f[k][Reference(f, k)] > 0

WantsEntry(f, k) ==
  /\ AsksForAPrice(f, k)
  /\ Reference(f, k) # NoDay /\ f[k][Reference(f, k)] > 0

WantsExit(f, k) ==
  /\ IsTradable(k) /\ HasAverages(f, k)
  /\ ~ShortIsAbove(f, k) /\ Holders(k) # {}

\* Mutant of Entry: added to the last trade.
Entry_Extends(f, k) ==
  LET shares == Notional \div f[k][Reference(f, k)]
  IN  [type |-> "NEW", spec |-> <<<<[ticker |-> k, size |-> shares]>>>>,
       trade_id |-> Len(trade_history), structure_id |-> None, size |-> None]

Entry(f, k) ==
  LET shares == Notional \div f[k][Reference(f, k)]
  IN  [type |-> "NEW", spec |-> <<<<[ticker |-> k, size |-> shares]>>>>,
       trade_id |-> None, structure_id |-> None, size |-> None]

\* Mutant of Exit: no address, the whole book is closed.
Exit_ClosesAll(k) ==
  [type |-> "UNWIND", spec |-> <<>>, trade_id |-> None, structure_id |-> None,
   size |-> None]

Exit(k) ==
  [type |-> "UNWIND", spec |-> <<>>,
   trade_id |-> portfolio_state[FindHolding(k)].trade_id,
   structure_id |-> FindHolding(k), size |-> None]

\* _group_for_ticker: a group of one action, or none.
Moves(f, k) == WantsEntry(f, k) \/ WantsExit(f, k)
GroupFor(f, k) == <<IF WantsEntry(f, k) THEN Entry(f, k) ELSE Exit(k)>>

-----------------------------------------------------------------------------
MarketInit ==
  /\ Init
  /\ holidays \in Calendars
  /\ LET days == TradingDays(holidays, SimCodes, Start, End)
     IN  trading_days = [n \in 1..NDays |->
                           CHOOSE d \in days : Cardinality({e \in days : e <= d}) = n]
  /\ feed = History

\* The rows of a ticker, with the loop day's close if it has one.
RowsWith(k, closes) ==
  IF k \in DOMAIN closes
  THEN [d \in DOMAIN feed[k] \cup {Today} |-> IF d = Today THEN closes[k] ELSE feed[k][d]]
  ELSE feed[k]

\* The day's closes are in the feed when it is marked.
Quotes ==
  /\ MarkToMarket
  /\ \E closes \in [priced' -> UNION {ClosesOf[k] : k \in Tickers}] :
       /\ \A k \in priced' : closes[k] \in ClosesOf[k]
       /\ feed' = [k \in Tickers |-> RowsWith(k, closes)]
  /\ UNCHANGED calendarVars

\* A price is asked for, and the view raises.
LookupFails ==
  \E i \in DOMAIN Watchlist :
    AsksForAPrice(feed, Watchlist[i]) /\ LastValidDayRaises(holidays, Watchlist[i], Today)

\* generate_action_groups of the crossover: the groups of the tickers that
\* move, in the order of the watchlist.
Signals ==
  /\ phase = "emit"
  /\ ~LookupFails
  /\ \E n \in 0..Len(Watchlist) : \E at \in [1..n -> DOMAIN Watchlist] :
       /\ {at[i] : i \in 1..n} = {i \in DOMAIN Watchlist : Moves(feed, Watchlist[i])}
       /\ \A i, j \in 1..n : i < j => at[i] < at[j]
       /\ Emit([i \in 1..n |-> GroupFor(feed, Watchlist[at[i]])])
  /\ UNCHANGED <<calendarVars, feed>>

\* It raises with the view, whichever tickers it has a group for by then.
LookupRaises ==
  /\ LookupFails
  /\ SignalRaises
  /\ UNCHANGED <<calendarVars, feed>>

\* The rest of the loop body.
Decides ==
  /\ \/ Assemble \/ ConversionRaises \/ DuplicateRaises
     \/ Execute \/ Commit \/ EndDay
  /\ UNCHANGED <<calendarVars, feed>>

MarketStep == Quotes \/ Signals \/ LookupRaises \/ Decides
MarketNext == MarketStep \/ (Stopped /\ UNCHANGED marketVars)

MarketSpec == MarketInit /\ [][MarketNext]_marketVars /\ WF_marketVars(MarketStep)
-----------------------------------------------------------------------------
\* What the configuration and the constructors of the code ensure: the watched
\* tickers are distinct, known and mapped, the windows positive, the run as
\* long as its calendar, and the content one long leg.
ASSUME MarketAssumption ==
  /\ Watchlist \in Seq(Tickers) /\ Len(Watchlist) <= MaxPatch
  /\ \A i, j \in DOMAIN Watchlist : Watchlist[i] = Watchlist[j] => i = j
  /\ \A k \in Tickers : k \in DOMAIN SignalCode /\ ClosesOf[k] \subseteq Nat
  /\ Start \in Nat /\ End \in Nat /\ NoDay < Start
  /\ \A h \in Calendars : Cardinality(TradingDays(h, SimCodes, Start, End)) = NDays
  /\ DOMAIN History = Tickers
  /\ \A k \in Tickers : History[k] \in [DOMAIN History[k] -> ClosesOf[k]]
  /\ \A k \in Tickers : \A d \in DOMAIN History[k] : d \in NoDay+1..(Start - 1)
  /\ {ShortWindow, LongWindow, LookbackSlack, Notional} \subseteq Nat \ {0}
  /\ \A k \in Tickers : \A p \in ClosesOf[k] \ {0} :
       <<<<[ticker |-> k, size |-> Notional \div p]>>>> \in TradeSpecs
=============================================================================
