------------------------ MODULE CrossoverProperties ------------------------
(***************************************************************************)
(* What the composition of calendar, data view, crossover and daily loop   *)
(* must guarantee.                                                         *)
(***************************************************************************)
EXTENDS Crossover, BacktesterProperties

\* The crossover is one of the programs module Backtester is about: what is
\* checked and proved there of every program holds of it.
CrossoverIsAProgram == Spec

\* A feed as it was the evening before the loop day.
Past(f) ==
  [k \in Tickers |-> [d \in {e \in DOMAIN f[k] : e < Today} |-> f[k][d]]]

\* No look-ahead (data_view.py: "The loop day's own close is not observable"):
\* every read the view offers, and what the signal decides, is the same as if
\* the loop day's closes had not come in, although they are in the feed.
NoLookAhead ==
  phase = "emit" =>
    \A k \in Tickers :
      LET past == Past(feed)
      IN  /\ LastValidDay(feed, holidays, k, Today) = LastValidDay(past, holidays, k, Today)
          /\ Reference(feed, k) = Reference(past, k)
          /\ \A s, e \in (NoDay + 1)..End :
               GetSeries(feed, k, Today, s, e) = GetSeries(past, k, Today, s, e)
          /\ \A asOf \in (NoDay + 1)..End :
               \/ PriceRaises(Today, asOf)
               \/ PriceDay(feed, holidays, k, asOf) = PriceDay(past, holidays, k, asOf)
          /\ AsksForAPrice(feed, k) = AsksForAPrice(past, k)
          /\ Moves(feed, k) = Moves(past, k)
          /\ Moves(feed, k) => GroupFor(feed, k) = GroupFor(past, k)

\* The simulation calendar misses no market day and adds none: the loop runs on
\* exactly the days on which one of the markets is open, so that a day only
\* some are closed on is simulated; and from a day its market is open on, the
\* previous and the next valid day of a code, if within the lookahead, lead back.
LoopRunsOnMarketDays ==
  phase = "mark" =>
    /\ {trading_days[n] : n \in Days} =
         {d \in Start..End : \E c \in SimCodes : IsValidDay(holidays, c, d)}
    /\ \A n \in 1..(NDays - 1) : trading_days[n] < trading_days[n + 1]
    /\ \A c \in SimCodes : IsValidDay(holidays, c, Today) =>
         /\ \/ PrevRaises(holidays, c, Today)
            \/ NextValidDay(holidays, c, PrevValidDay(holidays, c, Today)) = Today
         /\ \/ NextRaises(holidays, c, Today)
            \/ PrevValidDay(holidays, c, NextValidDay(holidays, c, Today)) = Today

\* An entry is sized on a close of the days before, not staler than the bound,
\* and passes over newer rows only where the ticker's market was closed; and no
\* entry is given up for want of a reference as long as there is a close within
\* the bound (with a mapped ticker, as long as its last market day is).
EntriesAreSizedOnAFreshClose ==
  /\ phase = "assemble" =>
       \A i \in Patch : action_group_log[i].actions[1].type = "NEW" =>
         LET leg == action_group_log[i].actions[1].spec[1][1]
             k   == leg.ticker
         IN  \E r \in DOMAIN feed[k] :
               /\ r < Today /\ Today - 1 - r <= MaxStaleness
               /\ feed[k][r] > 0 /\ leg.size = Notional \div feed[k][r]
               /\ \A q \in DOMAIN feed[k] :
                    r < q /\ q < Today =>
                      IsMapped(k) /\ ~IsValidDay(holidays, ViewCode[k], q)
  /\ phase = "emit" =>
       \A k \in Tickers :
         /\ \E r \in DOMAIN feed[k] : r < Today /\ Today - 1 - r <= MaxStaleness
         /\ ~LastValidDayRaises(holidays, k, Today)
         /\ IsMapped(k) =>
              Today - 1 - PrevValidDay(holidays, ViewCode[k], Today) <= MaxStaleness
         => Reference(feed, k) # NoDay

\* At the end of a day a watched ticker is held, in one structure, exactly when
\* its averages say so, provided its market is open, it has a close to trade at
\* and, to enter, one to be sized on; on any other day its position is what it
\* was.  So a blocked entry or exit is tried again and never doubled.
BookFollowsTheSignal ==
  [][phase = "dispatch" /\ phase' \in {"mark", "done"} =>
       \A i \in DOMAIN Watchlist :
         LET k       == Watchlist[i]
             up      == ShortIsAbove(feed, k)
             sizable == Reference(feed, k) # NoDay /\ feed[k][Reference(feed, k)] > 0
         IN  IF IsTradable(k) /\ k \in priced /\ HasAverages(feed, k)
                /\ (up => sizable \/ Holders(k) # {})
             THEN Cardinality(Holders(k)') = IF up THEN 1 ELSE 0
             ELSE Holders(k)' = Holders(k)]_marketVars

\* On every loop day each watched ticker has a last valid day in the lookahead.
LookaheadReaches ==
  \A i \in DOMAIN Watchlist, n \in Days :
    ~LastValidDayRaises(holidays, Watchlist[i], trading_days[n])

\* Every run of the crossover ends by returning - nothing it emits is refused
\* and nothing it does raises, whatever the closes - unless the calendar is one
\* the lookahead gives up on (prev_valid_day: "malformed or effectively empty").
RunCompletes == LookaheadReaches => <>(phase = "done")
=============================================================================
