--------------------------- MODULE Crossover_proofs ---------------------------
(***************************************************************************)
(* Proofs about the crossover on a market, for every calendar, feed and    *)
(* window: its runs are runs of the daily loop with some signal, the loop  *)
(* days are the market days, in order, an entry is sized on a close that   *)
(* is there, of the days before, and fresh, nothing read or decided looks  *)
(* ahead, and the book of the evening is the one the signal asked for.     *)
(***************************************************************************)
EXTENDS CrossoverProperties, Book_proofs, Dispatch_proofs

-----------------------------------------------------------------------------
(* The days of a set. *)

\* The days of a set up to a day; the n-th of the set is the one with n of them.
UpTo(S, d) == {e \in S : e <= d}

LEMMA UpToIsFinite ==
  ASSUME NEW S \in SUBSET Nat, NEW b \in Nat, \A e \in S : e <= b, NEW d
  PROVE  /\ IsFiniteSet(S) /\ IsFiniteSet(UpTo(S, d)) /\ UpTo(S, d) \subseteq S
         /\ Cardinality(S) \in Nat /\ Cardinality(UpTo(S, d)) \in Nat
         /\ Cardinality(UpTo(S, d)) <= Cardinality(S)
<1>1. IsFiniteSet(S)
  BY FS_BoundedSetOfNaturals
<1>2. UpTo(S, d) \in SUBSET S
  BY Zenon DEF UpTo
<1>3. IsFiniteSet(UpTo(S, d)) /\ Cardinality(UpTo(S, d)) <= Cardinality(S)
  BY <1>1, <1>2, FS_Subset, Zenon
<1> QED BY <1>1, <1>2, <1>3, FS_CardinalityType, Zenon

\* The days up to the day before, and the day itself if it is one of the set.
LEMMA UpToStep ==
  ASSUME NEW S \in SUBSET Nat, NEW m \in Nat
  PROVE  /\ m \notin S => UpTo(S, m) = UpTo(S, m - 1)
         /\ m \in S => UpTo(S, m) = UpTo(S, m - 1) \cup {m} /\ m \notin UpTo(S, m - 1)
         /\ m = 0 => UpTo(S, m - 1) = {}
<1>1. \A e \in S : e <= m <=> (e <= m - 1 \/ e = m)
  OBVIOUS
<1>2. ~(m <= m - 1)
  OBVIOUS
<1>3. m = 0 => \A e \in S : ~(e <= m - 1)
  OBVIOUS
<1> QED BY <1>1, <1>2, <1>3, Zenon DEF UpTo

LEMMA NthDayExists ==
  ASSUME NEW S \in SUBSET Nat, NEW b \in Nat, \A e \in S : e <= b, NEW n \in 1..Cardinality(S)
  PROVE  \E d \in S : Cardinality(UpTo(S, d)) = n
<1> DEFINE T == {x \in Nat : Cardinality(UpTo(S, x)) >= n}
<1>0. Cardinality(S) \in Nat /\ n \in Nat /\ n >= 1 /\ n <= Cardinality(S)
  <2>1. Cardinality(S) \in Nat
    BY UpToIsFinite, Zenon
  <2> QED BY <2>1
<1>1. b \in T
  <2>1. UpTo(S, b) = S
    BY Zenon DEF UpTo
  <2> QED BY <1>0, <2>1
<1>2. PICK m \in T : \A x \in T : m <= x
  <2>1. T \subseteq Nat
    OBVIOUS
  <2> HIDE DEF T
  <2> QED BY <1>1, <2>1, LeastNatural, Zenon
<1>3. m \in Nat /\ Cardinality(UpTo(S, m)) >= n
  BY <1>2, Zenon
<1> DEFINE H == UpTo(S, m - 1)
<1>4. Cardinality(UpTo(S, m)) \in Nat /\ Cardinality(H) \in Nat /\ IsFiniteSet(H)
  BY UpToIsFinite
<1>5. Cardinality(H) < n
  <2>1. CASE m = 0
    BY <1>0, <1>3, <2>1, UpToStep, FS_EmptySet
  <2>2. CASE m # 0
    <3>1. m - 1 \in Nat /\ ~(m <= m - 1)
      BY <1>3, <2>2
    <3>2. m - 1 \notin T
      BY <1>2, <3>1, Zenon
    <3>3. ~(Cardinality(H) >= n)
      BY <3>1, <3>2, Zenon
    <3> QED BY <1>0, <1>4, <3>3
  <2> QED BY <2>1, <2>2
<1> HIDE DEF H
<1>6. m \in S
  <2> SUFFICES ASSUME m \notin S PROVE FALSE
    OBVIOUS
  <2>1. UpTo(S, m) = H
    BY <1>3, UpToStep, Zenon DEF H
  <2> QED BY <1>0, <1>3, <1>4, <1>5, <2>1
<1>7. Cardinality(UpTo(S, m)) = Cardinality(H) + 1
  <2>1. UpTo(S, m) = H \cup {m} /\ m \notin H
    BY <1>3, <1>6, UpToStep, Zenon DEF H
  <2> QED BY <1>4, <2>1, FS_AddElement
<1> QED BY <1>0, <1>3, <1>4, <1>5, <1>6, <1>7

LEMMA NthDayIsUnique ==
  ASSUME NEW S \in SUBSET Nat, NEW b \in Nat, \A e \in S : e <= b,
         NEW d \in S, NEW e \in S, d < e
  PROVE  Cardinality(UpTo(S, d)) < Cardinality(UpTo(S, e))
<1>1. \A x \in S : x <= d => x <= e
  OBVIOUS
<1>2. e <= e /\ ~(e <= d)
  OBVIOUS
<1>3. UpTo(S, d) \in SUBSET UpTo(S, e) /\ e \in UpTo(S, e) /\ e \notin UpTo(S, d)
  BY <1>1, <1>2, Zenon DEF UpTo
<1>4. IsFiniteSet(UpTo(S, e)) /\ Cardinality(UpTo(S, e)) \in Nat /\ Cardinality(UpTo(S, d)) \in Nat
  BY UpToIsFinite
<1>5. /\ Cardinality(UpTo(S, d)) <= Cardinality(UpTo(S, e))
      /\ Cardinality(UpTo(S, e)) # Cardinality(UpTo(S, d))
  BY <1>3, <1>4, FS_Subset, Zenon
<1> QED BY <1>4, <1>5

-----------------------------------------------------------------------------
(* The calendar. *)

DaysOf(h) == TradingDays(h, SimCodes, Start, End)

\* The loop days: of the calendar, the n-th the one with n days up to it.
CalendarInv ==
  /\ holidays \in Calendars
  /\ \A n \in Days : /\ trading_days[n] \in DaysOf(holidays)
                     /\ Cardinality(UpTo(DaysOf(holidays), trading_days[n])) = n

LEMMA DaysAreBounded ==
  ASSUME NEW h
  PROVE  /\ DaysOf(h) \in SUBSET Nat /\ Start \in Nat /\ End \in Nat /\ Start > 0
         /\ \A d \in DaysOf(h) : Start <= d /\ d <= End
<1>1. Start \in Nat /\ End \in Nat /\ Start > 0
  BY MarketAssumption DEF NoDay
<1>2. DaysOf(h) \subseteq Start..End
  BY Zenon DEF DaysOf, TradingDays
<1> QED BY <1>1, <1>2

LEMMA CalendarInit == MarketInit => CalendarInv
<1> SUFFICES ASSUME MarketInit PROVE CalendarInv
  OBVIOUS
<1> DEFINE D == DaysOf(holidays)
<1>1. holidays \in Calendars
  BY DEF MarketInit
<1>2. Cardinality(D) = NDays
  BY <1>1, MarketAssumption, Zenon DEF DaysOf
<1>3. trading_days = [n \in 1..NDays |-> CHOOSE d \in D : Cardinality(UpTo(D, d)) = n]
  BY Zenon DEF MarketInit, DaysOf, UpTo
<1>4. ASSUME NEW n \in Days
      PROVE  trading_days[n] \in D /\ Cardinality(UpTo(D, trading_days[n])) = n
  <2>1. D \in SUBSET Nat /\ End \in Nat /\ \A d \in D : d <= End
    BY DaysAreBounded, Zenon
  <2>2. n \in 1..Cardinality(D)
    BY <1>2, Zenon DEF Days
  <2> HIDE DEF D
  <2>3. \E d \in D : Cardinality(UpTo(D, d)) = n
    BY <2>1, <2>2, NthDayExists, Zenon
  <2>4. trading_days[n] = CHOOSE d \in D : Cardinality(UpTo(D, d)) = n
    BY <1>3, Zenon DEF Days
  <2> QED BY <2>3, <2>4, Zenon
<1> QED BY <1>1, <1>4, Zenon DEF CalendarInv

LEMMA CalendarKept == CalendarInv /\ [MarketNext]_marketVars => CalendarInv'
<1> SUFFICES ASSUME CalendarInv, [MarketNext]_marketVars PROVE CalendarInv'
  OBVIOUS
<1>1. UNCHANGED <<holidays, trading_days>>
  BY Zenon DEF MarketNext, MarketStep, Quotes, Signals, LookupRaises, Decides, marketVars,
     calendarVars
<1> QED BY <1>1, Zenon DEF CalendarInv

LEMMA TodayIsALoopDay ==
  ASSUME TypeOK, CalendarInv
  PROVE  Today \in Nat /\ Start <= Today /\ Today <= End /\ Start > 0 /\ Start \in Nat
<1>1. day \in Days
  BY DEF TypeOK
<1>2. Today \in DaysOf(holidays)
  BY <1>1, Zenon DEF CalendarInv, Today
<1> QED BY <1>2, DaysAreBounded

-----------------------------------------------------------------------------
(* The feed and the reference close. *)

FeedInv ==
  \A k \in Tickers :
    /\ DOMAIN feed[k] \in SUBSET (Nat \ {0})
    /\ \A d \in DOMAIN feed[k] : feed[k][d] \in ClosesOf[k]

LEMMA FeedInit == MarketInit => FeedInv
<1> SUFFICES ASSUME MarketInit, NEW k \in Tickers
             PROVE  /\ DOMAIN feed[k] \in SUBSET (Nat \ {0})
                    /\ \A d \in DOMAIN feed[k] : feed[k][d] \in ClosesOf[k]
  BY Zenon DEF FeedInv
<1>1. feed = History
  BY DEF MarketInit
<1>2. History[k] \in [DOMAIN History[k] -> ClosesOf[k]]
  BY MarketAssumption, Zenon
<1>3. \A d \in DOMAIN History[k] : d \in NoDay+1..(Start - 1)
  BY MarketAssumption, Zenon
<1>4. Start \in Nat
  BY MarketAssumption
<1>5. \A d \in DOMAIN History[k] : d \in Nat \ {0}
  BY <1>3, <1>4 DEF NoDay
<1> QED BY <1>1, <1>2, <1>5, Zenon

LEMMA FeedStep ==
  ASSUME TypeOK, CalendarInv, FeedInv, [MarketNext]_marketVars
  PROVE  FeedInv'
<1>1. CASE Quotes
  <2>1. PICK closes \in [priced' -> UNION {ClosesOf[k] : k \in Tickers}] :
          /\ \A k \in priced' : closes[k] \in ClosesOf[k]
          /\ feed' = [k \in Tickers |-> RowsWith(k, closes)]
    BY <1>1, Zenon DEF Quotes
  <2>2. ASSUME NEW k \in Tickers
        PROVE  /\ DOMAIN feed'[k] \in SUBSET (Nat \ {0})
               /\ \A d \in DOMAIN feed'[k] : feed'[k][d] \in ClosesOf[k]
    <3>1. feed'[k] = RowsWith(k, closes)
      BY <2>1, Zenon
    <3>2. /\ DOMAIN feed[k] \in SUBSET (Nat \ {0})
          /\ \A d \in DOMAIN feed[k] : feed[k][d] \in ClosesOf[k]
      BY Zenon DEF FeedInv
    <3>3. Today \in Nat \ {0}
      BY TodayIsALoopDay
    <3>4. CASE k \in DOMAIN closes
      <4>1. closes[k] \in ClosesOf[k]
        BY <2>1, <3>4, Zenon
      <4>2. feed'[k] = [d \in DOMAIN feed[k] \cup {Today} |->
                          IF d = Today THEN closes[k] ELSE feed[k][d]]
        BY <3>1, <3>4, Zenon DEF RowsWith
      <4> QED BY <3>2, <3>3, <4>1, <4>2, Zenon
    <3>5. CASE k \notin DOMAIN closes
      BY <3>1, <3>2, <3>5, Zenon DEF RowsWith
    <3> QED BY <3>4, <3>5, Zenon
  <2> QED BY <2>2, Zenon DEF FeedInv
<1>2. CASE ~Quotes
  <2>1. feed' = feed
    BY <1>2, Zenon DEF MarketNext, MarketStep, Signals, LookupRaises, Decides, marketVars
  <2> QED BY <2>1, Zenon DEF FeedInv
<1> QED BY <1>1, <1>2, Zenon

\* The last row of a ticker before the loop day.
LEMMA LastDataDayIsTheLast ==
  ASSUME TypeOK, CalendarInv, FeedInv, NEW k \in Tickers,
         NEW r \in DOMAIN feed[k], r < Today
  PROVE  /\ LastDataDay(feed, k, Today) \in DOMAIN feed[k]
         /\ LastDataDay(feed, k, Today) \in Nat \ {0}
         /\ LastDataDay(feed, k, Today) < Today
         /\ \A q \in DOMAIN feed[k] : q < Today => q <= LastDataDay(feed, k, Today)
<1> DEFINE rows == {d \in DOMAIN feed[k] : d <= Cutoff(Today)}
<1>1. DOMAIN feed[k] \in SUBSET (Nat \ {0}) /\ Today \in Nat
  BY TodayIsALoopDay, Zenon DEF FeedInv
<1>2. \A d \in DOMAIN feed[k] : d <= Cutoff(Today) <=> d < Today
  BY <1>1 DEF Cutoff
<1>3. r \in rows /\ rows \in SUBSET Int /\ rows # {} /\ \A d \in rows : d <= Today
  BY <1>1, <1>2
<1>4. LastDataDay(feed, k, Today) = Max(rows)
  BY <1>3, Zenon DEF LastDataDay
<1>5. Max(rows) \in rows /\ \A d \in rows : d <= Max(rows)
  <2> HIDE DEF rows
  <2> QED BY <1>1, <1>3, GreatestInteger
<1> QED BY <1>1, <1>2, <1>4, <1>5, Zenon

LEMMA NoLastDataDay ==
  ASSUME NEW k \in Tickers, LastDataDay(feed, k, Today) # NoDay
  PROVE  \E r \in DOMAIN feed[k] : r <= Cutoff(Today)
BY Zenon DEF LastDataDay

\* The last market day before the loop day.
LEMMA PrevDayIsTheLast ==
  ASSUME TypeOK, CalendarInv, NEW c
  PROVE  LET p == PrevValidDay(holidays, c, Today)
         IN  /\ p \in Int /\ p < Today
             /\ p # NoDay => \A q \in Nat : p < q /\ q < Today => ~IsValidDay(holidays, c, q)
<1> DEFINE p == PrevValidDay(holidays, c, Today)
           found == {e \in (Today - MaxLookahead)..(Today - 1) : IsValidDay(holidays, c, e)}
<1>0. Today \in Nat /\ Today > 0 /\ MaxLookahead \in Nat
  BY TodayIsALoopDay, LookaheadAssumption
<1>1. CASE c = ALL_CODE
  <2>1. p = Today - 1
    BY <1>1, Zenon DEF PrevValidDay
  <2> QED BY <1>0, <2>1
<1>2. CASE c # ALL_CODE /\ found = {}
  <2>1. p = NoDay
    BY <1>2, Zenon DEF PrevValidDay
  <2> QED BY <1>0, <2>1 DEF NoDay
<1>3. CASE c # ALL_CODE /\ found # {}
  <2>1. p = Max(found)
    BY <1>3, Zenon DEF PrevValidDay
  <2>2. found \in SUBSET Int /\ \A d \in found : d <= Today - 1 /\ d >= Today - MaxLookahead
    BY <1>0
  <2>3. Max(found) \in found /\ \A d \in found : d <= Max(found)
    <3>1. Today - 1 \in Int
      BY <1>0
    <3> HIDE DEF found
    <3> QED BY <1>3, <2>2, <3>1, GreatestInteger, Zenon
  <2>4. p \in Int /\ p < Today /\ p >= Today - MaxLookahead /\ \A d \in found : d <= p
    <3>1. p \in found /\ \A d \in found : d <= p
      BY <2>1, <2>3, Zenon
    <3>2. p \in Int /\ p <= Today - 1 /\ p >= Today - MaxLookahead
      BY <2>2, <3>1, Zenon
    <3> HIDE DEF found, p
    <3>3. p < Today
      BY <1>0, <3>2
    <3> QED BY <3>1, <3>2, <3>3, Zenon
  <2>5. ASSUME NEW q \in Nat, p < q, q < Today PROVE ~IsValidDay(holidays, c, q)
    <3>1. q \in (Today - MaxLookahead)..(Today - 1) /\ ~(q <= p)
      <4> HIDE DEF found, p
      <4> QED BY <1>0, <2>4, <2>5
    <3> QED BY <2>4, <3>1, Zenon
  <2> QED BY <2>4, <2>5, Zenon
<1> QED BY <1>1, <1>2, <1>3, Zenon

\* The last valid day of a mapped ticker is its last market day.
LEMMA LastMarketDay ==
  ASSUME TypeOK, CalendarInv, NEW k, IsMapped(k)
  PROVE  LastValidDay(feed, holidays, k, Today) = PrevValidDay(holidays, ViewCode[k], Today)
<1> DEFINE p == PrevValidDay(holidays, ViewCode[k], Today)
<1>1. p \in Int /\ p < Today /\ Today \in Nat
  BY PrevDayIsTheLast, TodayIsALoopDay, Zenon
<1>2. LastValidDay(feed, holidays, k, Today) = Min({p, Cutoff(Today)})
  BY Zenon DEF LastValidDay
<1> HIDE DEF p
<1>3. {p, Cutoff(Today)} \in SUBSET Int /\ \A d \in {p, Cutoff(Today)} : p <= d
  BY <1>1 DEF Cutoff
<1>4. /\ Min({p, Cutoff(Today)}) \in {p, Cutoff(Today)}
      /\ \A d \in {p, Cutoff(Today)} : Min({p, Cutoff(Today)}) <= d
  BY <1>1, <1>3, LeastInteger, Zenon
<1> DEFINE m == Min({p, Cutoff(Today)})
<1>5. (m = p \/ m = Cutoff(Today)) /\ m <= p
  BY <1>4, Zenon
<1> HIDE DEF m
<1>6. m = p
  BY <1>1, <1>5 DEF Cutoff
<1> QED BY <1>2, <1>6, Zenon DEF m, p

\* A reference is a row of the days before, fresh, and the rows it passes over
\* are of days the ticker's market was closed.
LEMMA ReferenceIsFresh ==
  ASSUME TypeOK, CalendarInv, FeedInv, NEW k \in Tickers, Reference(feed, k) # NoDay
  PROVE  LET r == Reference(feed, k)
         IN  /\ r \in DOMAIN feed[k]
             /\ r < Today /\ Today - 1 - r <= MaxStaleness
             /\ \A q \in DOMAIN feed[k] : r < q /\ q < Today =>
                  IsMapped(k) /\ ~IsValidDay(holidays, ViewCode[k], q)
<1> DEFINE last == LastValidDay(feed, holidays, k, Today)
           r == Reference(feed, k)
<1>0. DOMAIN feed[k] \in SUBSET (Nat \ {0}) /\ Today \in Nat /\ MaxStaleness \in Nat
  BY TodayIsALoopDay, StalenessAssumption, Zenon DEF FeedInv
<1>1. /\ r = IF last \in DOMAIN feed[k] THEN last ELSE LastDataDay(feed, k, Today)
      /\ ~(Cutoff(Today) - r > MaxStaleness)
  BY Zenon DEF Reference, ReferenceDay
<1>2. CASE IsMapped(k) /\ last \in DOMAIN feed[k]
  <2>1. last = PrevValidDay(holidays, ViewCode[k], Today) /\ r = last
    BY <1>1, <1>2, LastMarketDay, Zenon
  <2>2. r < Today /\ \A q \in Nat : r < q /\ q < Today => ~IsValidDay(holidays, ViewCode[k], q)
    BY <2>1, PrevDayIsTheLast, Zenon
  <2>3. r \in Nat /\ \A q \in DOMAIN feed[k] : q \in Nat
    BY <1>0, <1>2, <2>1
  <2>4. Today - 1 - r <= MaxStaleness
    <3> HIDE DEF last, r
    <3> QED BY <1>0, <1>1, <2>3 DEF Cutoff
  <2> QED BY <1>2, <2>1, <2>2, <2>3, <2>4, Zenon
<1>3. CASE ~(IsMapped(k) /\ last \in DOMAIN feed[k])
  <2>1. r = LastDataDay(feed, k, Today)
    BY <1>1, <1>3, Zenon DEF LastValidDay
  <2>2. PICK e \in DOMAIN feed[k] : e <= Cutoff(Today)
    BY <2>1, NoLastDataDay, Zenon
  <2>3. e < Today
    BY <1>0, <2>2 DEF Cutoff
  <2>4. /\ r \in DOMAIN feed[k] /\ r \in Nat /\ r < Today
        /\ \A q \in DOMAIN feed[k] : q < Today => q <= r
    BY <2>1, <2>3, LastDataDayIsTheLast, Zenon
  <2> HIDE DEF last, r
  <2>5. \A q \in DOMAIN feed[k] : ~(r < q /\ q < Today)
    BY <1>0, <2>4
  <2>6. Today - 1 - r <= MaxStaleness
    BY <1>0, <1>1, <2>4 DEF Cutoff
  <2> QED BY <2>4, <2>5, <2>6, Zenon DEF r
<1> QED BY <1>2, <1>3, Zenon

\* There is a reference as long as there is a close within the bound, and a
\* market day within it if the ticker is mapped.
LEMMA ReferenceIsFound ==
  ASSUME TypeOK, CalendarInv, FeedInv, NEW k \in Tickers,
         NEW e \in DOMAIN feed[k], e < Today, Today - 1 - e <= MaxStaleness,
         IsMapped(k) =>
           Today - 1 - PrevValidDay(holidays, ViewCode[k], Today) <= MaxStaleness
  PROVE  Reference(feed, k) # NoDay
<1> DEFINE last == LastValidDay(feed, holidays, k, Today)
           data == LastDataDay(feed, k, Today)
<1>0. DOMAIN feed[k] \in SUBSET (Nat \ {0}) /\ Today \in Nat /\ MaxStaleness \in Nat
  BY TodayIsALoopDay, StalenessAssumption, Zenon DEF FeedInv
<1>1. data \in Nat \ {0} /\ data < Today /\ e <= data
  BY LastDataDayIsTheLast, Zenon
<1>2. Today - 1 - data <= MaxStaleness
  <2> HIDE DEF data
  <2>1. e \in Nat
    BY <1>0
  <2> QED BY <1>0, <1>1, <2>1
<1>3. last \in DOMAIN feed[k] => last \in Nat \ {0} /\ Today - 1 - last <= MaxStaleness
  <2>1. CASE IsMapped(k)
    BY <1>0, <2>1, LastMarketDay, Zenon
  <2>2. CASE ~IsMapped(k)
    <3>1. last = data
      BY <2>2, Zenon DEF LastValidDay
    <3> QED BY <1>1, <1>2, <3>1, Zenon
  <2> QED BY <2>1, <2>2, Zenon
<1> DEFINE r == IF last \in DOMAIN feed[k] THEN last ELSE data
<1>4. r \in Nat \ {0} /\ Today - 1 - r <= MaxStaleness
  BY <1>1, <1>2, <1>3, Zenon
<1>5. Reference(feed, k) = IF r = NoDay \/ Cutoff(Today) - r > MaxStaleness THEN NoDay ELSE r
  BY Zenon DEF Reference, ReferenceDay
<1> HIDE DEF r
<1>6. r # NoDay /\ ~(Cutoff(Today) - r > MaxStaleness)
  BY <1>0, <1>4 DEF Cutoff, NoDay
<1> QED BY <1>5, <1>6, Zenon

-----------------------------------------------------------------------------
(* The crossover's patch is one any signal may emit. *)

LEMMA HoldingIsFound ==
  ASSUME TypeOK, NEW k, Holders(k) # {}
  PROVE  FindHolding(k) \in Holders(k)
<1> DEFINE trade(s) == portfolio_state[s].trade_id
<1>1. /\ DOMAIN portfolio_state \subseteq Nat
      /\ \A s \in DOMAIN portfolio_state : trade(s) \in Nat
  BY DEF TypeOK, BookRows, Opened
<1>2. Holders(k) \subseteq DOMAIN portfolio_state
  BY Zenon DEF Holders
<1> DEFINE T == {trade(s) : s \in Holders(k)}
<1>3. T \in SUBSET Nat /\ T # {}
  BY <1>1, <1>2, Zenon
<1>4. PICK t \in T : \A u \in T : t <= u
  <2> HIDE DEF T
  <2> QED BY <1>3, LeastNatural, Zenon
<1> DEFINE U == {s \in Holders(k) : trade(s) = t}
<1>5. U \in SUBSET Nat /\ U # {}
  BY <1>1, <1>2, Zenon
<1>6. PICK s \in U : \A u \in U : s <= u
  <2> HIDE DEF U
  <2> QED BY <1>5, LeastNatural, Zenon
<1>7. ASSUME NEW u \in Holders(k)
      PROVE  \/ trade(s) < trade(u)
             \/ trade(s) = trade(u) /\ s <= u
  <2>1. trade(s) = t /\ t <= trade(u) /\ (trade(u) = t => s <= u)
    BY <1>4, <1>6, Zenon
  <2>2. trade(s) \in Nat /\ trade(u) \in Nat
    BY <1>1, <1>2, <1>6, Zenon
  <2> QED BY <2>1, <2>2
<1> QED BY <1>6, <1>7, Zenon DEF FindHolding

MarketInv == BookInv /\ CalendarInv /\ FeedInv

LEMMA EntryIsAnAction ==
  ASSUME MarketInv, NEW k \in Tickers, WantsEntry(feed, k)
  PROVE  Entry(feed, k) \in Actions
<1> DEFINE p == feed[k][Reference(feed, k)]
<1>1. Reference(feed, k) \in DOMAIN feed[k] /\ p > 0
  BY ReferenceIsFresh, Zenon DEF MarketInv, BookInv, WantsEntry
<1>2. p \in ClosesOf[k] /\ p # 0
  <2>1. p \in ClosesOf[k]
    BY <1>1, Zenon DEF MarketInv, FeedInv
  <2> QED BY <1>1, <2>1
<1>3. <<<<[ticker |-> k, size |-> Notional \div p]>>>> \in TradeSpecs
  BY <1>2, MarketAssumption, Zenon
<1> QED BY <1>3, Zenon DEF Actions, ActionMatrix, Entry

LEMMA ExitIsAnAction ==
  ASSUME MarketInv, phase = "emit", NEW k \in Tickers, WantsExit(feed, k)
  PROVE  Exit(k) \in Actions
<1> DEFINE s == FindHolding(k)
<1>1. s \in DOMAIN portfolio_state
  BY HoldingIsFound, Zenon DEF MarketInv, BookInv, WantsExit, Holders
<1>2. s \in active_structures /\ LiveBook[s] = portfolio_state[s]
  BY <1>1, Zenon DEF MarketInv, BookInv, SnapshotIsCurrent
<1>3. portfolio_state[s].trade_id = structures[s].trade_id
  <2>1. LiveBook[s].trade_id = structures[s].trade_id
    BY <1>2 DEF LiveBook
  <2> QED BY <1>2, <2>1, Zenon
<1>4. s \in DOMAIN structures /\ portfolio_state[s].trade_id \in DOMAIN trade_history
  <2>1. s \in 1..Len(structures) /\ structures \in Seq(Structures)
    BY <1>1, Zenon DEF MarketInv, BookInv, TypeOK, Opened
  <2>2. /\ structures[s].trade_id <= Len(trade_history)
        /\ trade_history \in Seq([entry_date : Days, exit_date : Days \cup {None}])
    BY <2>1, Zenon DEF MarketInv, BookInv, TypeOK, Opened
  <2> HIDE DEF s
  <2>3. structures[s].trade_id \in Nat \ {0}
    <3>1. structures[s] \in Structures
      BY <2>1
    <3> QED BY <3>1 DEF Structures
  <2> QED BY <1>3, <2>1, <2>2, <2>3
<1>5. Exit(k) = [type |-> "UNWIND", spec |-> <<>>, trade_id |-> portfolio_state[s].trade_id,
                 structure_id |-> s, size |-> None]
  BY Zenon DEF Exit
<1> HIDE DEF s
<1>6. Exit(k) \in [type : {"UNWIND"}, spec : {<<>>}, trade_id : DOMAIN trade_history,
                   structure_id : DOMAIN structures, size : Amounts \cup {None}]
  BY <1>4, <1>5
<1> QED BY <1>6, Zenon DEF Actions, ActionMatrix

\* A patch of the crossover: groups of tickers that move.
FromMoves(patch) ==
  \A i \in DOMAIN patch :
    \E k \in Tickers : Moves(feed, k) /\ patch[i] = GroupFor(feed, k)

LEMMA CrossoverPatch ==
  ASSUME MarketInv, phase = "emit", NEW n \in 0..Len(Watchlist),
         NEW at \in [1..n -> DOMAIN Watchlist],
         {at[i] : i \in 1..n} = {i \in DOMAIN Watchlist : Moves(feed, Watchlist[i])}
  PROVE  LET patch == [i \in 1..n |-> GroupFor(feed, Watchlist[at[i]])]
         IN  patch \in Patches /\ FromMoves(patch)
<1>1. ASSUME NEW i \in 1..n
      PROVE  /\ GroupFor(feed, Watchlist[at[i]]) \in Groups
             /\ Watchlist[at[i]] \in Tickers /\ Moves(feed, Watchlist[at[i]])
  <2> DEFINE k == Watchlist[at[i]]
             a == IF WantsEntry(feed, k) THEN Entry(feed, k) ELSE Exit(k)
  <2>1. k \in Tickers
    <3>1. at[i] \in DOMAIN Watchlist /\ Watchlist \in Seq(Tickers)
      BY MarketAssumption, Zenon
    <3> QED BY <3>1
  <2>2. Moves(feed, k)
    BY Zenon
  <2>4. a \in Actions
    BY <2>1, <2>2, EntryIsAnAction, ExitIsAnAction, Zenon DEF Moves
  <2>5. GroupFor(feed, k) = <<a>>
    BY DEF GroupFor
  <2>6. <<a>> \in [1..1 -> Actions]
    <3> HIDE DEF a
    <3> QED BY <2>4
  <2>7. 1 \in 1..MaxActions
    BY BoundsAssumption
  <2>8. <<a>> \in Groups
    BY <2>6, <2>7, Zenon DEF Groups
  <2> QED BY <2>1, <2>2, <2>5, <2>8, Zenon
<1>2. n \in 0..MaxPatch
  <2>1. Len(Watchlist) \in Nat /\ Len(Watchlist) <= MaxPatch /\ MaxPatch \in Nat
    BY MarketAssumption, BoundsAssumption
  <2> QED BY <2>1
<1>3. [i \in 1..n |-> GroupFor(feed, Watchlist[at[i]])] \in [1..n -> Groups]
  BY <1>1, Zenon
<1>4. [i \in 1..n |-> GroupFor(feed, Watchlist[at[i]])] \in Patches
  BY <1>2, <1>3, Zenon DEF Patches
<1>5. FromMoves([i \in 1..n |-> GroupFor(feed, Watchlist[at[i]])])
  BY <1>1, Zenon DEF FromMoves
<1> QED BY <1>4, <1>5, Zenon

LEMMA CrossoverEmits ==
  ASSUME MarketInv, Signals
  PROVE  \E patch \in Patches : Emit(patch) /\ FromMoves(patch)
<1>1. /\ phase = "emit"
      /\ \E n \in 0..Len(Watchlist) : \E at \in [1..n -> DOMAIN Watchlist] :
           /\ {at[i] : i \in 1..n} = {i \in DOMAIN Watchlist : Moves(feed, Watchlist[i])}
           /\ Emit([i \in 1..n |-> GroupFor(feed, Watchlist[at[i]])])
  BY Zenon DEF Signals
<1> QED BY <1>1, CrossoverPatch, Zenon

LEMMA MarketInvInit == MarketInit => MarketInv
BY CalendarInit, FeedInit, BookInvInit, Zenon DEF MarketInit, MarketInv

LEMMA MarketSteps == MarketInv /\ [MarketNext]_marketVars => [Next]_vars
<1> SUFFICES ASSUME MarketInv, [MarketNext]_marketVars PROVE [Next]_vars
  OBVIOUS
<1>1. CASE Quotes
  BY <1>1, Zenon DEF Quotes, Next, Step
<1>2. CASE Signals
  <2>1. (\E patch \in Patches : Emit(patch)) /\ phase = "emit"
    BY <1>2, CrossoverEmits, Zenon DEF Signals
  <2> QED BY <2>1, Zenon DEF EmitPatch, Next, Step
<1>3. CASE LookupRaises \/ Decides
  BY <1>3, Zenon DEF LookupRaises, Decides, Next, Step
<1>4. CASE UNCHANGED marketVars \/ Stopped
  BY <1>4, Zenon DEF marketVars, Next
<1> QED BY <1>1, <1>2, <1>3, <1>4, Zenon DEF MarketNext, MarketStep

LEMMA MarketInvStep == MarketInv /\ [MarketNext]_marketVars => MarketInv'
<1> SUFFICES ASSUME MarketInv, [MarketNext]_marketVars PROVE MarketInv'
  OBVIOUS
<1>1. BookInv'
  BY MarketSteps, BookInvStep, Zenon DEF MarketInv
<1>2. CalendarInv'
  BY CalendarKept, Zenon DEF MarketInv
<1>3. FeedInv'
  BY FeedStep, Zenon DEF MarketInv, BookInv
<1> QED BY <1>1, <1>2, <1>3, Zenon DEF MarketInv

LEMMA MarketInvariant == MarketSpec => []MarketInv
<1>1. MarketInit => MarketInv
  BY MarketInvInit
<1>2. MarketInv /\ [MarketNext]_marketVars => MarketInv'
  BY MarketInvStep
<1> QED BY <1>1, <1>2, PTL DEF MarketSpec

\* sma_crossover.py emits nothing the loop does not take from any signal: a run
\* of the crossover on a market is a run of module Backtester, so that whatever
\* is proved of every signal holds of it.
THEOREM CrossoverProgram == MarketSpec => CrossoverIsAProgram
<1>1. MarketInit => Init
  BY Zenon DEF MarketInit
<1>2. MarketInv /\ [MarketNext]_marketVars => [Next]_vars
  BY MarketSteps
<1> QED BY <1>1, <1>2, MarketInvariant, PTL DEF MarketSpec, CrossoverIsAProgram, Spec

-----------------------------------------------------------------------------
(* Entries. *)

\* The records of a patch are the end of the log, in its order.
LEMMA EmittedRecords ==
  ASSUME TypeOK, NEW patch \in Patches, Emit(patch)
  PROVE  /\ \A i \in Patch' : /\ i - Len(action_group_log) \in DOMAIN patch
                               /\ action_group_log'[i].actions = patch[i - Len(action_group_log)]
         /\ \A j \in DOMAIN patch : Len(action_group_log) + j \in Patch'
         /\ DOMAIN patch = 1..Len(patch) /\ Len(patch) \in Nat /\ Len(action_group_log) \in Nat
         /\ Patch' \subseteq Nat
<1> DEFINE new == [j \in DOMAIN patch |-> [actions |-> patch[j], date |-> day,
                                           finalized |-> FALSE, outcomes |-> {}]]
<1>1. new \in [1..Len(patch) -> Records] /\ Len(patch) \in Nat /\ DOMAIN patch = 1..Len(patch)
  BY PatchType DEF Records, TypeOK
<1>2. new \in Seq(Records) /\ Len(new) = Len(patch)
  BY <1>1, FunctionIsSeq
<1>3. action_group_log' = action_group_log \o new /\ first' = Len(action_group_log) + 1
  BY Zenon DEF Emit
<1>4. action_group_log \in Seq(Records)
  BY DEF TypeOK
<1>5. \A j \in DOMAIN patch : new[j].actions = patch[j]
  OBVIOUS
<1> HIDE DEF new
<1>6. /\ Len(action_group_log \o new) = Len(action_group_log) + Len(new)
      /\ \A j \in 1..(Len(action_group_log) + Len(new)) :
           (action_group_log \o new)[j] =
             IF j <= Len(action_group_log) THEN action_group_log[j]
             ELSE new[j - Len(action_group_log)]
  BY <1>2, <1>4, ConcatProperties
<1>7. Patch' = (Len(action_group_log) + 1)..(Len(action_group_log) + Len(new))
  BY <1>3, <1>6, Zenon DEF Patch
<1>8. Len(action_group_log) \in Nat
  BY <1>4
<1>9. ASSUME NEW i \in Patch'
      PROVE  /\ i - Len(action_group_log) \in DOMAIN patch
             /\ action_group_log'[i].actions = patch[i - Len(action_group_log)]
  <2>1. /\ i - Len(action_group_log) \in DOMAIN patch /\ ~(i <= Len(action_group_log))
        /\ i \in 1..(Len(action_group_log) + Len(new))
    BY <1>1, <1>2, <1>7, <1>8
  <2>2. action_group_log'[i] = new[i - Len(action_group_log)]
    BY <1>3, <1>6, <2>1, Zenon
  <2> QED BY <1>5, <2>1, <2>2, Zenon
<1>10. \A j \in DOMAIN patch : Len(action_group_log) + j \in Patch'
  BY <1>1, <1>2, <1>7, <1>8
<1>11. Patch' \subseteq Nat
  BY <1>1, <1>2, <1>7, <1>8
<1> QED BY <1>1, <1>8, <1>9, <1>10, <1>11, Zenon

LEMMA EmittedGroups ==
  ASSUME TypeOK, NEW patch \in Patches, Emit(patch), NEW i \in Patch'
  PROVE  \E j \in DOMAIN patch : action_group_log'[i].actions = patch[j]
BY EmittedRecords, Zenon

\* What is said of an entry: its first leg was sized on a fresh reference row.
FreshEntry(a) ==
  LET leg == a.spec[1][1]
      k   == leg.ticker
  IN  \E r \in DOMAIN feed[k] :
        /\ r < Today /\ Today - 1 - r <= MaxStaleness
        /\ feed[k][r] > 0 /\ leg.size = Notional \div feed[k][r]
        /\ \A q \in DOMAIN feed[k] :
             r < q /\ q < Today => IsMapped(k) /\ ~IsValidDay(holidays, ViewCode[k], q)

EntriesInv ==
  phase = "assemble" =>
    \A i \in Patch : action_group_log[i].actions[1].type = "NEW" =>
      FreshEntry(action_group_log[i].actions[1])

LEMMA EntryIsFresh ==
  ASSUME MarketInv, NEW k \in Tickers, WantsEntry(feed, k)
  PROVE  FreshEntry(Entry(feed, k))
<1> DEFINE r == Reference(feed, k)
           leg == [ticker |-> k, size |-> Notional \div feed[k][r]]
<1>1. /\ r \in DOMAIN feed[k] /\ r < Today /\ Today - 1 - r <= MaxStaleness /\ feed[k][r] > 0
      /\ \A q \in DOMAIN feed[k] : r < q /\ q < Today =>
           IsMapped(k) /\ ~IsValidDay(holidays, ViewCode[k], q)
  BY ReferenceIsFresh, Zenon DEF WantsEntry, MarketInv, BookInv
<1>2. Entry(feed, k).spec[1][1] = leg
  BY DEF Entry
<1>3. leg.ticker = k /\ leg.size = Notional \div feed[k][r]
  OBVIOUS
<1> HIDE DEF leg, r
<1> QED BY <1>1, <1>2, <1>3, Zenon DEF FreshEntry

LEMMA EntriesStep == MarketInv /\ EntriesInv /\ [MarketNext]_marketVars => EntriesInv'
<1> SUFFICES ASSUME MarketInv, EntriesInv, [MarketNext]_marketVars, phase' = "assemble",
                    NEW i \in Patch', action_group_log'[i].actions[1].type = "NEW"
             PROVE  FreshEntry(action_group_log[i].actions[1])'
  BY Zenon DEF EntriesInv
<1>1. CASE Signals
  <2>1. PICK patch \in Patches : Emit(patch) /\ FromMoves(patch)
    BY <1>1, CrossoverEmits, Zenon
  <2>2. PICK j \in DOMAIN patch : action_group_log'[i].actions = patch[j]
    BY <2>1, EmittedGroups, Zenon DEF MarketInv, BookInv
  <2>3. PICK k \in Tickers : Moves(feed, k) /\ patch[j] = GroupFor(feed, k)
    BY <2>1, Zenon DEF FromMoves
  <2> DEFINE a == action_group_log'[i].actions[1]
  <2>4. a = IF WantsEntry(feed, k) THEN Entry(feed, k) ELSE Exit(k)
    BY <2>2, <2>3 DEF GroupFor
  <2>5. Exit(k).type = "UNWIND"
    BY DEF Exit
  <2>6. WantsEntry(feed, k) /\ a = Entry(feed, k)
    <3>1. a.type = "NEW"
      OBVIOUS
    <3> HIDE DEF a
    <3> QED BY <2>4, <2>5, <3>1
  <2>7. FreshEntry(Entry(feed, k))
    BY <2>6, EntryIsFresh, Zenon
  <2>8. UNCHANGED <<feed, holidays, trading_days, day>>
    BY <1>1, <2>1, Zenon DEF Signals, Emit, calendarVars
  <2> QED BY <2>6, <2>7, <2>8, Zenon DEF FreshEntry, Today
<1>2. CASE UNCHANGED marketVars
  <2>1. UNCHANGED <<feed, holidays, trading_days, day, phase, action_group_log, first>>
    BY <1>2, Zenon DEF marketVars, calendarVars, vars, loopVars, planVars, logVars
  <2> QED BY <2>1, Zenon DEF EntriesInv, FreshEntry, Today, Patch
<1>3. CASE Stopped
  BY <1>3, Zenon DEF Stopped, vars, loopVars
<1>4. CASE Quotes \/ LookupRaises \/ Decides
  BY <1>4, Zenon DEF Quotes, MarkToMarket, LookupRaises, SignalRaises, Decides, Assemble,
     ConversionRaises, DuplicateRaises, Raise, Execute, Commit, TripwireFires, CommitOpen, CommitExtend, ExtendRaises,
     CommitStructure, CommitDone, EndDay
<1> QED BY <1>1, <1>2, <1>3, <1>4, Zenon DEF MarketNext, MarketStep

\* data_view.reference_price and the sizing of an entry, on every market: the
\* entries the crossover emits are sized on a close of the days before, within
\* the bound, and none is given up while there is one.
THEOREM FreshEntries == MarketSpec => []EntriesAreSizedOnAFreshClose
<1>1. MarketInit => EntriesInv
  BY Zenon DEF MarketInit, Init, EntriesInv
<1>2. MarketInv /\ EntriesInv /\ [MarketNext]_marketVars => EntriesInv'
  BY EntriesStep
<1>3. MarketInv /\ EntriesInv => EntriesAreSizedOnAFreshClose
  <2> SUFFICES ASSUME MarketInv, EntriesInv PROVE EntriesAreSizedOnAFreshClose
    OBVIOUS
  <2>1. ASSUME NEW k \in Tickers,
               \E r \in DOMAIN feed[k] : r < Today /\ Today - 1 - r <= MaxStaleness,
               ~LastValidDayRaises(holidays, k, Today),
               IsMapped(k) =>
                 Today - 1 - PrevValidDay(holidays, ViewCode[k], Today) <= MaxStaleness
        PROVE  Reference(feed, k) # NoDay
    BY <2>1, ReferenceIsFound, Zenon DEF MarketInv, BookInv
  <2> QED BY <2>1, Zenon DEF EntriesAreSizedOnAFreshClose, EntriesInv, FreshEntry
<1> QED BY <1>1, <1>2, <1>3, MarketInvariant, PTL DEF MarketSpec

-----------------------------------------------------------------------------
(* No look-ahead. *)

\* What the view and the signal read of a ticker is the same in two feeds.
SameReads(f, g, k) ==
  /\ LastValidDay(f, holidays, k, Today) = LastValidDay(g, holidays, k, Today)
  /\ Reference(f, k) = Reference(g, k)
  /\ \A s, e : GetSeries(f, k, Today, s, e) = GetSeries(g, k, Today, s, e)
  /\ \A asOf \in Nat :
       PriceRaises(Today, asOf) \/ PriceDay(f, holidays, k, asOf) = PriceDay(g, holidays, k, asOf)

\* The rows of the days before are those of the feed of the evening before.
LEMMA PastRows ==
  ASSUME TypeOK, CalendarInv, FeedInv, NEW k \in Tickers
  PROVE  /\ DOMAIN Past(feed)[k] = {d \in DOMAIN feed[k] : d <= Cutoff(Today)}
         /\ \A d \in DOMAIN Past(feed)[k] : Past(feed)[k][d] = feed[k][d]
         /\ \A d \in DOMAIN feed[k] : d <= Cutoff(Today) <=> d < Today
<1>1. DOMAIN feed[k] \in SUBSET (Nat \ {0}) /\ Today \in Nat
  BY TodayIsALoopDay, Zenon DEF FeedInv
<1>2. \A d \in DOMAIN feed[k] : d <= Cutoff(Today) <=> d < Today
  BY <1>1 DEF Cutoff
<1>3. Past(feed)[k] = [d \in {e \in DOMAIN feed[k] : e < Today} |-> feed[k][d]]
  BY Zenon DEF Past
<1>4. DOMAIN Past(feed)[k] = {e \in DOMAIN feed[k] : e < Today}
  BY <1>3, Zenon
<1> QED BY <1>2, <1>3, <1>4, Zenon

LEMMA ViewReadsThePast ==
  ASSUME TypeOK, CalendarInv, FeedInv, NEW k \in Tickers
  PROVE  SameReads(feed, Past(feed), k)
<1> DEFINE past == Past(feed)
           last == LastValidDay(feed, holidays, k, Today)
<1>0. DOMAIN feed[k] \in SUBSET (Nat \ {0}) /\ Today \in Nat
  BY TodayIsALoopDay, Zenon DEF FeedInv
<1>1. DOMAIN past[k] = {d \in DOMAIN feed[k] : d <= Cutoff(Today)}
  BY PastRows, Zenon
<1> HIDE DEF past
<1>2. \A s, e : GetSeries(feed, k, Today, s, e) = GetSeries(past, k, Today, s, e)
  BY <1>1, Zenon DEF GetSeries
<1>3. LastDataDay(feed, k, Today) = LastDataDay(past, k, Today)
  <2>1. {d \in DOMAIN past[k] : d <= Cutoff(Today)} = {d \in DOMAIN feed[k] : d <= Cutoff(Today)}
    BY <1>1, Zenon
  <2> QED BY <2>1, Zenon DEF LastDataDay
<1>4. last = LastValidDay(past, holidays, k, Today)
  BY <1>3, Zenon DEF LastValidDay
<1>5. last \in DOMAIN feed[k] <=> last \in DOMAIN past[k]
  <2> SUFFICES ASSUME last \in DOMAIN feed[k] PROVE last <= Cutoff(Today)
    BY <1>1, Zenon
  <2>1. CASE IsMapped(k)
    <3>1. last \in Int /\ last < Today
      BY <2>1, LastMarketDay, PrevDayIsTheLast, Zenon
    <3> HIDE DEF last
    <3> QED BY <1>0, <3>1 DEF Cutoff
  <2>2. CASE ~IsMapped(k)
    <3>1. last = LastDataDay(feed, k, Today)
      BY <2>2, Zenon DEF LastValidDay
    <3>2. last # NoDay
      <4> HIDE DEF last
      <4> QED BY <1>0 DEF NoDay
    <3>3. PICK r \in DOMAIN feed[k] : r <= Cutoff(Today)
      BY <3>1, <3>2, NoLastDataDay, Zenon
    <3>4. last < Today
      BY <3>1, <3>3, PastRows, LastDataDayIsTheLast, Zenon
    <3> QED BY <3>4, PastRows, Zenon
  <2> QED BY <2>1, <2>2, Zenon
<1>6. Reference(feed, k) = Reference(past, k)
  BY <1>3, <1>4, <1>5, Zenon DEF Reference, ReferenceDay
<1>7. ASSUME NEW asOf \in Nat
      PROVE  PriceRaises(Today, asOf)
               \/ PriceDay(feed, holidays, k, asOf) = PriceDay(past, holidays, k, asOf)
  <2>1. ~PriceRaises(Today, asOf) => asOf <= Cutoff(Today)
    BY <1>0 DEF PriceRaises, Cutoff
  <2> QED BY <1>1, <2>1, Zenon DEF PriceDay
<1> QED BY <1>2, <1>4, <1>6, <1>7, Zenon DEF SameReads, past

\* What the crossover decides on these reads.
LEMMA SignalReadsThePast ==
  ASSUME TypeOK, CalendarInv, FeedInv, NEW k \in Tickers
  PROVE  /\ AsksForAPrice(feed, k) = AsksForAPrice(Past(feed), k)
         /\ Moves(feed, k) = Moves(Past(feed), k)
         /\ Moves(feed, k) => GroupFor(feed, k) = GroupFor(Past(feed), k)
<1> DEFINE past == Past(feed)
<1>0. SameReads(feed, past, k)
  BY ViewReadsThePast, Zenon
<1>1. Rows(feed, k) = Rows(past, k) /\ Reference(feed, k) = Reference(past, k)
  BY <1>0, Zenon DEF SameReads, Rows
<1>2. \A d \in Rows(past, k) : feed[k][d] = past[k][d]
  BY PastRows, Zenon DEF Rows, GetSeries
<1> HIDE DEF past
<1>3. ASSUME NEW n
      PROVE  TotalOf(feed, k, Latest(Rows(feed, k), n)) = TotalOf(past, k, Latest(Rows(past, k), n))
  <2> DEFINE S == Latest(Rows(past, k), n)
             f == feed[k]
             g == past[k]
  <2>1. \A d \in S : f[d] = g[d]
    BY <1>2, Zenon DEF Latest
  <2> HIDE DEF S, f, g
  <2>2. SumFunctionOnSet(f, S) = SumFunctionOnSet(g, S)
    BY <2>1, SumEqual, Zenon
  <2> QED BY <1>1, <2>2, Zenon DEF TotalOf, S, f, g
<1>4. HasAverages(feed, k) <=> HasAverages(past, k)
  BY <1>1, Zenon DEF HasAverages
<1>5. ShortIsAbove(feed, k) <=> ShortIsAbove(past, k)
  <2> DEFINE total(f, n) == TotalOf(f, k, Latest(Rows(f, k), n))
  <2>1. /\ total(feed, ShortWindow) = total(past, ShortWindow)
        /\ total(feed, LongWindow) = total(past, LongWindow)
    BY <1>3, Zenon
  <2>2. \A f : ShortIsAbove(f, k) <=>
                LongWindow * total(f, ShortWindow) > ShortWindow * total(f, LongWindow)
    BY DEF ShortIsAbove
  <2> HIDE DEF total
  <2> QED BY <2>1, <2>2, Zenon
<1>6. Reference(feed, k) # NoDay =>
        feed[k][Reference(feed, k)] = past[k][Reference(past, k)]
  <2> SUFFICES ASSUME Reference(feed, k) # NoDay
               PROVE  feed[k][Reference(feed, k)] = past[k][Reference(feed, k)]
    BY <1>1, Zenon
  <2>1. Reference(feed, k) \in DOMAIN feed[k] /\ Reference(feed, k) < Today
    BY ReferenceIsFresh, Zenon
  <2> QED BY <2>1, PastRows, Zenon DEF past
<1>7. /\ AsksForAPrice(feed, k) <=> AsksForAPrice(past, k)
      /\ WantsEntry(feed, k) <=> WantsEntry(past, k)
  BY <1>1, <1>4, <1>5, <1>6, Zenon DEF AsksForAPrice, WantsEntry
<1>8. WantsExit(feed, k) <=> WantsExit(past, k)
  BY <1>4, <1>5, Zenon DEF WantsExit
<1>9. WantsEntry(feed, k) => Entry(feed, k) = Entry(past, k)
  BY <1>6, Zenon DEF WantsEntry, Entry
<1>10. GroupFor(feed, k) = GroupFor(past, k)
  BY <1>7, <1>9, Zenon DEF GroupFor
<1>11. Moves(feed, k) <=> Moves(past, k)
  BY <1>7, <1>8, Zenon DEF Moves
<1> QED BY <1>7, <1>10, <1>11 DEF past, Moves, AsksForAPrice

\* data_view.py and sma_crossover.py: on every calendar and feed, what the view
\* shows and what the signal decides on a loop day is what they would without
\* the closes of that day, although the feed has them by then.
THEOREM DecisionsUseThePast == MarketSpec => []NoLookAhead
<1>1. ASSUME MarketInv PROVE NoLookAhead
  <2> SUFFICES ASSUME NEW k \in Tickers
               PROVE  /\ LastValidDay(feed, holidays, k, Today) = LastValidDay(Past(feed), holidays, k, Today)
                      /\ Reference(feed, k) = Reference(Past(feed), k)
                      /\ \A s, e \in (NoDay + 1)..End :
                           GetSeries(feed, k, Today, s, e) = GetSeries(Past(feed), k, Today, s, e)
                      /\ \A asOf \in (NoDay + 1)..End :
                           \/ PriceRaises(Today, asOf)
                           \/ PriceDay(feed, holidays, k, asOf) = PriceDay(Past(feed), holidays, k, asOf)
                      /\ AsksForAPrice(feed, k) = AsksForAPrice(Past(feed), k)
                      /\ Moves(feed, k) = Moves(Past(feed), k)
                      /\ Moves(feed, k) => GroupFor(feed, k) = GroupFor(Past(feed), k)
    BY Zenon DEF NoLookAhead
  <2>1. SameReads(feed, Past(feed), k)
    BY <1>1, ViewReadsThePast, Zenon DEF MarketInv, BookInv
  <2>2. /\ AsksForAPrice(feed, k) = AsksForAPrice(Past(feed), k)
        /\ Moves(feed, k) = Moves(Past(feed), k)
        /\ Moves(feed, k) => GroupFor(feed, k) = GroupFor(Past(feed), k)
    BY <1>1, SignalReadsThePast, Zenon DEF MarketInv, BookInv
  <2>3. (NoDay + 1)..End \subseteq Nat
    BY MarketAssumption DEF NoDay
  <2> QED BY <2>1, <2>2, <2>3, Zenon DEF SameReads
<1>2. MarketInv => NoLookAhead
  BY <1>1
<1> QED BY <1>2, MarketInvariant, PTL

-----------------------------------------------------------------------------
(* The loop days are the market days. *)

\* The neighbours of a day, between which there is no other market day.
LEMMA NextDay ==
  ASSUME NEW h, NEW c, c # ALL_CODE, NEW d \in Int, NEW e \in (d + 1)..(d + MaxLookahead),
         IsValidDay(h, c, e)
  PROVE  LET n == NextValidDay(h, c, d)
         IN  /\ n \in Int /\ d < n /\ n <= d + MaxLookahead /\ IsValidDay(h, c, n) /\ n <= e
             /\ \A q \in (d + 1)..(d + MaxLookahead) : IsValidDay(h, c, q) => n <= q
<1> DEFINE found == {q \in (d + 1)..(d + MaxLookahead) : IsValidDay(h, c, q)}
<1>1. MaxLookahead \in Nat
  BY LookaheadAssumption
<1>2. e \in found /\ found \in SUBSET Int /\ \A q \in found : d + 1 <= q /\ q <= d + MaxLookahead
  BY <1>1
<1>3. NextValidDay(h, c, d) = Min(found)
  BY <1>2, Zenon DEF NextValidDay
<1>4. Min(found) \in found /\ \A q \in found : Min(found) <= q
  <2>1. d + 1 \in Int
    OBVIOUS
  <2> HIDE DEF found
  <2> QED BY <1>2, <2>1, LeastInteger, Zenon
<1> DEFINE n == Min(found)
<1>5. n \in Int /\ d + 1 <= n /\ n <= d + MaxLookahead /\ n <= e /\ IsValidDay(h, c, n)
  BY <1>2, <1>4, Zenon
<1>6. \A q \in (d + 1)..(d + MaxLookahead) : IsValidDay(h, c, q) => n <= q
  BY <1>4, Zenon
<1> HIDE DEF found, n
<1>7. d < n
  BY <1>5
<1> QED BY <1>3, <1>5, <1>6, <1>7, Zenon DEF n

LEMMA PrevDay ==
  ASSUME NEW h, NEW c, c # ALL_CODE, NEW d \in Int, NEW e \in (d - MaxLookahead)..(d - 1),
         IsValidDay(h, c, e)
  PROVE  LET p == PrevValidDay(h, c, d)
         IN  /\ p \in Int /\ p < d /\ d - MaxLookahead <= p /\ IsValidDay(h, c, p) /\ e <= p
             /\ \A q \in (d - MaxLookahead)..(d - 1) : IsValidDay(h, c, q) => q <= p
<1> DEFINE found == {q \in (d - MaxLookahead)..(d - 1) : IsValidDay(h, c, q)}
<1>1. MaxLookahead \in Nat
  BY LookaheadAssumption
<1>2. e \in found /\ found \in SUBSET Int /\ \A q \in found : d - MaxLookahead <= q /\ q <= d - 1
  BY <1>1
<1>3. PrevValidDay(h, c, d) = Max(found)
  BY <1>2, Zenon DEF PrevValidDay
<1>4. Max(found) \in found /\ \A q \in found : q <= Max(found)
  <2>1. d - 1 \in Int
    OBVIOUS
  <2> HIDE DEF found
  <2> QED BY <1>2, <2>1, GreatestInteger, Zenon
<1> DEFINE p == Max(found)
<1>5. p \in Int /\ d - MaxLookahead <= p /\ p <= d - 1 /\ e <= p /\ IsValidDay(h, c, p)
  BY <1>2, <1>4, Zenon
<1>6. \A q \in (d - MaxLookahead)..(d - 1) : IsValidDay(h, c, q) => q <= p
  BY <1>4, Zenon
<1> HIDE DEF found, p
<1>7. p < d
  BY <1>5
<1> QED BY <1>3, <1>5, <1>6, <1>7, Zenon DEF p

\* A market day is the next one of its previous one.
LEMMA PrevLeadsBack ==
  ASSUME NEW h, NEW c, NEW d \in Int, IsValidDay(h, c, d), ~PrevRaises(h, c, d)
  PROVE  NextValidDay(h, c, PrevValidDay(h, c, d)) = d
<1>1. CASE c = ALL_CODE
  <2>1. PrevValidDay(h, c, d) = d - 1 /\ NextValidDay(h, c, d - 1) = (d - 1) + 1
    BY <1>1, Zenon DEF NextValidDay, PrevValidDay
  <2>2. NextValidDay(h, c, PrevValidDay(h, c, d)) = (d - 1) + 1
    BY ONLY <2>1
  <2> QED BY <2>2
<1>2. CASE c # ALL_CODE
  <2> DEFINE p == PrevValidDay(h, c, d)
             n == NextValidDay(h, c, p)
  <2>0. MaxLookahead \in Nat /\ \E e \in (d - MaxLookahead)..(d - 1) : IsValidDay(h, c, e)
    BY <1>2, LookaheadAssumption, Zenon DEF PrevRaises
  <2>1. /\ p \in Int /\ p < d /\ d - MaxLookahead <= p
        /\ \A q \in (d - MaxLookahead)..(d - 1) : IsValidDay(h, c, q) => q <= p
    BY <1>2, <2>0, PrevDay, Zenon
  <2> HIDE DEF p
  <2>2. d \in (p + 1)..(p + MaxLookahead)
    BY <2>0, <2>1
  <2>3. n \in Int /\ p < n /\ n <= d /\ IsValidDay(h, c, n)
    BY <1>2, <2>1, <2>2, NextDay, Zenon
  <2> HIDE DEF n
  <2>4. n # d => n \in (d - MaxLookahead)..(d - 1) /\ ~(n <= p)
    BY <2>0, <2>1, <2>3
  <2> QED BY <2>1, <2>3, <2>4, Zenon DEF n, p
<1> QED BY <1>1, <1>2

\* And the previous one of its next one.
LEMMA NextLeadsBack ==
  ASSUME NEW h, NEW c, NEW d \in Int, IsValidDay(h, c, d), ~NextRaises(h, c, d)
  PROVE  PrevValidDay(h, c, NextValidDay(h, c, d)) = d
<1>1. CASE c = ALL_CODE
  <2>1. NextValidDay(h, c, d) = d + 1 /\ PrevValidDay(h, c, d + 1) = (d + 1) - 1
    BY <1>1, Zenon DEF NextValidDay, PrevValidDay
  <2>2. PrevValidDay(h, c, NextValidDay(h, c, d)) = (d + 1) - 1
    BY ONLY <2>1
  <2> QED BY <2>2
<1>2. CASE c # ALL_CODE
  <2> DEFINE n == NextValidDay(h, c, d)
             p == PrevValidDay(h, c, n)
  <2>0. MaxLookahead \in Nat /\ \E e \in (d + 1)..(d + MaxLookahead) : IsValidDay(h, c, e)
    BY <1>2, LookaheadAssumption, Zenon DEF NextRaises
  <2>1. /\ n \in Int /\ d < n /\ n <= d + MaxLookahead
        /\ \A q \in (d + 1)..(d + MaxLookahead) : IsValidDay(h, c, q) => n <= q
    BY <1>2, <2>0, NextDay, Zenon
  <2> HIDE DEF n
  <2>2. d \in (n - MaxLookahead)..(n - 1)
    BY <2>0, <2>1
  <2>3. p \in Int /\ p < n /\ d <= p /\ IsValidDay(h, c, p)
    BY <1>2, <2>1, <2>2, PrevDay, Zenon
  <2> HIDE DEF p
  <2>4. p # d => p \in (d + 1)..(d + MaxLookahead) /\ ~(n <= p)
    BY <2>0, <2>1, <2>3
  <2> QED BY <2>1, <2>3, <2>4, Zenon DEF n, p
<1> QED BY <1>1, <1>2

LEMMA DaysAreMarketDays ==
  ASSUME SimCodes # {}, NEW h
  PROVE  DaysOf(h) = {d \in Start..End : \E c \in SimCodes : IsValidDay(h, c, d)}
<1>1. CASE ALL_CODE \in SimCodes
  BY <1>1, Zenon DEF DaysOf, TradingDays, IsValidDay
<1>2. CASE ALL_CODE \notin SimCodes
  <2>1. \A d : d \in CommonHolidays(h, SimCodes) <=> \A c \in SimCodes : d \in h[c]
    BY Zenon DEF CommonHolidays
  <2>2. \A c \in SimCodes : \A d : IsValidDay(h, c, d) <=> IsBusinessDay(d) /\ d \notin h[c]
    BY <1>2, Zenon DEF IsValidDay
  <2>3. DaysOf(h) = {d \in Start..End : IsBusinessDay(d)} \ CommonHolidays(h, SimCodes)
    BY <1>2, Zenon DEF DaysOf, TradingDays
  <2> QED BY <2>1, <2>2, <2>3, Zenon
<1> QED BY <1>1, <1>2, Zenon

LEMMA LoopDaysAreAll ==
  ASSUME CalendarInv
  PROVE  /\ {trading_days[n] : n \in Days} = DaysOf(holidays)
         /\ \A n \in 1..(NDays - 1) : trading_days[n] < trading_days[n + 1]
<1> DEFINE D == DaysOf(holidays)
           count(d) == Cardinality(UpTo(D, d))
<1>1. D \in SUBSET Nat /\ End \in Nat /\ \A d \in D : d <= End
  BY DaysAreBounded, Zenon
<1>2. \A n \in Days : trading_days[n] \in D /\ count(trading_days[n]) = n
  BY Zenon DEF CalendarInv
<1>3. Cardinality(D) = NDays /\ NDays \in Nat
  BY MarketAssumption, BoundsAssumption DEF CalendarInv, DaysOf
<1> HIDE DEF D
<1>4. ASSUME NEW d \in D, NEW e \in D, count(d) = count(e) PROVE d = e
  <2>1. d \in Nat /\ e \in Nat /\ count(d) \in Nat /\ count(e) \in Nat
    BY <1>1, UpToIsFinite, Zenon
  <2>2. d < e => count(d) < count(e)
    BY <1>1, NthDayIsUnique, Zenon
  <2>3. e < d => count(e) < count(d)
    BY <1>1, NthDayIsUnique, Zenon
  <2> HIDE DEF count
  <2> QED BY <1>4, <2>1, <2>2, <2>3
<1>5. ASSUME NEW d \in D PROVE d \in {trading_days[n] : n \in Days}
  <2>1. count(d) \in Nat /\ count(d) <= Cardinality(D) /\ IsFiniteSet(UpTo(D, d))
    BY <1>1, UpToIsFinite, Zenon
  <2>2. d \in UpTo(D, d)
    <3>1. d <= d
      BY <1>1
    <3> QED BY <3>1, Zenon DEF UpTo
  <2>3. count(d) # 0
    BY <2>1, <2>2, FS_EmptySet, Zenon
  <2>4. count(d) \in Days
    <3> HIDE DEF count
    <3> QED BY <1>3, <2>1, <2>3 DEF Days
  <2>5. trading_days[count(d)] = d
    BY <1>2, <1>4, <2>4, Zenon
  <2> QED BY <2>4, <2>5, Zenon
<1>6. ASSUME NEW n \in 1..(NDays - 1) PROVE trading_days[n] < trading_days[n + 1]
  <2>1. n \in Days /\ n + 1 \in Days /\ n \in Nat /\ ~(n + 1 < n) /\ n + 1 # n
    BY <1>3 DEF Days
  <2> DEFINE d == trading_days[n]
             e == trading_days[n + 1]
  <2>2. d \in D /\ e \in D /\ count(d) = n /\ count(e) = n + 1
    BY <1>2, <2>1, Zenon
  <2>3. d \in Nat /\ e \in Nat
    BY <1>1, <2>2, Zenon
  <2>4. e # d
    BY <2>1, <2>2, Zenon
  <2>5. ~(e < d)
    <3> HIDE DEF d, e
    <3>1. e < d => count(e) < count(d)
      BY <1>1, <2>2, NthDayIsUnique, Zenon
    <3> QED BY <2>1, <2>2, <3>1, Zenon
  <2> HIDE DEF d, e
  <2>6. d < e
    BY <2>3, <2>4, <2>5
  <2> QED BY <2>6 DEF d, e
<1> QED BY <1>2, <1>5, <1>6, Zenon DEF D

\* CalendarProvider.trading_days against is_valid_day, next_valid_day and
\* prev_valid_day: with at least one code the loop runs on the market days, in
\* order, and on no other, and the neighbours of a market day lead back to it.
THEOREM LoopDays ==
  ASSUME SimCodes # {}
  PROVE  MarketSpec => []LoopRunsOnMarketDays
<1>1. ASSUME MarketInv PROVE LoopRunsOnMarketDays
  <2>1. /\ {trading_days[n] : n \in Days} =
             {d \in Start..End : \E c \in SimCodes : IsValidDay(holidays, c, d)}
        /\ \A n \in 1..(NDays - 1) : trading_days[n] < trading_days[n + 1]
    BY <1>1, DaysAreMarketDays, LoopDaysAreAll, Zenon DEF MarketInv
  <2>2. Today \in Int
    <3>1. Today \in Nat
      BY <1>1, TodayIsALoopDay, Zenon DEF MarketInv, BookInv
    <3> HIDE DEF Today
    <3> QED BY <3>1
  <2>3. ASSUME NEW c \in SimCodes, IsValidDay(holidays, c, Today)
        PROVE  /\ \/ PrevRaises(holidays, c, Today)
                  \/ NextValidDay(holidays, c, PrevValidDay(holidays, c, Today)) = Today
               /\ \/ NextRaises(holidays, c, Today)
                  \/ PrevValidDay(holidays, c, NextValidDay(holidays, c, Today)) = Today
    BY <2>2, <2>3, PrevLeadsBack, NextLeadsBack, Zenon
  <2> QED BY <2>1, <2>3, Zenon DEF LoopRunsOnMarketDays
<1>2. MarketInv => LoopRunsOnMarketDays
  BY <1>1
<1> QED BY <1>2, MarketInvariant, PTL
-----------------------------------------------------------------------------
(* The position follows the signal. *)

Watched == {Watchlist[i] : i \in DOMAIN Watchlist}

\* Who holds a ticker in the live book; Holders looks at the T-1 book.
LiveHolders(k) == {s \in active_structures : HasTicker(structures[s].legs, k)}

\* The i-th record of the log is the move of k.
MovesAt(i, k) == Moves(feed, k) /\ action_group_log[i].actions = GroupFor(feed, k)

\* The move of k has been filled and committed, or blocked.
Moved(k) ==
  /\ phase \in {"dispatch", "commit"}
  /\ \E i \in Patch : i < cursor /\ MovesAt(i, k)

\* Every structure is one leg, and no two of the T-1 book are on one ticker.
OneLegEach ==
  /\ \A s \in DOMAIN portfolio_state : Len(portfolio_state[s].legs) = 1
  /\ \A k \in Tickers : \A s, u \in Holders(k) : s = u
  /\ \A s \in active_structures : Len(structures[s].legs) = 1

\* The patch of the day is the moves of the watched tickers, one record each.
PatchIsTheMoves ==
  phase \in {"assemble", "dispatch", "commit"} =>
    /\ \A i \in Patch : \E k \in Watched : MovesAt(i, k)
    /\ \A k \in Watched : Moves(feed, k) => \E i \in Patch : MovesAt(i, k)
    /\ \A i, j \in Patch : action_group_log[i].actions = action_group_log[j].actions => i = j

\* A group is filled when its ticker has a close.
FilledWhenPriced ==
  phase = "commit" => \A k \in Watched : MovesAt(cursor, k) => k \in priced

\* The live book is the T-1 book but for the moves already made.
Follows(k) ==
  IF Moved(k) /\ k \in priced
  THEN IF WantsEntry(feed, k) THEN \E s : LiveHolders(k) = {s} ELSE LiveHolders(k) = {}
  ELSE LiveHolders(k) = Holders(k)

LiveFollows == phase # "aborted" => \A k \in Tickers : Follows(k)

FollowInv == OneLegEach /\ PatchIsTheMoves /\ FilledWhenPriced /\ LiveFollows

\* As long as feed, calendar, day and T-1 book stay, so does what the signal wants.
LEMMA SameMoves ==
  ASSUME UNCHANGED <<feed, holidays, trading_days, day, portfolio_state>>, NEW k
  PROVE  /\ Moves(feed, k)' = Moves(feed, k)
         /\ GroupFor(feed, k)' = GroupFor(feed, k)
         /\ WantsEntry(feed, k)' = WantsEntry(feed, k)
         /\ Holders(k)' = Holders(k)
<1>1. feed' = feed /\ holidays' = holidays /\ Today' = Today /\ portfolio_state' = portfolio_state
  BY DEF Today
<1>2. Holders(k)' = Holders(k)
  BY <1>1 DEF Holders
<1>3. Rows(feed, k)' = Rows(feed, k) /\ Reference(feed, k)' = Reference(feed, k)
  BY <1>1 DEF Rows, Reference
<1>4. IsTradable(k)' = IsTradable(k) /\ HasAverages(feed, k)' = HasAverages(feed, k)
  BY <1>1, <1>3 DEF IsTradable, HasAverages
<1>5. ShortIsAbove(feed, k)' = ShortIsAbove(feed, k)
  BY <1>1, <1>3 DEF ShortIsAbove, TotalOf, Latest
<1>6. WantsEntry(feed, k)' = WantsEntry(feed, k) /\ WantsExit(feed, k)' = WantsExit(feed, k)
  BY <1>1, <1>2, <1>3, <1>4, <1>5, Zenon DEF AsksForAPrice, WantsEntry, WantsExit
<1>7. Entry(feed, k)' = Entry(feed, k)
  BY <1>1, <1>3 DEF Entry
<1>8. FindHolding(k)' = FindHolding(k)
  BY <1>1, <1>2 DEF FindHolding
<1>9. Exit(k)' = Exit(k)
  BY <1>1, <1>8 DEF Exit
<1> QED BY <1>2, <1>6, <1>7, <1>9, Zenon DEF Moves, GroupFor

\* No row of the T-1 book is on two tickers.
LEMMA OneTickerEach ==
  ASSUME TypeOK, OneLegEach, NEW j, NEW k, NEW s, s \in Holders(j), s \in Holders(k)
  PROVE  j = k
<1>1. /\ s \in DOMAIN portfolio_state
      /\ HasTicker(portfolio_state[s].legs, j) /\ HasTicker(portfolio_state[s].legs, k)
  BY Zenon DEF Holders
<1>2. \A i \in DOMAIN portfolio_state[s].legs : i = 1
  <2>1. portfolio_state[s].legs \in Seq(Legs) /\ Len(portfolio_state[s].legs) = 1
    BY <1>1 DEF TypeOK, BookRows, Content, OneLegEach
  <2> QED BY <2>1
<1> QED BY <1>1, <1>2, Zenon DEF HasTicker

\* The groups of two tickers differ.
LEMMA GroupsDiffer ==
  ASSUME TypeOK, OneLegEach, NEW j, NEW k, Moves(feed, j), Moves(feed, k),
         GroupFor(feed, j) = GroupFor(feed, k)
  PROVE  j = k
<1> DEFINE a(i) == IF WantsEntry(feed, i) THEN Entry(feed, i) ELSE Exit(i)
<1>1. a(j) = a(k)
  BY DEF GroupFor
<1>2. \A i : Entry(feed, i).type = "NEW" /\ Exit(i).type = "UNWIND"
  BY DEF Entry, Exit
<1>3. \A i : Entry(feed, i).spec[1][1].ticker = i
  BY DEF Entry
<1>4. CASE WantsEntry(feed, j)
  <2>1. WantsEntry(feed, k)
    <3>1. a(k).type = "NEW"
      BY <1>1, <1>2, <1>4, Zenon
    <3> QED BY <1>2, <3>1
  <2>2. Entry(feed, j) = Entry(feed, k)
    BY <1>1, <1>4, <2>1, Zenon
  <2> QED BY <1>3, <2>2
<1>5. CASE ~WantsEntry(feed, j)
  <2>1. Exit(j) = Exit(k) /\ Holders(j) # {} /\ Holders(k) # {}
    BY <1>1, <1>2, <1>5, Zenon DEF Moves, WantsExit
  <2>2. FindHolding(j) = FindHolding(k)
    <3>1. \A i : Exit(i).structure_id = FindHolding(i)
      BY DEF Exit
    <3> QED BY <2>1, <3>1, Zenon
  <2>3. FindHolding(j) \in Holders(j) /\ FindHolding(j) \in Holders(k)
    BY <2>1, <2>2, HoldingIsFound, Zenon
  <2> QED BY <2>3, OneTickerEach, Zenon
<1> QED BY <1>4, <1>5

\* The signal goes through the watchlist once: each ticker that moves has one record.
LEMMA FollowEmits ==
  ASSUME MarketInv, FollowInv, Signals
  PROVE  PatchIsTheMoves'
<1>1. PICK n \in 0..Len(Watchlist) : \E at \in [1..n -> DOMAIN Watchlist] :
        /\ {at[i] : i \in 1..n} = {i \in DOMAIN Watchlist : Moves(feed, Watchlist[i])}
        /\ \A i, j \in 1..n : i < j => at[i] < at[j]
        /\ Emit([i \in 1..n |-> GroupFor(feed, Watchlist[at[i]])])
  BY Zenon DEF Signals
<1>2. PICK at \in [1..n -> DOMAIN Watchlist] :
        /\ {at[i] : i \in 1..n} = {i \in DOMAIN Watchlist : Moves(feed, Watchlist[i])}
        /\ \A i, j \in 1..n : i < j => at[i] < at[j]
        /\ Emit([i \in 1..n |-> GroupFor(feed, Watchlist[at[i]])])
  BY <1>1, Zenon
<1> DEFINE N == Len(action_group_log)
           patch == [i \in 1..n |-> GroupFor(feed, Watchlist[at[i]])]
           tick(i) == Watchlist[at[i - N]]
<1>3. patch \in Patches
  <2>1. phase = "emit"
    BY Zenon DEF Signals
  <2> QED BY <1>2, <2>1, CrossoverPatch, Zenon
<1>4. /\ \A i \in Patch' : i - N \in 1..n /\ action_group_log'[i].actions = patch[i - N]
      /\ \A j \in 1..n : N + j \in Patch'
      /\ N \in Nat /\ n \in Nat /\ Patch' \subseteq Nat
  <2>1. DOMAIN patch = 1..n /\ n \in Nat
    OBVIOUS
  <2>2. TypeOK /\ Emit(patch)
    BY <1>2 DEF MarketInv, BookInv
  <2> HIDE DEF patch, N
  <2> QED BY <1>3, <2>1, <2>2, EmittedRecords, Zenon DEF N
<1>5. \A i \in Patch' : action_group_log'[i].actions = GroupFor(feed, tick(i))
  BY <1>4
<1>6. \A i \in 1..n : at[i] \in DOMAIN Watchlist /\ Moves(feed, Watchlist[at[i]])
  BY <1>2, Zenon
<1>7. \A i \in Patch' : at[i - N] \in DOMAIN Watchlist /\ tick(i) \in Watched /\ Moves(feed, tick(i))
  <2> HIDE DEF N
  <2> QED BY <1>4, <1>6, Zenon DEF Watched
<1>8. UNCHANGED <<feed, holidays, trading_days, day, portfolio_state>>
  BY <1>2, Zenon DEF Signals, Emit, calendarVars
<1>9. \A k : Moves(feed, k)' = Moves(feed, k) /\ GroupFor(feed, k)' = GroupFor(feed, k)
  BY <1>8, SameMoves, Zenon
<1>10. \A i \in Patch' : \E k \in Watched : MovesAt(i, k)'
  <2> HIDE DEF tick
  <2> QED BY <1>5, <1>7, <1>9, Zenon DEF MovesAt
<1>11. ASSUME NEW k \in Watched, Moves(feed, k)'
       PROVE  \E i \in Patch' : MovesAt(i, k)'
  <2>1. PICK w \in DOMAIN Watchlist : k = Watchlist[w] /\ Moves(feed, Watchlist[w])
    BY <1>9, <1>11, Zenon DEF Watched
  <2>2. PICK j \in 1..n : at[j] = w
    BY <1>2, <2>1, Zenon
  <2>3. N + j \in Patch' /\ (N + j) - N = j
    <3> HIDE DEF N, patch
    <3>1. N \in Nat /\ N + j \in Patch'
      BY <1>4, Zenon
    <3>2. j \in Int
      OBVIOUS
    <3> QED BY <3>1, <3>2
  <2>4. tick(N + j) = k
    BY <2>1, <2>2, <2>3
  <2>5. action_group_log'[N + j].actions = GroupFor(feed, k)
    <3> HIDE DEF tick
    <3> QED BY <1>5, <2>3, <2>4, Zenon
  <2> QED BY <1>9, <1>11, <2>3, <2>5, Zenon DEF MovesAt
<1>12. ASSUME NEW i \in Patch', NEW j \in Patch',
              action_group_log'[i].actions = action_group_log'[j].actions
       PROVE  i = j
  <2>1. tick(i) = tick(j)
    <3> HIDE DEF tick
    <3>1. GroupFor(feed, tick(i)) = GroupFor(feed, tick(j))
      BY <1>5, <1>12, Zenon
    <3> QED BY <1>7, <3>1, GroupsDiffer, Zenon DEF MarketInv, BookInv, FollowInv
  <2>2. at[i - N] = at[j - N]
    <3> HIDE DEF N
    <3> QED BY <1>7, <2>1, MarketAssumption, Zenon
  <2>3. i - N \in 1..n /\ j - N \in 1..n
    BY <1>4, Zenon
  <2>4. \A w \in DOMAIN Watchlist : w \in Nat
    <3>1. Watchlist \in Seq(Tickers)
      BY MarketAssumption, Zenon
    <3> QED BY <3>1
  <2>5. ~(i - N < j - N) /\ ~(j - N < i - N)
    <3>1. i - N < j - N => at[i - N] < at[j - N]
      BY <1>2, <2>3, Zenon
    <3>2. j - N < i - N => at[j - N] < at[i - N]
      BY <1>2, <2>3, Zenon
    <3>3. at[i - N] \in Nat
      BY <1>7, <2>4, Zenon
    <3> HIDE DEF N
    <3> QED BY <2>2, <3>1, <3>2, <3>3
  <2>6. i \in Nat /\ j \in Nat
    BY <1>4, Zenon
  <2> QED BY <1>4, <2>5, <2>6
<1> QED BY <1>10, <1>11, <1>12, Zenon DEF PatchIsTheMoves

\* The group of an entry: one order, of one leg, on a new trade.
LEMMA EntryGroup ==
  ASSUME BookInv, phase \in {"dispatch", "commit"}, cursor <= Len(action_group_log),
         NEW k, CurrentAction = Entry(feed, k)
  PROVE  /\ Opens(CurrentAction) /\ CreatesContent(CurrentAction)
         /\ DOMAIN Current = {1} /\ Len(Current) = 1
         /\ Current[1].structure_id = None
         /\ Len(Current[1].legs) = 1 /\ DOMAIN Current[1].legs = {1}
         /\ Current[1].legs[1].ticker = k
<1>1. Opens(CurrentAction) /\ CreatesContent(CurrentAction)
  BY DEF Entry, Opens, CreatesContent
<1>2. PICK n : CurrentAction.spec = <<<<[ticker |-> k, size |-> n]>>>>
  BY DEF Entry
<1>3. /\ Current = [o \in DOMAIN CurrentAction.spec |->
                     [structure_id |-> None, trade_id |-> CurrentAction.trade_id,
                      legs |-> CurrentAction.spec[o]]]
      /\ DOMAIN Current = 1..Len(Current) /\ Len(Current) \in Nat
  BY <1>1, ContentOrders
<1>4. DOMAIN CurrentAction.spec = {1} /\ CurrentAction.spec[1] = <<[ticker |-> k, size |-> n]>>
  BY <1>2
<1>5. /\ DOMAIN Current = {1} /\ Current[1].structure_id = None
      /\ Current[1].legs = <<[ticker |-> k, size |-> n]>>
  BY <1>3, <1>4
<1>6. Len(Current) = 1
  BY <1>3, <1>5
<1> QED BY <1>1, <1>5, <1>6

\* The group of an exit: one order, which closes the one leg of the one holder.
LEMMA ExitGroup ==
  ASSUME BookInv, OneLegEach, phase \in {"dispatch", "commit"},
         cursor <= Len(action_group_log), NEW k \in Tickers, Holders(k) # {},
         CurrentAction = Exit(k)
  PROVE  LET s == FindHolding(k)
         IN  /\ Closes(CurrentAction) /\ ~CreatesContent(CurrentAction)
             /\ Holders(k) = {s} /\ DOMAIN Current = {s} /\ Targets(Current) = {s}
             /\ s \in active_structures
             /\ \A i \in DOMAIN structures[s].legs : structures[s].legs[i].ticker = k
             /\ DOMAIN Current[s].legs = {1} /\ Current[s].legs[1].ticker = k
<1> DEFINE s == FindHolding(k)
           legs == structures[s].legs
<1>1. s \in Holders(k)
  BY HoldingIsFound, Zenon DEF BookInv
<1>2. Holders(k) = {s}
  <2>1. \A u, v \in Holders(k) : u = v
    BY Zenon DEF OneLegEach
  <2> HIDE DEF s
  <2> QED BY <1>1, <2>1, Zenon
<1>3. /\ Closes(CurrentAction) /\ ~CreatesContent(CurrentAction)
      /\ CurrentAction.structure_id = s
  BY DEF Exit, Closes, CreatesContent
<1>4. s # None /\ s \in DOMAIN portfolio_state /\ HasTicker(portfolio_state[s].legs, k)
  <2>1. s \in DOMAIN portfolio_state /\ HasTicker(portfolio_state[s].legs, k)
    BY <1>1, Zenon DEF Holders
  <2>2. DOMAIN portfolio_state \subseteq Nat \ {0}
    BY DEF BookInv, TypeOK, Opened
  <2> HIDE DEF s
  <2> QED BY <2>1, <2>2 DEF None
<1>5. Addressed(CurrentAction, portfolio_state) = {s}
  BY <1>3, <1>4, Zenon DEF Addressed
<1>6. /\ DOMAIN Current = {s} /\ Targets(Current) = {s}
      /\ ConvertibleAction(CurrentAction, portfolio_state)
      /\ s \in active_structures /\ structures[s] \in Structures
      /\ portfolio_state[s].legs = legs
      /\ Current[s].legs = DeltaLegs(CurrentAction, structures[s])
  <2>1. /\ ConvertibleAction(CurrentAction, portfolio_state)
        /\ DOMAIN Current = {s} /\ Targets(Current) = {s}
    BY <1>3, <1>5, CurrentGroup DEF BookInv
  <2>2. \A u \in DOMAIN Current :
          /\ u \in active_structures /\ structures[u] \in Structures
          /\ portfolio_state[u].legs = structures[u].legs
          /\ Current[u].legs = DeltaLegs(CurrentAction, structures[u])
    BY <1>3, CurrentGroup DEF BookInv
  <2> HIDE DEF s
  <2> QED BY <2>1, <2>2
<1>7. legs \in Content /\ DOMAIN legs = {1}
  <2>1. legs \in Content
    <3> HIDE DEF s
    <3> QED BY <1>6 DEF Structures
  <2>2. Len(legs) = 1
    BY <1>4, <1>6, Zenon DEF OneLegEach
  <2> HIDE DEF legs
  <2> QED BY <2>1, <2>2, ContentFields
<1>8. legs[1].ticker = k
  <2> HIDE DEF legs, s
  <2> QED BY <1>4, <1>6, <1>7 DEF HasTicker
<1>9. legs[1].size # 0 /\ legs[1].size \in Int
  <2>1. HasSize(portfolio_state[s])
    <3> HIDE DEF s
    <3> QED BY <1>3, <1>5, <1>6 DEF ConvertibleAction, Closes, Reduces, Adds, CreatesContent
  <2>2. legs[1].size \in Int
    BY <1>7, ContentFields
  <2> HIDE DEF legs, s
  <2> QED BY <1>6, <1>7, <2>1, <2>2 DEF HasSize
<1>10. DOMAIN Current[s].legs = {1} /\ Current[s].legs[1].ticker = k
  <2>1. ~Adds(CurrentAction) /\ ~Reduces(CurrentAction)
    BY <1>3 DEF Adds, Reduces, Closes
  <2>2. -legs[1].size # 0
    <3> HIDE DEF legs
    <3> QED BY <1>9
  <2>3. DeltaLegs(CurrentAction, structures[s])
          = [i \in {j \in DOMAIN legs : -legs[j].size # 0} |->
               [ticker |-> legs[i].ticker, size |-> -legs[i].size]]
    BY <2>1 DEF DeltaLegs
  <2> HIDE DEF legs, s
  <2>4. {j \in DOMAIN legs : -legs[j].size # 0} = {1}
    BY <1>7, <2>2, Zenon
  <2> QED BY <1>6, <1>8, <2>3, <2>4
<1> QED BY <1>2, <1>3, <1>6, <1>7, <1>8, <1>10, Zenon

\* The watched ticker whose move is at the cursor.
LEMMA CurrentMove ==
  ASSUME MarketInv, FollowInv, phase \in {"dispatch", "commit"},
         cursor <= Len(action_group_log)
  PROVE  /\ cursor \in Patch /\ cursor \in Nat /\ Patch \subseteq Nat
         /\ \E k \in Watched :
              /\ k \in Tickers /\ MovesAt(cursor, k) /\ ~Moved(k)
              /\ \A j : MovesAt(cursor, j) => j = k
              /\ CurrentAction = IF WantsEntry(feed, k) THEN Entry(feed, k) ELSE Exit(k)
<1>1. cursor \in Patch /\ TypeOK
  BY CurrentGroup DEF MarketInv, BookInv
<1>2. cursor \in Nat /\ Patch \subseteq Nat
  BY <1>1 DEF TypeOK, Patch
<1>3. PICK k \in Watched : MovesAt(cursor, k)
  BY <1>1, Zenon DEF FollowInv, PatchIsTheMoves
<1>4. k \in Tickers
  <2>1. Watchlist \in Seq(Tickers)
    BY MarketAssumption, Zenon
  <2>2. PICK i \in DOMAIN Watchlist : k = Watchlist[i]
    BY Zenon DEF Watched
  <2> QED BY <2>1, <2>2
<1>5. ASSUME NEW j, MovesAt(cursor, j) PROVE j = k
  BY <1>1, <1>3, <1>5, GroupsDiffer, Zenon DEF FollowInv, MovesAt
<1>6. ~Moved(k)
  <2> SUFFICES ASSUME NEW i \in Patch, i < cursor, MovesAt(i, k) PROVE FALSE
    BY Zenon DEF Moved
  <2>1. i = cursor
    BY <1>1, <1>3, Zenon DEF FollowInv, PatchIsTheMoves, MovesAt
  <2> QED BY <1>2, <2>1
<1>7. CurrentAction = IF WantsEntry(feed, k) THEN Entry(feed, k) ELSE Exit(k)
  BY <1>3 DEF MovesAt, GroupFor, CurrentAction
<1> QED BY <1>1, <1>2, <1>3, <1>4, <1>5, <1>6, <1>7, Zenon

\* The group at the cursor can be filled exactly when its ticker has a close.
LEMMA MovePriced ==
  ASSUME MarketInv, FollowInv, phase \in {"dispatch", "commit"},
         cursor <= Len(action_group_log), NEW k \in Tickers, MovesAt(cursor, k),
         CurrentAction = IF WantsEntry(feed, k) THEN Entry(feed, k) ELSE Exit(k)
  PROVE  AllAvailable(Current, LiveBook, priced) <=> k \in priced
<1>0. BookInv
  BY DEF MarketInv
<1>1. \E o : /\ DOMAIN Current = {o} /\ DOMAIN Current[o].legs = {1}
             /\ Current[o].legs[1].ticker = k
  <2>1. CASE WantsEntry(feed, k)
    BY <1>0, <2>1, EntryGroup, Zenon
  <2>2. CASE ~WantsEntry(feed, k)
    <3>1. Holders(k) # {}
      BY <2>2, Zenon DEF MovesAt, Moves, WantsExit
    <3>2. OneLegEach /\ CurrentAction = Exit(k)
      BY <2>2, Zenon DEF FollowInv
    <3> QED BY <1>0, <3>1, <3>2, ExitGroup, Zenon
  <2> QED BY <2>1, <2>2
<1>2. \A o \in DOMAIN Current :
        Current[o].structure_id # None => TargetIsLive(Current[o], LiveBook)
  BY <1>0, TargetsAreLive
<1>3. PICK o : /\ DOMAIN Current = {o} /\ DOMAIN Current[o].legs = {1}
                /\ Current[o].legs[1].ticker = k
  BY <1>1, Zenon
<1>4. AllAvailable(Current, LiveBook, priced) <=> Available(Current[o], LiveBook, priced)
  BY <1>3, Zenon DEF AllAvailable
<1>5. Priced(Current[o], priced) <=> k \in priced
  BY <1>3, Zenon DEF Priced
<1>6. Current[o].structure_id # None => TargetIsLive(Current[o], LiveBook)
  BY <1>2, <1>3, Zenon
<1> QED BY <1>4, <1>5, <1>6, Zenon DEF Available

\* As long as the signal's inputs stay and the patch does, so do the moves.
LEMMA PatchKept ==
  ASSUME PatchIsTheMoves, phase \in {"assemble", "dispatch", "commit"},
         UNCHANGED <<feed, holidays, trading_days, day, portfolio_state, first>>,
         Len(action_group_log') = Len(action_group_log),
         \A i \in Patch : action_group_log'[i].actions = action_group_log[i].actions
  PROVE  /\ Patch' = Patch
         /\ \A i \in Patch : \A k : MovesAt(i, k)' <=> MovesAt(i, k)
         /\ \A k : Holders(k)' = Holders(k) /\ (WantsEntry(feed, k)' <=> WantsEntry(feed, k))
         /\ PatchIsTheMoves'
<1>1. Patch' = Patch
  BY DEF Patch
<1>2. \A k : /\ Moves(feed, k)' = Moves(feed, k) /\ GroupFor(feed, k)' = GroupFor(feed, k)
             /\ WantsEntry(feed, k)' = WantsEntry(feed, k) /\ Holders(k)' = Holders(k)
  BY SameMoves, Zenon
<1>3. \A i \in Patch : \A k : MovesAt(i, k)' <=> MovesAt(i, k)
  BY <1>2, Zenon DEF MovesAt
<1>4. PatchIsTheMoves'
  BY <1>1, <1>2, <1>3, Zenon DEF PatchIsTheMoves
<1> QED BY <1>1, <1>2, <1>3, <1>4, Zenon

\* Past the cursor is one record more.
LEMMA MovedNext ==
  ASSUME phase \in {"dispatch", "commit"}, phase' \in {"dispatch", "commit"},
         cursor \in Patch, Patch \subseteq Nat, Patch' = Patch, cursor' = cursor + 1,
         \A i \in Patch : \A k : MovesAt(i, k)' <=> MovesAt(i, k)
  PROVE  \A k : Moved(k)' <=> Moved(k) \/ MovesAt(cursor, k)
<1>1. \A i \in Patch : i < cursor' <=> i < cursor \/ i = cursor
  OBVIOUS
<1> QED BY <1>1, Zenon DEF Moved

LEMMA FollowKept ==
  ASSUME NEW k, Follows(k), priced' = priced, LiveHolders(k)' = LiveHolders(k),
         Holders(k)' = Holders(k), WantsEntry(feed, k)' <=> WantsEntry(feed, k),
         (Moved(k) /\ k \in priced)' <=> Moved(k) /\ k \in priced
  PROVE  Follows(k)'
BY Zenon DEF Follows

\* Execution changes no holder: a group is past the cursor only when it is blocked.
LEMMA ExecuteFollows ==
  ASSUME MarketInv, FollowInv, Execute, UNCHANGED <<feed, holidays, trading_days>>
  PROVE  FollowInv'
<1>1. /\ phase = "dispatch" /\ cursor <= Len(action_group_log)
      /\ UNCHANGED <<day, priced, portfolio_state, first, structures, active_structures>>
  BY Zenon DEF Execute, bookVars
<1>2. /\ Patch' = Patch
      /\ \A i \in Patch : \A k : MovesAt(i, k)' <=> MovesAt(i, k)
      /\ \A k : Holders(k)' = Holders(k) /\ (WantsEntry(feed, k)' <=> WantsEntry(feed, k))
      /\ PatchIsTheMoves'
  <2>1. /\ Len(action_group_log') = Len(action_group_log)
        /\ \A i \in Patch : action_group_log'[i].actions = action_group_log[i].actions
    BY ExecuteKeepsPatch, Zenon DEF MarketInv, BookInv
  <2>2. UNCHANGED <<feed, holidays, trading_days, day, portfolio_state, first>>
    BY <1>1
  <2> QED BY <1>1, <2>1, <2>2, PatchKept, Zenon DEF FollowInv
<1>3. cursor \in Patch /\ cursor \in Nat /\ Patch \subseteq Nat
  BY <1>1, CurrentMove, Zenon
<1>4. PICK k \in Watched :
        /\ k \in Tickers /\ MovesAt(cursor, k) /\ \A j : MovesAt(cursor, j) => j = k
        /\ CurrentAction = IF WantsEntry(feed, k) THEN Entry(feed, k) ELSE Exit(k)
  BY <1>1, CurrentMove, Zenon
<1>5. IF k \in priced THEN phase' = "commit" /\ cursor' = cursor
                      ELSE phase' = "dispatch" /\ cursor' = cursor + 1
  <2>1. AllAvailable(Current, LiveBook, priced) <=> k \in priced
    BY <1>1, <1>4, MovePriced, Zenon
  <2>2. Outcome = "BLOCKED" <=> k \notin priced
    BY <2>1 DEF Outcome
  <2> QED BY <2>2, ExecutedLog, Zenon DEF MarketInv
<1>6. \A j : LiveHolders(j)' = LiveHolders(j)
  BY <1>1 DEF LiveHolders
<1>7. OneLegEach'
  BY <1>1, <1>2, Zenon DEF FollowInv, OneLegEach
<1>8. \A j : (Moved(j) /\ j \in priced)' <=> Moved(j) /\ j \in priced
  <2>1. CASE k \in priced
    <3>1. \A j : Moved(j)' <=> Moved(j)
      BY <1>1, <1>2, <1>5, <2>1, Zenon DEF Moved
    <3> QED BY <1>1, <3>1, Zenon
  <2>2. CASE k \notin priced
    <3>1. \A j : Moved(j)' <=> Moved(j) \/ MovesAt(cursor, j)
      BY <1>1, <1>2, <1>3, <1>5, <2>2, MovedNext, Zenon
    <3> QED BY <1>1, <1>4, <2>2, <3>1, Zenon
  <2> QED BY <2>1, <2>2
<1>9. LiveFollows'
  <2> SUFFICES ASSUME NEW j \in Tickers PROVE Follows(j)'
    BY Zenon DEF LiveFollows
  <2>1. Follows(j)
    BY <1>1, Zenon DEF FollowInv, LiveFollows
  <2> QED BY <1>1, <1>2, <1>6, <1>8, <2>1, FollowKept, Zenon
<1>10. FilledWhenPriced'
  <2> SUFFICES ASSUME phase' = "commit", NEW j, MovesAt(cursor, j)' PROVE j \in priced'
    BY Zenon DEF FilledWhenPriced
  <2>1. k \in priced /\ cursor' = cursor
    BY <1>5
  <2>2. MovesAt(cursor, j)
    BY <1>2, <1>3, <2>1, Zenon
  <2> QED BY <1>1, <1>4, <2>1, <2>2, Zenon
<1> QED BY <1>2, <1>7, <1>9, <1>10, Zenon DEF FollowInv

\* A commit makes the move of one ticker, and no other.
LEMMA CommitFollows ==
  ASSUME MarketInv, FollowInv, phase = "commit", CommitDone,
         UNCHANGED <<feed, holidays, trading_days>>,
         NEW k \in Watched, k \in Tickers, MovesAt(cursor, k),
         IF WantsEntry(feed, k) THEN \E s : LiveHolders(k)' = {s} ELSE LiveHolders(k)' = {},
         \A j \in Tickers : j # k => LiveHolders(j)' = LiveHolders(j),
         \A s \in active_structures' : Len(structures'[s].legs) = 1
  PROVE  FollowInv'
<1>1. /\ phase' = "dispatch" /\ cursor' = cursor + 1 /\ action_group_log' = action_group_log
      /\ UNCHANGED <<day, priced, portfolio_state, first>>
  BY DEF CommitDone, logVars
<1>2. cursor <= Len(action_group_log)
  BY DEF MarketInv, BookInv, PlanIsThePatch
<1>3. /\ Patch' = Patch
      /\ \A i \in Patch : \A j : MovesAt(i, j)' <=> MovesAt(i, j)
      /\ \A j : Holders(j)' = Holders(j) /\ (WantsEntry(feed, j)' <=> WantsEntry(feed, j))
      /\ PatchIsTheMoves'
  <2>1. UNCHANGED <<feed, holidays, trading_days, day, portfolio_state, first>>
    BY <1>1
  <2> QED BY <1>1, <2>1, PatchKept, Zenon DEF FollowInv
<1>4. /\ cursor \in Patch /\ Patch \subseteq Nat
      /\ \A j : MovesAt(cursor, j) => j = k
  <2>1. /\ cursor \in Patch /\ Patch \subseteq Nat
        /\ \E i \in Watched : \A j : MovesAt(cursor, j) => j = i
    BY <1>2, CurrentMove, Zenon
  <2> QED BY <2>1, Zenon
<1>5. \A j : Moved(j)' <=> Moved(j) \/ MovesAt(cursor, j)
  BY <1>1, <1>3, <1>4, MovedNext, Zenon
<1>6. k \in priced
  BY Zenon DEF FollowInv, FilledWhenPriced
<1>7. Follows(k)'
  BY <1>1, <1>3, <1>5, <1>6, Zenon DEF Follows
<1>8. ASSUME NEW j \in Tickers, j # k PROVE Follows(j)'
  <2>1. Follows(j) /\ LiveHolders(j)' = LiveHolders(j)
    BY <1>8, Zenon DEF FollowInv, LiveFollows
  <2>2. (Moved(j) /\ j \in priced)' <=> Moved(j) /\ j \in priced
    BY <1>1, <1>4, <1>5, <1>8, Zenon
  <2> QED BY <1>1, <1>3, <2>1, <2>2, FollowKept, Zenon
<1>9. LiveFollows'
  BY <1>7, <1>8, Zenon DEF LiveFollows
<1>10. OneLegEach'
  BY <1>1, <1>3, Zenon DEF FollowInv, OneLegEach
<1>11. FilledWhenPriced'
  BY <1>1, Zenon DEF FilledWhenPriced
<1> QED BY <1>3, <1>9, <1>10, <1>11, Zenon DEF FollowInv

\* An entry: nobody holds the ticker, and one structure is opened on it.
LEMMA OpenFollows ==
  ASSUME MarketInv, FollowInv, CommitOpen, UNCHANGED <<feed, holidays, trading_days>>
  PROVE  FollowInv'
<1> DEFINE new == Len(structures) + 1
<1>1. phase = "commit" /\ CommitDone /\ Opens(CurrentAction)
  BY Zenon DEF CommitOpen
<1>2. cursor <= Len(action_group_log) /\ TypeOK
  BY <1>1 DEF MarketInv, BookInv, PlanIsThePatch
<1>3. PICK k \in Watched :
        /\ k \in Tickers /\ MovesAt(cursor, k) /\ ~Moved(k)
        /\ CurrentAction = IF WantsEntry(feed, k) THEN Entry(feed, k) ELSE Exit(k)
  BY <1>1, <1>2, CurrentMove, Zenon
<1>4. WantsEntry(feed, k) /\ CurrentAction = Entry(feed, k)
  <2>1. ~Opens(Exit(k))
    BY DEF Exit, Opens, CreatesContent
  <2> QED BY <1>1, <1>3, <2>1, Zenon
<1>5. /\ DOMAIN Current = {1} /\ Len(Current) = 1
      /\ Len(Current[1].legs) = 1 /\ DOMAIN Current[1].legs = {1}
      /\ Current[1].legs[1].ticker = k
  BY <1>1, <1>2, <1>4, EntryGroup, Zenon DEF MarketInv
<1>6. /\ Opened' \ Opened = {new} /\ Opened = 1..Len(structures) /\ new \notin Opened
      /\ \A s \in Opened : structures'[s] = structures[s]
      /\ structures'[new].legs = Current[1].legs
      /\ active_structures' = active_structures \cup {new}
      /\ active_structures \subseteq Opened
  <2>1. /\ Len(structures') = Len(structures) + Len(Current)
        /\ \A s \in Opened : structures'[s] = structures[s]
        /\ \A s \in Opened' \ Opened :
             /\ s - Len(structures) \in DOMAIN Current
             /\ structures'[s] = OpenedStructure(OwnerTrade, Current[s - Len(structures)].legs)
        /\ active_structures' = active_structures \cup (Opened' \ Opened)
    BY Opening, Zenon DEF MarketInv
  <2>2. Len(structures) \in Nat /\ active_structures \subseteq Opened
    BY <1>2 DEF TypeOK
  <2>3. Opened' \ Opened = {new} /\ new - Len(structures) = 1 /\ new \notin Opened
    BY <1>5, <2>1, <2>2 DEF Opened
  <2>4. structures'[new] = OpenedStructure(OwnerTrade, Current[1].legs)
    BY <2>1, <2>3
  <2>5. structures'[new].legs = Current[1].legs
    BY <2>4 DEF OpenedStructure
  <2> QED BY <2>1, <2>2, <2>3, <2>5, Zenon DEF Opened
<1> HIDE DEF new
<1>7. LiveHolders(k) = {}
  <2>1. LiveHolders(k) = Holders(k)
    BY <1>1, <1>3 DEF FollowInv, LiveFollows, Follows
  <2> QED BY <1>4, <2>1, Zenon DEF AsksForAPrice, WantsEntry
<1>8. \A j : HasTicker(structures'[new].legs, j) <=> j = k
  BY <1>5, <1>6, Zenon DEF HasTicker
<1>9. \A j : LiveHolders(j)' = {s \in active_structures' : HasTicker(structures'[s].legs, j)}
  BY DEF LiveHolders
<1>10. LiveHolders(k)' = {new}
  <2> SUFFICES ASSUME NEW s \in active_structures' PROVE HasTicker(structures'[s].legs, k) <=> s = new
    BY <1>6, <1>9, Zenon
  <2>1. CASE s = new
    BY <1>8, <2>1, Zenon
  <2>2. CASE s \in active_structures
    <3>1. structures'[s] = structures[s] /\ s # new
      BY <1>6, <2>2, Zenon
    <3>2. ~HasTicker(structures[s].legs, k)
      BY <1>7, <2>2, Zenon DEF LiveHolders
    <3> QED BY <3>1, <3>2, Zenon
  <2> QED BY <1>6, <2>1, <2>2, Zenon
<1>11. ASSUME NEW j \in Tickers, j # k PROVE LiveHolders(j)' = LiveHolders(j)
  <2>1. \A s \in active_structures : structures'[s] = structures[s]
    BY <1>6, Zenon
  <2>2. ~HasTicker(structures'[new].legs, j)
    BY <1>8, <1>11, Zenon
  <2> QED BY <1>6, <1>9, <2>1, <2>2, Zenon DEF LiveHolders
<1>12. \A s \in active_structures' : Len(structures'[s].legs) = 1
  <2>1. \A s \in active_structures : Len(structures[s].legs) = 1
    BY Zenon DEF FollowInv, OneLegEach
  <2>2. \A s \in active_structures : structures'[s] = structures[s]
    BY <1>6, Zenon
  <2>3. Len(structures'[new].legs) = 1
    BY <1>5, <1>6, Zenon
  <2> QED BY <1>6, <2>1, <2>2, <2>3, Zenon
<1> QED BY <1>1, <1>3, <1>4, <1>10, <1>11, <1>12, CommitFollows, Zenon

\* An exit: the one holder of the ticker is closed.
LEMMA CloseFollows ==
  ASSUME MarketInv, FollowInv, CommitStructure, UNCHANGED <<feed, holidays, trading_days>>
  PROVE  FollowInv'
<1>1. phase = "commit" /\ CommitDone /\ ~CreatesContent(CurrentAction)
  BY Zenon DEF CommitStructure
<1>2. cursor <= Len(action_group_log) /\ TypeOK
  BY <1>1 DEF MarketInv, BookInv, PlanIsThePatch
<1>3. PICK k \in Watched :
        /\ k \in Tickers /\ MovesAt(cursor, k) /\ ~Moved(k)
        /\ CurrentAction = IF WantsEntry(feed, k) THEN Entry(feed, k) ELSE Exit(k)
  BY <1>1, <1>2, CurrentMove, Zenon
<1>4. ~WantsEntry(feed, k) /\ CurrentAction = Exit(k) /\ Holders(k) # {}
  <2>1. CreatesContent(Entry(feed, k))
    BY DEF Entry, CreatesContent
  <2>2. ~WantsEntry(feed, k) /\ CurrentAction = Exit(k)
    BY <1>1, <1>3, <2>1, Zenon
  <2> QED BY <1>3, <2>2, Zenon DEF MovesAt, Moves, WantsExit
<1> DEFINE s == FindHolding(k)
<1>5. /\ Closes(CurrentAction) /\ Holders(k) = {s} /\ Targets(Current) = {s}
      /\ \A i \in DOMAIN structures[s].legs : structures[s].legs[i].ticker = k
  BY <1>1, <1>2, <1>3, <1>4, ExitGroup, Zenon DEF MarketInv, FollowInv
<1> HIDE DEF s
<1>6. active_structures' = active_structures \ {s}
  <2>1. FullyClosed = {s}
    BY <1>5, CloseEffect, Zenon DEF MarketInv
  <2> QED BY <2>1, Zenon DEF CommitStructure
<1>7. \A u \in active_structures : u # s => structures'[u] = structures[u]
  <2>1. active_structures \subseteq Opened
    BY <1>2, Zenon DEF TypeOK
  <2> QED BY <1>5, <2>1, Resizing, Zenon DEF MarketInv
<1>8. \A j : LiveHolders(j)' = LiveHolders(j) \ {s}
  BY <1>6, <1>7, Zenon DEF LiveHolders
<1>9. LiveHolders(k)' = {}
  <2>1. LiveHolders(k) = Holders(k)
    BY <1>1, <1>3 DEF FollowInv, LiveFollows, Follows
  <2> QED BY <1>5, <1>8, <2>1, Zenon
<1>10. ASSUME NEW j \in Tickers, j # k PROVE LiveHolders(j)' = LiveHolders(j)
  <2>1. ~HasTicker(structures[s].legs, j)
    BY <1>5, <1>10, Zenon DEF HasTicker
  <2> QED BY <1>8, <2>1, Zenon DEF LiveHolders
<1>11. \A u \in active_structures' : Len(structures'[u].legs) = 1
  BY <1>6, <1>7, Zenon DEF FollowInv, OneLegEach
<1> QED BY <1>1, <1>3, <1>4, <1>9, <1>10, <1>11, CommitFollows, Zenon

\* At the end of the day the T-1 book is the live one.
LEMMA BookIsTaken ==
  ASSUME EndDay
  PROVE  /\ phase = "dispatch" /\ cursor > Len(action_group_log) /\ phase' \in {"mark", "done"}
         /\ UNCHANGED <<structures, active_structures>>
         /\ DOMAIN portfolio_state' = active_structures
         /\ \A s \in active_structures : portfolio_state'[s].legs = structures[s].legs
         /\ \A k : Holders(k)' = LiveHolders(k) /\ LiveHolders(k)' = LiveHolders(k)
<1>1. /\ phase = "dispatch" /\ cursor > Len(action_group_log) /\ portfolio_state' = LiveBook
      /\ phase' \in {"mark", "done"} /\ UNCHANGED <<structures, active_structures>>
  BY DEF EndDay, Snapshot, bookVars
<1>2. /\ DOMAIN portfolio_state' = active_structures
      /\ \A s \in active_structures : portfolio_state'[s].legs = structures[s].legs
  BY <1>1 DEF LiveBook
<1>3. \A k : LiveHolders(k)' = LiveHolders(k)
  BY <1>1 DEF LiveHolders
<1>4. \A k : Holders(k)' = LiveHolders(k)
  <2>1. \A k : Holders(k)' = {s \in DOMAIN portfolio_state' : HasTicker(portfolio_state'[s].legs, k)}
    BY DEF Holders
  <2> QED BY <1>2, <2>1, Zenon DEF LiveHolders
<1> QED BY <1>1, <1>2, <1>3, <1>4, Zenon

LEMMA EndDayFollows ==
  ASSUME FollowInv, EndDay
  PROVE  FollowInv'
<1>1. /\ phase = "dispatch" /\ phase' \in {"mark", "done"}
      /\ UNCHANGED <<structures, active_structures>>
      /\ DOMAIN portfolio_state' = active_structures
      /\ \A s \in active_structures : portfolio_state'[s].legs = structures[s].legs
      /\ \A k : Holders(k)' = LiveHolders(k) /\ LiveHolders(k)' = LiveHolders(k)
  BY BookIsTaken, Zenon
<1>2. ASSUME NEW k \in Tickers, NEW s \in LiveHolders(k), NEW u \in LiveHolders(k) PROVE s = u
  <2>1. Follows(k)
    BY <1>1 DEF FollowInv, LiveFollows
  <2>2. LiveHolders(k) = {} \/ (\E r : LiveHolders(k) = {r}) \/ LiveHolders(k) = Holders(k)
    BY <2>1, Zenon DEF Follows
  <2>3. \A v, w \in Holders(k) : v = w
    BY Zenon DEF FollowInv, OneLegEach
  <2>4. CASE \E r : LiveHolders(k) = {r}
    <3> PICK r : LiveHolders(k) = {r}
      BY <2>4
    <3> QED OBVIOUS
  <2> QED BY <2>2, <2>3, <2>4
<1>3. OneLegEach'
  <2>1. \A s \in active_structures : Len(structures[s].legs) = 1
    BY Zenon DEF FollowInv, OneLegEach
  <2> QED BY <1>1, <1>2, <2>1, Zenon DEF OneLegEach
<1>4. phase' \notin {"assemble", "dispatch", "commit"}
  BY <1>1
<1>5. \A k : ~Moved(k)'
  BY <1>4, Zenon DEF Moved
<1>6. \A k : Follows(k)'
  BY <1>1, <1>5, Zenon DEF Follows
<1> QED BY <1>3, <1>4, <1>6, Zenon DEF FollowInv, PatchIsTheMoves, FilledWhenPriced, LiveFollows

\* The steps before the first group of a day leave both books alone.
LEMMA FollowsBefore ==
  ASSUME FollowInv, phase # "aborted", UNCHANGED <<portfolio_state, structures, active_structures>>,
         \A k : ~Moved(k) /\ ~Moved(k)'
  PROVE  OneLegEach' /\ LiveFollows'
<1>1. \A k : Holders(k)' = Holders(k) /\ LiveHolders(k)' = LiveHolders(k)
  BY DEF Holders, LiveHolders
<1>2. OneLegEach'
  BY <1>1, Zenon DEF FollowInv, OneLegEach
<1>3. \A k \in Tickers : Follows(k)'
  BY <1>1, Zenon DEF FollowInv, LiveFollows, Follows
<1> QED BY <1>2, <1>3, Zenon DEF LiveFollows

LEMMA MorningFollows ==
  ASSUME MarketInv, FollowInv, Quotes \/ Signals
  PROVE  FollowInv'
<1>1. /\ phase \in {"mark", "emit"} /\ phase' \in {"emit", "assemble"}
      /\ UNCHANGED <<portfolio_state, structures, active_structures>>
  <2>1. CASE Quotes
    BY <2>1, Zenon DEF Quotes, MarkToMarket, bookVars
  <2>2. CASE Signals
    BY <2>2, Zenon DEF Signals, Emit, bookVars
  <2> QED BY <2>1, <2>2
<1>2. \A k : ~Moved(k) /\ ~Moved(k)'
  BY <1>1 DEF Moved
<1>3. OneLegEach' /\ LiveFollows'
  BY <1>1, <1>2, FollowsBefore
<1>4. PatchIsTheMoves'
  <2>1. CASE Quotes
    <3>1. phase' \notin {"assemble", "dispatch", "commit"}
      BY <2>1 DEF Quotes, MarkToMarket
    <3> QED BY <3>1, Zenon DEF PatchIsTheMoves
  <2>2. CASE Signals
    BY <2>2, FollowEmits
  <2> QED BY <2>1, <2>2
<1>5. FilledWhenPriced'
  BY <1>1 DEF FilledWhenPriced
<1> QED BY <1>3, <1>4, <1>5, Zenon DEF FollowInv

LEMMA AssembleFollows ==
  ASSUME MarketInv, FollowInv, Assemble, UNCHANGED <<feed, holidays, trading_days>>
  PROVE  FollowInv'
<1>1. /\ phase = "assemble" /\ phase' = "dispatch" /\ cursor' = first
      /\ action_group_log' = action_group_log
      /\ UNCHANGED <<portfolio_state, structures, active_structures, day, first>>
  BY Zenon DEF Assemble, logVars, bookVars
<1>2. Patch' = Patch /\ PatchIsTheMoves'
  <2>1. UNCHANGED <<feed, holidays, trading_days, day, portfolio_state, first>>
    BY <1>1
  <2> QED BY <1>1, <2>1, PatchKept, Zenon DEF FollowInv
<1>3. \A k : ~Moved(k)
  BY <1>1 DEF Moved
<1>4. \A k : ~Moved(k)'
  <2>1. \A i \in Patch' : ~(i < cursor')
    BY <1>1, <1>2 DEF Patch, MarketInv, BookInv, TypeOK
  <2> QED BY <2>1, Zenon DEF Moved
<1>5. OneLegEach' /\ LiveFollows'
  BY <1>1, <1>3, <1>4, FollowsBefore
<1>6. FilledWhenPriced'
  BY <1>1 DEF FilledWhenPriced
<1> QED BY <1>2, <1>5, <1>6, Zenon DEF FollowInv

LEMMA RaisingFollows ==
  ASSUME FollowInv, \/ SignalRaises \/ ConversionRaises \/ DuplicateRaises
                    \/ TripwireFires \/ ExtendRaises
  PROVE  FollowInv'
<1>1. phase' = "aborted" /\ UNCHANGED <<portfolio_state, structures, active_structures>>
  BY Zenon DEF SignalRaises, ConversionRaises, DuplicateRaises, TripwireFires, ExtendRaises,
     Raise, bookVars
<1>2. \A k : Holders(k)' = Holders(k)
  BY <1>1 DEF Holders
<1>3. OneLegEach'
  BY <1>1, <1>2, Zenon DEF FollowInv, OneLegEach
<1>4. PatchIsTheMoves' /\ FilledWhenPriced' /\ LiveFollows'
  BY <1>1 DEF PatchIsTheMoves, FilledWhenPriced, LiveFollows
<1> QED BY <1>3, <1>4, Zenon DEF FollowInv

\* The crossover extends no trade.
LEMMA NoExtension == ASSUME MarketInv, FollowInv, phase = "commit" PROVE ~Extends(CurrentAction)
<1>1. cursor <= Len(action_group_log)
  BY DEF MarketInv, BookInv, PlanIsThePatch
<1>2. \E k : CurrentAction = IF WantsEntry(feed, k) THEN Entry(feed, k) ELSE Exit(k)
  BY <1>1, CurrentMove, Zenon
<1>3. \A k : ~Extends(Entry(feed, k)) /\ ~Extends(Exit(k))
  BY DEF Entry, Exit, Extends, CreatesContent
<1> QED BY <1>2, <1>3, Zenon

LEMMA StandingFollows == ASSUME FollowInv, UNCHANGED marketVars PROVE FollowInv'
<1>1. /\ UNCHANGED <<feed, holidays, trading_days, day, portfolio_state>>
      /\ UNCHANGED <<phase, priced, first, cursor, action_group_log, structures, active_structures>>
  BY DEF marketVars, calendarVars, vars, loopVars, planVars, logVars, bookVars
<1>2. \A k : /\ Moves(feed, k)' = Moves(feed, k) /\ GroupFor(feed, k)' = GroupFor(feed, k)
             /\ WantsEntry(feed, k)' = WantsEntry(feed, k) /\ Holders(k)' = Holders(k)
  BY <1>1, SameMoves, Zenon
<1>3. Patch' = Patch /\ \A k : LiveHolders(k)' = LiveHolders(k)
  BY <1>1 DEF Patch, LiveHolders
<1>4. \A i, k : MovesAt(i, k)' <=> MovesAt(i, k)
  BY <1>1, <1>2, Zenon DEF MovesAt
<1>5. \A k : Moved(k)' <=> Moved(k)
  BY <1>1, <1>3, <1>4, Zenon DEF Moved
<1>6. OneLegEach'
  BY <1>1, <1>2, Zenon DEF FollowInv, OneLegEach
<1>7. PatchIsTheMoves'
  BY <1>1, <1>2, <1>3, <1>4, Zenon DEF FollowInv, PatchIsTheMoves
<1>8. FilledWhenPriced'
  BY <1>1, <1>4, Zenon DEF FollowInv, FilledWhenPriced
<1>9. LiveFollows'
  <2> SUFFICES ASSUME phase # "aborted", NEW k \in Tickers PROVE Follows(k)'
    BY <1>1, Zenon DEF LiveFollows
  <2>1. Follows(k)
    BY Zenon DEF FollowInv, LiveFollows
  <2> QED BY <1>1, <1>2, <1>3, <1>5, <2>1, FollowKept, Zenon
<1> QED BY <1>6, <1>7, <1>8, <1>9, Zenon DEF FollowInv

LEMMA FollowInit == MarketInit => FollowInv
<1> SUFFICES ASSUME MarketInit PROVE FollowInv
  OBVIOUS
<1>1. /\ phase = "mark" /\ DOMAIN portfolio_state = {} /\ active_structures = {}
  BY DEF MarketInit, Init
<1>2. \A k : Holders(k) = {} /\ LiveHolders(k) = {} /\ ~Moved(k)
  BY <1>1 DEF Holders, LiveHolders, Moved
<1> QED BY <1>1, <1>2 DEF FollowInv, OneLegEach, PatchIsTheMoves, FilledWhenPriced, LiveFollows,
    Follows

LEMMA FollowStep == MarketInv /\ FollowInv /\ [MarketNext]_marketVars => FollowInv'
<1> SUFFICES ASSUME MarketInv, FollowInv, [MarketNext]_marketVars PROVE FollowInv'
  OBVIOUS
<1>1. CASE Quotes \/ Signals
  BY <1>1, MorningFollows
<1>2. CASE Decides
  <2>1. UNCHANGED <<feed, holidays, trading_days>>
    BY <1>2 DEF Decides, calendarVars
  <2>2. CASE Assemble
    BY <2>1, <2>2, AssembleFollows
  <2>3. CASE ConversionRaises \/ DuplicateRaises \/ TripwireFires \/ ExtendRaises
    BY <2>3, RaisingFollows
  <2>4. CASE Execute
    BY <2>1, <2>4, ExecuteFollows
  <2>5. CASE CommitOpen
    BY <2>1, <2>5, OpenFollows
  <2>6. CASE CommitExtend
    BY <2>6, NoExtension, Zenon DEF CommitExtend
  <2>7. CASE CommitStructure
    BY <2>1, <2>7, CloseFollows
  <2>8. CASE EndDay
    BY <2>8, EndDayFollows
  <2> QED BY <1>2, <2>2, <2>3, <2>4, <2>5, <2>6, <2>7, <2>8, Zenon DEF Decides, Commit
<1>3. CASE UNCHANGED marketVars
  BY <1>3, StandingFollows
<1>4. CASE LookupRaises
  BY <1>4, RaisingFollows, Zenon DEF LookupRaises
<1> QED BY <1>1, <1>2, <1>3, <1>4, Zenon DEF MarketNext, MarketStep

\* At the end of a day every move of the patch has been made or blocked.
LEMMA AllMoved ==
  ASSUME MarketInv, FollowInv, phase = "dispatch", cursor > Len(action_group_log),
         NEW k \in Watched
  PROVE  Moved(k) <=> Moves(feed, k)
<1>1. \A i \in Patch : i < cursor
  BY DEF Patch, MarketInv, BookInv, TypeOK
<1>2. Moves(feed, k) => \E i \in Patch : MovesAt(i, k)
  BY Zenon DEF FollowInv, PatchIsTheMoves
<1> QED BY <1>1, <1>2, Zenon DEF Moved, MovesAt

\* sma_crossover.py against backtest_engine.py: on every market, at the end of a
\* day a watched ticker is held, in one structure, exactly when its averages say
\* so, provided it can be traded and sized; otherwise its position stays.
THEOREM PositionFollows == MarketSpec => BookFollowsTheSignal
<1> DEFINE Tomorrow(k) ==
             LET up      == ShortIsAbove(feed, k)
                 sizable == Reference(feed, k) # NoDay /\ feed[k][Reference(feed, k)] > 0
             IN  IF IsTradable(k) /\ k \in priced /\ HasAverages(feed, k)
                    /\ (up => sizable \/ Holders(k) # {})
                 THEN Cardinality(Holders(k)') = IF up THEN 1 ELSE 0
                 ELSE Holders(k)' = Holders(k)
<1>1. ASSUME MarketInv, FollowInv, EndDay, NEW k \in Watched, k \in Tickers PROVE Tomorrow(k)
  <2> DEFINE up == ShortIsAbove(feed, k)
             sizable == Reference(feed, k) # NoDay /\ feed[k][Reference(feed, k)] > 0
  <2>1. /\ phase = "dispatch" /\ cursor > Len(action_group_log)
        /\ Holders(k)' = LiveHolders(k)
    BY <1>1, BookIsTaken, Zenon
  <2>2. Moved(k) <=> Moves(feed, k)
    BY <1>1, <2>1, AllMoved, Zenon
  <2>3. IF Moves(feed, k) /\ k \in priced
        THEN IF WantsEntry(feed, k) THEN \E s : LiveHolders(k) = {s} ELSE LiveHolders(k) = {}
        ELSE LiveHolders(k) = Holders(k)
    <3>1. Follows(k)
      BY <1>1, <2>1 DEF FollowInv, LiveFollows
    <3> QED BY <2>2, <3>1, Zenon DEF Follows
  <2>4. Holders(k) # {} => \E s : Holders(k) = {s}
    BY <1>1, Zenon DEF FollowInv, OneLegEach
  <2>5. /\ WantsEntry(feed, k) <=> /\ IsTradable(k) /\ HasAverages(feed, k)
                                   /\ up /\ Holders(k) = {} /\ sizable
        /\ WantsExit(feed, k) <=> /\ IsTradable(k) /\ HasAverages(feed, k)
                                  /\ ~up /\ Holders(k) # {}
        /\ Moves(feed, k) <=> WantsEntry(feed, k) \/ WantsExit(feed, k)
    BY Zenon DEF AsksForAPrice, WantsEntry, WantsExit, Moves
  <2> HIDE DEF up, sizable
  <2>6. CASE IsTradable(k) /\ k \in priced /\ HasAverages(feed, k) /\ (up => sizable \/ Holders(k) # {})
    <3>1. IF up THEN \E s : LiveHolders(k) = {s} ELSE LiveHolders(k) = {}
      BY <2>3, <2>4, <2>5, <2>6, Zenon
    <3>2. \A s : Cardinality({s}) = 1
      BY FS_Singleton, Zenon
    <3>3. Cardinality({}) = 0
      BY FS_EmptySet, Zenon
    <3>4. Cardinality(LiveHolders(k)) = IF up THEN 1 ELSE 0
      BY <3>1, <3>2, <3>3, Zenon
    <3> QED BY <2>1, <2>6, <3>4, Zenon DEF up, sizable
  <2>7. CASE ~(IsTradable(k) /\ k \in priced /\ HasAverages(feed, k) /\ (up => sizable \/ Holders(k) # {}))
    <3>1. LiveHolders(k) = Holders(k)
      BY <2>3, <2>5, <2>7, Zenon
    <3> QED BY <2>1, <2>7, <3>1, Zenon DEF up, sizable
  <2> QED BY <2>6, <2>7
<1>2. ASSUME [MarketNext]_marketVars, phase = "dispatch", phase' \in {"mark", "done"}
      PROVE  EndDay
  <2>1. CASE UNCHANGED marketVars
    BY <1>2, <2>1 DEF marketVars, vars, loopVars
  <2>2. CASE Quotes \/ Signals \/ LookupRaises
    BY <1>2, <2>2 DEF Quotes, MarkToMarket, Signals, LookupRaises, SignalRaises
  <2>3. CASE Assemble \/ Execute
    BY <1>2, <2>3 DEF Assemble, Execute
  <2>4. CASE ConversionRaises \/ DuplicateRaises \/ Commit
    BY <1>2, <2>4, Zenon DEF ConversionRaises, DuplicateRaises, Commit, TripwireFires, CommitOpen,
       CommitExtend, ExtendRaises, CommitStructure
  <2> QED BY <1>2, <2>1, <2>2, <2>3, <2>4, Zenon DEF MarketNext, MarketStep, Decides
<1>3. \A i \in DOMAIN Watchlist : Watchlist[i] \in Watched /\ Watchlist[i] \in Tickers
  <2>1. Watchlist \in Seq(Tickers)
    BY MarketAssumption, Zenon
  <2> QED BY <2>1 DEF Watched
<1>4. MarketInv /\ FollowInv /\ [MarketNext]_marketVars =>
        [phase = "dispatch" /\ phase' \in {"mark", "done"} =>
           \A i \in DOMAIN Watchlist : Tomorrow(Watchlist[i])]_marketVars
  <2> HIDE DEF Tomorrow
  <2> QED BY <1>1, <1>2, <1>3, Zenon
<1>5. BookFollowsTheSignal <=>
        [][phase = "dispatch" /\ phase' \in {"mark", "done"} =>
             \A i \in DOMAIN Watchlist : Tomorrow(Watchlist[i])]_marketVars
  BY DEF BookFollowsTheSignal
<1> HIDE DEF Tomorrow
<1> QED BY <1>4, <1>5, FollowInit, FollowStep, MarketInvariant, PTL DEF MarketSpec
-----------------------------------------------------------------------------
(* Nothing the crossover emits is refused. *)

\* What the integer shares of the model stand for: notional / close, exactly.
ClosesDivideTheNotional ==
  \A k \in Tickers : \A p \in ClosesOf[k] \ {0} : Notional % p = 0

LEMMA ExactQuotient ==
  ASSUME NEW n \in Nat \ {0}, NEW p \in Nat \ {0}, n % p = 0 PROVE n \div p # 0
OBVIOUS

LEMMA SharesAreNotZero ==
  ASSUME ClosesDivideTheNotional, NEW k \in Tickers, NEW p \in ClosesOf[k], p > 0
  PROVE  Notional \div p # 0
<1>1. Notional \in Nat \ {0} /\ p \in Nat \ {0}
  BY MarketAssumption
<1>2. Notional % p = 0
  BY <1>1, Zenon DEF ClosesDivideTheNotional
<1> QED BY <1>1, <1>2, ExactQuotient, Zenon

\* An entry is valid content; an exit addresses a row that has a size.
LEMMA MoveConverts ==
  ASSUME ClosesDivideTheNotional, MarketInv, ReplayInv, FollowInv, phase = "assemble",
         NEW k \in Tickers, Moves(feed, k)
  PROVE  Convertible(GroupFor(feed, k), portfolio_state)
<1> DEFINE a == IF WantsEntry(feed, k) THEN Entry(feed, k) ELSE Exit(k)
<1>1. Len(GroupFor(feed, k)) = 1 /\ GroupFor(feed, k)[1] = a
  BY DEF GroupFor
<1>2. CASE WantsEntry(feed, k)
  <2> DEFINE p == feed[k][Reference(feed, k)]
             n == Notional \div p
  <2>1. n # 0
    <3>1. Reference(feed, k) \in DOMAIN feed[k] /\ p > 0
      BY <1>2, ReferenceIsFresh, Zenon DEF MarketInv, BookInv, WantsEntry
    <3>2. p \in ClosesOf[k]
      BY <3>1, Zenon DEF MarketInv, FeedInv
    <3> HIDE DEF p
    <3> QED BY <3>1, <3>2, SharesAreNotZero, Zenon DEF n
  <2>2. CreatesContent(Entry(feed, k)) /\ Entry(feed, k).trade_id = None
    BY DEF Entry, CreatesContent
  <2>3. Entry(feed, k).spec = <<<<[ticker |-> k, size |-> n]>>>>
    BY DEF Entry
  <2> HIDE DEF n
  <2>4. ValidContent(Entry(feed, k).spec)
    BY <2>1, <2>3 DEF ValidContent
  <2>5. ConvertibleAction(a, portfolio_state)
    BY <1>2, <2>2, <2>4, Zenon DEF ConvertibleAction
  <2> HIDE DEF a
  <2> QED BY <1>1, <2>5 DEF Convertible
<1>3. CASE ~WantsEntry(feed, k)
  <2> DEFINE s == FindHolding(k)
  <2>1. s \in Holders(k) /\ s \in DOMAIN portfolio_state
    <3>1. Holders(k) # {}
      BY <1>3, Zenon DEF Moves, WantsExit
    <3>2. s \in Holders(k)
      BY <3>1, HoldingIsFound, Zenon DEF MarketInv, BookInv
    <3> HIDE DEF s
    <3> QED BY <3>2, Zenon DEF Holders
  <2>2. /\ Closes(Exit(k)) /\ Exit(k).structure_id = s
        /\ Exit(k).trade_id = portfolio_state[s].trade_id
    BY DEF Exit, Closes
  <2> HIDE DEF s
  <2>3. s # None
    BY <2>1 DEF MarketInv, BookInv, TypeOK, Opened, None
  <2>4. /\ s \in active_structures /\ s \in Opened
        /\ portfolio_state[s].legs = structures[s].legs
    <3>1. s \in active_structures /\ LiveBook[s] = portfolio_state[s]
      BY <2>1 DEF MarketInv, BookInv, SnapshotIsCurrent
    <3>2. LiveBook[s].legs = structures[s].legs /\ active_structures \subseteq Opened
      BY <3>1 DEF LiveBook, MarketInv, BookInv, TypeOK
    <3> QED BY <3>1, <3>2, Zenon
  <2>5. HasSize(portfolio_state[s])
    <3>1. PICK i \in DOMAIN portfolio_state[s].legs : portfolio_state[s].legs[i].ticker = k
      BY <2>1, Zenon DEF Holders, HasTicker
    <3>2. structures[s].legs[i].size # 0
      BY <2>4, <3>1, Zenon DEF ReplayInv, Replays
    <3> QED BY <2>4, <3>1, <3>2, Zenon DEF HasSize
  <2>6. Addressed(Exit(k), portfolio_state) = {s}
    BY <2>2, <2>3, Zenon DEF Addressed
  <2>7. Addresses(Exit(k), portfolio_state) /\ Exit(k).trade_id \in TradesIn(portfolio_state)
    BY <2>1, <2>2, Zenon DEF Addresses, TradesIn
  <2>8. ConvertibleAction(a, portfolio_state)
    BY <1>3, <2>2, <2>5, <2>6, <2>7, Zenon DEF ConvertibleAction
  <2> HIDE DEF a
  <2> QED BY <1>1, <2>8 DEF Convertible
<1> QED BY <1>2, <1>3

\* Only an exit targets a structure: the one that holds its ticker.
LEMMA MoveTargets ==
  ASSUME MarketInv, NEW k \in Tickers, Moves(feed, k)
  PROVE  Targets(OrdersOf(GroupFor(feed, k)[1], portfolio_state)) \subseteq Holders(k)
<1> DEFINE a == IF WantsEntry(feed, k) THEN Entry(feed, k) ELSE Exit(k)
           orders == OrdersOf(a, portfolio_state)
<1>1. GroupFor(feed, k)[1] = a
  BY DEF GroupFor
<1>2. CASE WantsEntry(feed, k)
  <2>1. CreatesContent(Entry(feed, k))
    BY DEF Entry, CreatesContent
  <2>2. \A i \in DOMAIN orders : orders[i].structure_id = None
    BY <1>2, <2>1 DEF OrdersOf
  <2>3. Targets(orders) = {}
    <3> HIDE DEF orders
    <3> QED BY <2>2, Zenon DEF Targets
  <2> QED BY <1>1, <2>3, Zenon
<1>3. CASE ~WantsEntry(feed, k)
  <2> DEFINE s == FindHolding(k)
  <2>1. s \in Holders(k)
    <3>1. Holders(k) # {}
      BY <1>3, Zenon DEF Moves, WantsExit
    <3> QED BY <3>1, HoldingIsFound, Zenon DEF MarketInv, BookInv
  <2>2. ~CreatesContent(Exit(k)) /\ Exit(k).structure_id = s
    BY DEF Exit, CreatesContent
  <2> HIDE DEF s
  <2>3. s # None
    <3>1. s \in DOMAIN portfolio_state
      BY <2>1, Zenon DEF Holders
    <3> QED BY <3>1 DEF MarketInv, BookInv, TypeOK, Opened, None
  <2>4. Addressed(Exit(k), portfolio_state) = {s}
    BY <2>2, <2>3, Zenon DEF Addressed
  <2>5. DOMAIN orders = {s} /\ orders[s].structure_id = s
    BY <1>3, <2>2, <2>4 DEF OrdersOf
  <2>6. Targets(orders) \subseteq {s}
    <3> HIDE DEF orders
    <3> QED BY <2>5, Zenon DEF Targets
  <2> QED BY <1>1, <2>1, <2>6, Zenon
<1> QED BY <1>2, <1>3

\* The whole patch converts, and no two groups of it are about one structure.
LEMMA PatchPasses ==
  ASSUME ClosesDivideTheNotional, MarketInv, ReplayInv, FollowInv, phase = "assemble"
  PROVE  PatchConverts /\ NoDuplicateTargets(PatchOrders)
<1>1. /\ \A i \in Patch : \E k \in Watched : MovesAt(i, k)
      /\ \A i, j \in Patch : action_group_log[i].actions = action_group_log[j].actions => i = j
  BY Zenon DEF FollowInv, PatchIsTheMoves
<1>2. \A i \in Patch : \E k \in Tickers :
        Moves(feed, k) /\ action_group_log[i].actions = GroupFor(feed, k)
  <2>1. Watchlist \in Seq(Tickers)
    BY MarketAssumption, Zenon
  <2>2. Watched \subseteq Tickers
    BY <2>1 DEF Watched
  <2> QED BY <1>1, <2>2, Zenon DEF MovesAt
<1>3. PatchConverts
  BY <1>2, MoveConverts, Zenon DEF PatchConverts
<1>4. ASSUME NEW i \in Patch, NEW j \in Patch, i # j
      PROVE  Targets(PatchOrders[i]) \cap Targets(PatchOrders[j]) = {}
  <2>1. PICK k \in Tickers : Moves(feed, k) /\ action_group_log[i].actions = GroupFor(feed, k)
    BY <1>2, Zenon
  <2>2. PICK l \in Tickers : Moves(feed, l) /\ action_group_log[j].actions = GroupFor(feed, l)
    BY <1>2, Zenon
  <2>3. k # l
    BY <1>1, <1>4, <2>1, <2>2, Zenon
  <2>4. Holders(k) \cap Holders(l) = {}
    BY <2>3, OneTickerEach, Zenon DEF MarketInv, BookInv, FollowInv
  <2>5. /\ PatchOrders[i] = OrdersOf(GroupFor(feed, k)[1], portfolio_state)
        /\ PatchOrders[j] = OrdersOf(GroupFor(feed, l)[1], portfolio_state)
    BY <2>1, <2>2, Zenon DEF PatchOrders
  <2>6. Targets(PatchOrders[i]) \subseteq Holders(k) /\ Targets(PatchOrders[j]) \subseteq Holders(l)
    BY <2>1, <2>2, <2>5, MoveTargets, Zenon
  <2> QED BY <2>4, <2>6, Zenon
<1>5. DOMAIN PatchOrders = Patch
  BY Zenon DEF PatchOrders
<1> QED BY <1>3, <1>4, <1>5, Zenon DEF NoDuplicateTargets

LEMMA NothingRaises ==
  ASSUME ClosesDivideTheNotional, MarketInv, ReplayInv, FollowInv, [MarketNext]_marketVars,
         LookaheadReaches, phase # "aborted"
  PROVE  phase' # "aborted"
<1>0. ~LookupRaises
  <2> SUFFICES ASSUME LookupFails PROVE FALSE
    BY Zenon DEF LookupRaises
  <2>1. PICK i \in DOMAIN Watchlist : LastValidDayRaises(holidays, Watchlist[i], Today)
    BY Zenon DEF LookupFails
  <2>2. day \in Days
    BY Zenon DEF MarketInv, BookInv, TypeOK
  <2> QED BY <2>1, <2>2, Zenon DEF LookaheadReaches, Today
<1>1. ~(ConversionRaises \/ DuplicateRaises)
  BY PatchPasses, Zenon DEF ConversionRaises, DuplicateRaises
<1>2. ~TripwireFires
  <2>1. \A s \in active_structures : LegsAreDistinct(structures[s].legs)
    <3> SUFFICES ASSUME NEW s \in active_structures PROVE LegsAreDistinct(structures[s].legs)
      OBVIOUS
    <3>1. structures[s].legs \in Content /\ Len(structures[s].legs) = 1
      <4>1. s \in Opened /\ TypeOK
        BY DEF MarketInv, BookInv, TypeOK
      <4>2. structures[s] \in Structures
        BY <4>1, OpenedRow
      <4> QED BY <4>2 DEF Structures, FollowInv, OneLegEach
    <3>2. DOMAIN structures[s].legs = 1..1
      BY <3>1, ContentFields, Zenon
    <3> QED BY <3>2 DEF LegsAreDistinct
  <2> QED BY <2>1, NoTrip, Zenon DEF MarketInv, BookInv, Plan, TripwireFires
<1>3. ~ExtendRaises
  <2> SUFFICES ASSUME ExtendRaises PROVE FALSE
    OBVIOUS
  <2>1. phase = "commit" /\ Extends(CurrentAction)
    BY Zenon DEF ExtendRaises
  <2> QED BY <2>1, NoExtension, Zenon
<1>4. CASE UNCHANGED marketVars
  BY <1>4 DEF marketVars, vars, loopVars
<1>5. CASE Quotes \/ Signals
  BY <1>5 DEF Quotes, MarkToMarket, Signals, Emit
<1>6. CASE Assemble \/ EndDay
  BY <1>6 DEF Assemble, EndDay
<1>7. CASE Execute
  BY <1>7, ExecutedLog DEF MarketInv
<1>8. CASE CommitOpen \/ CommitExtend \/ CommitStructure
  <2>1. CommitDone
    BY <1>8, Zenon DEF CommitOpen, CommitExtend, CommitStructure
  <2> QED BY <2>1 DEF CommitDone
<1> QED BY <1>0, <1>1, <1>2, <1>3, <1>4, <1>5, <1>6, <1>7, <1>8, Zenon
    DEF MarketNext, MarketStep, Decides, Commit

\* The calendar of a run does not change, nor how far its lookahead reaches.
LEMMA LookaheadKept ==
  ASSUME [MarketNext]_marketVars PROVE LookaheadReaches' <=> LookaheadReaches
<1>1. UNCHANGED <<holidays, trading_days>>
  BY Zenon DEF MarketNext, MarketStep, Quotes, Signals, LookupRaises, Decides, marketVars,
     calendarVars
<1> QED BY <1>1, Zenon DEF LookaheadReaches

\* sma_crossover.py against order_assembly.py, execution.py and the commit
\* preconditions of backtest_engine.py: on every feed, and every calendar on
\* which the lookahead finds the watched tickers a last valid day, the signal
\* does not raise, no patch it emits is refused and no commit of it raises.
THEOREM NothingIsRefused ==
  ASSUME ClosesDivideTheNotional
  PROVE  MarketSpec => [](LookaheadReaches => phase # "aborted")
<1>1. MarketInit => ReplayInv /\ phase # "aborted"
  <2> SUFFICES ASSUME MarketInit PROVE ReplayInv /\ phase # "aborted"
    OBVIOUS
  <2>1. Opened = {} /\ phase = "mark"
    BY DEF MarketInit, Init, Opened
  <2> QED BY <2>1 DEF ReplayInv
<1>2. MarketInv /\ ReplayInv /\ [MarketNext]_marketVars => ReplayInv'
  BY ReplayStep, MarketSteps, Zenon DEF MarketInv
<1>3. /\ MarketInv /\ ReplayInv /\ FollowInv /\ [MarketNext]_marketVars
      /\ LookaheadReaches => phase # "aborted"
      => (LookaheadReaches => phase # "aborted")'
  BY NothingRaises, LookaheadKept
<1> QED BY <1>1, <1>2, <1>3, FollowInit, FollowStep, MarketInvariant, PTL DEF MarketSpec
=============================================================================
