---------------------------- MODULE Ledger_proofs ----------------------------
(***************************************************************************)
(* What reaches the book, for every value of the constants, in one run of  *)
(* the daily loop (run() called again starts the days and the logs over,   *)
(* under the book it left).                                                *)
(*                                                                         *)
(* The loop implements the abstract ledger of module PositionLedger: the   *)
(* initial states are ledger states, a commit is a step of the ledger, and *)
(* everything else - marking, emitting, converting, filling, blocking,     *)
(* raising - is the next day or leaves the ledger alone.                   *)
(*                                                                         *)
(* The execution log explains the book: the signed fills on record add up  *)
(* to the positions held, unless the run has raised.                       *)
(***************************************************************************)
EXTENDS Book_proofs, Dispatch_proofs

\* A row of the mapped book.
LedgerRow(s) ==
  [trade_id |-> structures[s].trade_id, legs |-> structures[s].legs,
   touched |-> LastEventDate(structures[s])]

LEMMA LedgerRows ==
  /\ DOMAIN LedgerBook = active_structures
  /\ \A s \in active_structures : LedgerBook[s] = LedgerRow(s)
BY DEF LedgerBook, LedgerRow

LEMMA LedgerRowsPrimed ==
  LedgerBook' = [s \in active_structures' |-> LedgerRow(s)']
BY DEF LedgerBook, LedgerRow

LEMMA LedgerInit == Init => Ledger!Init
<1> SUFFICES ASSUME Init PROVE Ledger!Init
  OBVIOUS
<1>1. LedgerBook = <<>>
  BY DEF Init, LedgerBook
<1> QED BY <1>1 DEF Init, Ledger!Init

\* What a content commit puts on the book.
LEMMA LedgerAdds ==
  ASSUME BookHistory, CommitOpen \/ CommitExtend
  PROVE  Ledger!Add(OwnerTrade, CurrentAction.spec)
<1> DEFINE spec == CurrentAction.spec
           n == Len(structures)
           added == (n + 1)..(n + Len(spec))
           row(s) == [trade_id |-> OwnerTrade, legs |-> spec[s - n], touched |-> day]
<1>0. BookInv /\ TypeOK /\ n \in Nat
  BY DEF BookHistory, BookInv, TypeOK
<1>1. /\ phase = "commit" /\ CommitDone
      /\ Len(structures') = n + Len(Current)
      /\ \A s \in Opened : structures'[s] = structures[s]
      /\ \A s \in Opened' \ Opened :
           /\ s - n \in DOMAIN Current
           /\ structures'[s] = OpenedStructure(OwnerTrade, Current[s - n].legs)
      /\ active_structures' = active_structures \cup (Opened' \ Opened)
  BY <1>0, Opening
<1>2. CreatesContent(CurrentAction)
  BY DEF CommitOpen, CommitExtend, Opens, Extends
<1>3. /\ spec \in Seq(Content) \ {<<>>} /\ ValidContent(spec)
      /\ Current = [k \in DOMAIN spec |->
           [structure_id |-> None, trade_id |-> CurrentAction.trade_id, legs |-> spec[k]]]
      /\ DOMAIN Current = 1..Len(Current) /\ Len(Current) \in Nat \ {0}
  BY <1>0, <1>1, <1>2, ContentGroup
<1>4. Len(Current) = Len(spec) /\ DOMAIN spec = 1..Len(spec) /\ Len(spec) \in Nat
  <2>1. DOMAIN spec = 1..Len(spec) /\ Len(spec) \in Nat
    BY <1>3
  <2> QED BY <1>3, <2>1
<1>5. Opened' \ Opened = added
  BY <1>0, <1>1, <1>4 DEF Opened
<1>6. \A k \in DOMAIN spec : Ledger!NonZero(spec[k])
  BY <1>3 DEF ValidContent, Ledger!NonZero
<1>7. \A s \in added : LedgerRow(s)' = row(s)
  <2> SUFFICES ASSUME NEW s \in added PROVE LedgerRow(s)' = row(s)
    OBVIOUS
  <2>1. s - n \in DOMAIN Current /\ structures'[s] = OpenedStructure(OwnerTrade, spec[s - n])
    BY <1>1, <1>3, <1>5
  <2>2. LastEventDate(structures[s])' = day
    BY <2>1, OpenedLog DEF LastEventDate
  <2> QED BY <2>1, <2>2, OpenedLog DEF LedgerRow
<1>8. \A s \in active_structures : s \notin added /\ LedgerRow(s)' = LedgerBook[s]
  <2> SUFFICES ASSUME NEW s \in active_structures
               PROVE  s \notin added /\ LedgerRow(s)' = LedgerBook[s]
    OBVIOUS
  <2>1. s \in Opened /\ s \notin added
    BY <1>0, <1>5 DEF TypeOK
  <2>2. structures'[s] = structures[s]
    BY <1>1, <2>1
  <2> QED BY <2>1, <2>2, LedgerRows DEF LedgerRow, LastEventDate
<1>9. LedgerBook' = [s \in DOMAIN LedgerBook \cup added |->
                       IF s \in added THEN row(s) ELSE LedgerBook[s]]
  <2> HIDE DEF row, added
  <2>1. active_structures' = DOMAIN LedgerBook \cup added
    BY <1>1, <1>5, LedgerRows
  <2>2. \A s \in active_structures' :
          LedgerRow(s)' = IF s \in added THEN row(s) ELSE LedgerBook[s]
    BY <1>1, <1>5, <1>7, <1>8
  <2> QED BY <2>1, <2>2, LedgerRowsPrimed
<1>10. day' = day
  BY <1>1 DEF CommitDone
<1> QED BY <1>1, <1>4, <1>6, <1>9, <1>10 DEF Ledger!Add

LEMMA LedgerOpens == ASSUME BookHistory, CommitOpen PROVE Ledger!Open
<1>1. BookInv /\ Opens(CurrentAction) /\ phase = "commit"
  BY DEF BookHistory, CommitOpen
<1>2. OwnerTrade = Len(trade_history) + 1 /\ Len(trade_history') = Len(trade_history) + 1
  BY <1>1, Opening DEF CommitOpen, BookInv, TypeOK
<1>3. CurrentAction.spec \in TradeSpecs
  BY <1>1, ContentGroup, ActionRows DEF Opens
<1> QED BY <1>2, <1>3, LedgerAdds DEF Ledger!Open

LEMMA LedgerExtends == ASSUME BookHistory, CommitExtend PROVE Ledger!Extend
<1>1. BookInv /\ Lifecycle /\ Extends(CurrentAction) /\ phase = "commit"
  BY DEF BookHistory, CommitExtend
<1>2. OwnerTrade \in active_trades /\ trade_history' = trade_history
  BY <1>1, Opening DEF CommitExtend
<1>3. OwnerTrade \in Ledger!LiveTrades
  <2>1. PICK s \in active_structures : structures[s].trade_id = OwnerTrade
    BY <1>1, <1>2 DEF Lifecycle
  <2>2. s \in DOMAIN LedgerBook /\ LedgerBook[s].trade_id = OwnerTrade
    BY <2>1, LedgerRows DEF LedgerRow
  <2> QED BY <2>2 DEF Ledger!LiveTrades
<1>4. PICK legs \in StructureSpecs : CurrentAction.spec = <<legs>>
  BY <1>1, ContentGroup, ActionRows DEF Extends
<1>5. Ledger!Add(OwnerTrade, <<legs>>)
  BY <1>4, LedgerAdds
<1> QED BY <1>2, <1>3, <1>5 DEF Ledger!Extend

\* What a modification targets has not been touched today.
LEMMA LedgerUntouched ==
  ASSUME BookHistory, CommitStructure, runs = 1
  PROVE  Targets(Current) \subseteq Ledger!UntouchedToday
<1>1. BookInv /\ DatesInv
  BY DEF BookHistory
<1>2. /\ phase = "commit" /\ cursor \in cursor..Len(action_group_log)
      /\ \A s \in Targets(Current) : s \in active_structures
  BY <1>1, Resizing
<1>3. \A s \in Targets(Current) : LastEventDate(structures[s]) < day
  BY <1>1, <1>2 DEF DatesInv, Current
<1>4. \A s \in Targets(Current) : LedgerBook[s].touched < day /\ s \in DOMAIN LedgerBook
  BY <1>2, <1>3, LedgerRows DEF LedgerRow
<1> QED BY <1>4 DEF Ledger!UntouchedToday

LEMMA LedgerResizes ==
  ASSUME BookHistory, CommitStructure, ~Closes(CurrentAction), runs = 1
  PROVE  Ledger!Resize
<1>0. BookInv /\ TypeOK
  BY DEF BookHistory, BookInv
<1>1. /\ CommitDone /\ active_structures' = active_structures
      /\ \A u \in Targets(Current) : u \in Opened /\ structures[u] \in Structures
           /\ structures'[u] = Resized(CurrentAction, structures[u])
      /\ \A u \in Opened : u \notin Targets(Current) => structures'[u] = structures[u]
      /\ \A u \in Opened : structures'[u].trade_id = structures[u].trade_id
      /\ active_structures \subseteq Opened
  BY <1>0, Resizing, PartialEffect DEF TypeOK
<1>2. PICK s \in active_structures, n \in Amounts, sign \in {-1, 1} :
        LET leg == structures[s].legs[1]
        IN  /\ Targets(Current) = {s} /\ Len(structures[s].legs) = 1
            /\ Modifiable(structures[s])
            /\ leg \in Legs /\ leg.size > 0 /\ leg.size + sign * n > 0
            /\ structures'[s].legs = <<[leg EXCEPT !.size = leg.size + sign * n]>>
  BY <1>0, PartialEffect
<1> DEFINE row == LedgerBook[s]
           leg == row.legs[1]
           newLegs == <<[leg EXCEPT !.size = leg.size + sign * n]>>
<1>3. row = LedgerRow(s) /\ row.legs = structures[s].legs
  BY LedgerRows DEF LedgerRow
<1>4. LastEventDate(structures[s])' = day
  BY <1>0, <1>1, <1>2, ResizedLog DEF LastEventDate
<1>5. LedgerRow(s)' = [trade_id |-> row.trade_id, legs |-> newLegs, touched |-> day]
  <2>1. structures'[s].legs = newLegs /\ structures'[s].trade_id = structures[s].trade_id
    BY <1>1, <1>2, <1>3
  <2> HIDE DEF newLegs, row
  <2>2. row.trade_id = structures[s].trade_id
    BY <1>3 DEF LedgerRow
  <2> QED BY <1>4, <2>1, <2>2 DEF LedgerRow
<1>6. \A u \in active_structures : u # s => LedgerRow(u)' = LedgerBook[u]
  <2> SUFFICES ASSUME NEW u \in active_structures, u # s
               PROVE  LedgerRow(u)' = LedgerBook[u]
    OBVIOUS
  <2>1. structures'[u] = structures[u]
    BY <1>1, <1>2
  <2> QED BY <2>1, LedgerRows DEF LedgerRow, LastEventDate
<1>7. LedgerBook' = [LedgerBook EXCEPT ![s] =
                       [trade_id |-> row.trade_id, legs |-> newLegs, touched |-> day]]
  <2> DEFINE newRow == [trade_id |-> row.trade_id, legs |-> newLegs, touched |-> day]
  <2>1. LedgerRow(s)' = newRow
    BY <1>5
  <2> HIDE DEF newRow
  <2>2. LedgerBook = [u \in active_structures |-> LedgerBook[u]]
    BY DEF LedgerBook
  <2>3. LedgerBook' = [u \in active_structures |-> IF u = s THEN newRow ELSE LedgerBook[u]]
    <3>1. \A u \in active_structures : LedgerRow(u)' = IF u = s THEN newRow ELSE LedgerBook[u]
      BY <1>6, <2>1
    <3> QED BY <1>1, <3>1, LedgerRowsPrimed
  <2>4. LedgerBook' = [LedgerBook EXCEPT ![s] = newRow]
    BY <2>2, <2>3
  <2> QED BY <2>4 DEF newRow
<1>8. s \in Ledger!UntouchedToday
  <2>1. s \in Targets(Current)
    BY <1>2
  <2> QED BY <2>1, LedgerUntouched
<1>9. /\ Len(row.legs) = 1 /\ leg.size > 0 /\ leg.size + sign * n > 0
  BY <1>2, <1>3
<1>10. /\ day' = day /\ Len(trade_history') = Len(trade_history)
       /\ Len(structures') = Len(structures)
  BY <1>0, <1>1, ExitDates, CommitStructureEffect DEF CommitDone, BookInv, Plan
<1> HIDE DEF row, leg, newLegs
<1> QED BY <1>7, <1>8, <1>9, <1>10 DEF Ledger!Resize, row, leg, newLegs

LEMMA LedgerCloses ==
  ASSUME BookHistory, CommitStructure, Closes(CurrentAction), runs = 1
  PROVE  Ledger!Close
<1>0. BookInv /\ TypeOK
  BY DEF BookHistory, BookInv
<1>1. /\ CommitDone /\ active_structures' = active_structures \ FullyClosed
      /\ \A u \in Opened : u \notin Targets(Current) => structures'[u] = structures[u]
      /\ active_structures \subseteq Opened
  BY <1>0, Resizing DEF TypeOK
<1>2. FullyClosed = Targets(Current) /\ FullyClosed # {}
  BY <1>0, CloseEffect
<1>3. FullyClosed \in SUBSET Ledger!UntouchedToday
  BY <1>2, LedgerUntouched, Zenon
<1>4. \A u \in active_structures' : LedgerRow(u)' = LedgerBook[u]
  <2> SUFFICES ASSUME NEW u \in active_structures' PROVE LedgerRow(u)' = LedgerBook[u]
    OBVIOUS
  <2>1. u \in active_structures /\ structures'[u] = structures[u]
    BY <1>1, <1>2
  <2> QED BY <2>1, LedgerRows DEF LedgerRow, LastEventDate
<1>5. LedgerBook' = [u \in DOMAIN LedgerBook \ FullyClosed |-> LedgerBook[u]]
  BY <1>1, <1>4, LedgerRows, LedgerRowsPrimed
<1>6. /\ day' = day /\ Len(trade_history') = Len(trade_history)
      /\ Len(structures') = Len(structures)
  BY <1>0, <1>1, ExitDates, CommitStructureEffect DEF CommitDone, BookInv, Plan
<1> QED BY <1>2, <1>3, <1>5, <1>6 DEF Ledger!Close

\* Every other step is the next day, or none, of the ledger.
LEMMA LedgerIdles ==
  ASSUME BookHistory, [Next]_vars, UNCHANGED bookVars, runs = 1, runs' = 1
  PROVE  [Ledger!Next]_(Ledger!vars)
<1>0. BookInv /\ TypeOK
  BY DEF BookHistory, BookInv
<1>1. LedgerBook' = LedgerBook
  BY DEF bookVars, LedgerBook, LastEventDate
<1>2. Len(structures') = Len(structures) /\ Len(trade_history') = Len(trade_history)
  BY DEF bookVars
<1>3. day' = day \/ day' = day + 1
  <2>1. ~RunAgain
    BY DEF RunAgain
  <2>2. CASE EndDay
    BY <2>2 DEF EndDay
  <2>3. CASE CommitOpen \/ CommitExtend \/ CommitStructure
    BY <2>3 DEF CommitOpen, CommitExtend, CommitStructure, CommitDone
  <2> QED BY <2>1, <2>2, <2>3
      DEF Next, Step, Commit, MarkToMarket, EmitPatch, Emit, Assemble, SignalRaises, ConversionRaises,
          DuplicateRaises, Execute, TripwireFires, ExtendRaises, Stopped, vars, loopVars
<1> QED BY <1>1, <1>2, <1>3 DEF Ledger!Next, Ledger!NextDay, Ledger!vars

LEMMA LedgerStep ==
  ASSUME BookHistory, [Next]_vars, runs = 1, runs' = 1
  PROVE  [Ledger!Next]_(Ledger!vars)
<1>1. CASE CommitOpen
  BY <1>1, LedgerOpens DEF Ledger!Next
<1>2. CASE CommitExtend
  BY <1>2, LedgerExtends DEF Ledger!Next
<1>3. CASE CommitStructure
  BY <1>3, LedgerResizes, LedgerCloses DEF Ledger!Next
<1>4. CASE UNCHANGED bookVars
  BY <1>4, LedgerIdles
<1> QED BY <1>1, <1>2, <1>3, <1>4, OtherSteps

LEMMA OneRun ==
  ASSUME MaxRuns = 1, BookHistory, BookHistory'
  PROVE  runs = 1 /\ runs' = 1
BY DEF BookHistory, BookInv, TypeOK

\* One run of the loop, over any instruments and content and for any number of
\* days, is a run of the abstract ledger.
THEOREM LoopImplementsLedger == ASSUME MaxRuns = 1 PROVE Spec => ImplementsLedger
<1>1. BookHistory /\ BookHistory' /\ [Next]_vars => [Ledger!Next]_(Ledger!vars)
  BY OneRun, LedgerStep
<1> QED BY <1>1, LedgerInit, BookHistoryInit, BookHistoryStep, PTL
    DEF Spec, ImplementsLedger, Ledger!Spec
-----------------------------------------------------------------------------
(* The signed fills of a sequence of legs. *)

SizesOf(legs) == [i \in DOMAIN legs |-> legs[i].size]
OnTicker(legs, k) == {j \in DOMAIN legs : legs[j].ticker = k}
SizedLegs(legs) ==
  IsFiniteSet(DOMAIN legs) /\ \A i \in DOMAIN legs : legs[i].size \in Int

LEMMA FilledIs ==
  ASSUME NEW legs, NEW k
  PROVE  FilledOf(legs, k) = SumFunctionOnSet(SizesOf(legs), OnTicker(legs, k))
<1> DEFINE f == [i \in OnTicker(legs, k) |-> legs[i].size]
           g == SizesOf(legs)
           S == OnTicker(legs, k)
<1>1. DOMAIN f = S /\ \A i \in S : f[i] = g[i]
  BY DEF OnTicker, SizesOf
<1>2. FilledOf(legs, k) = SumFunction(f)
  BY Zenon DEF FilledOf, OnTicker
<1> HIDE DEF f, g, S
<1>3. SumFunctionOnSet(f, S) = SumFunctionOnSet(g, S)
  BY <1>1, SumEqual, Zenon
<1> QED BY <1>1, <1>2, <1>3, Zenon DEF SumFunction, g, S

LEMMA FilledInt ==
  ASSUME NEW legs, SizedLegs(legs), NEW k
  PROVE  FilledOf(legs, k) \in Int
<1> DEFINE f == SizesOf(legs)
           S == OnTicker(legs, k)
<1>1. \A i \in S : f[i] \in Int
  BY DEF SizedLegs, SizesOf, OnTicker
<1>2. IsFiniteSet(S)
  <2>1. S \in SUBSET DOMAIN legs
    BY DEF OnTicker
  <2> QED BY <2>1, FS_Subset, Zenon DEF SizedLegs
<1> HIDE DEF f, S
<1>3. SumFunctionOnSet(f, S) \in Int
  BY <1>1, <1>2, SumInt, Zenon
<1> QED BY <1>3, FilledIs, Zenon DEF f, S

LEMMA NothingFilled ==
  ASSUME NEW legs, SizedLegs(legs), \A i \in DOMAIN legs : legs[i].size = 0, NEW k
  PROVE  FilledOf(legs, k) = 0
<1> DEFINE f == SizesOf(legs)
           S == OnTicker(legs, k)
<1>1. \A i \in S : f[i] = 0
  BY DEF SizesOf, OnTicker
<1>2. IsFiniteSet(S)
  <2>1. S \in SUBSET DOMAIN legs
    BY DEF OnTicker
  <2> QED BY <2>1, FS_Subset, Zenon DEF SizedLegs
<1> HIDE DEF f, S
<1>3. SumFunctionOnSet(f, S) = 0
  BY <1>1, <1>2, SumZero, Zenon
<1> QED BY <1>3, FilledIs, Zenon DEF f, S

LEMMA ContentIsSized == ASSUME NEW legs \in Content PROVE SizedLegs(legs)
<1>1. /\ Len(legs) \in Nat /\ DOMAIN legs = 1..Len(legs)
      /\ \A i \in DOMAIN legs : legs[i].size \in Int
  BY ContentFields
<1>2. IsFiniteSet(1..Len(legs))
  BY <1>1, FiniteInterval
<1> QED BY <1>1, <1>2, Zenon DEF SizedLegs

\* The order on a structure is the change of its legs.
LEMMA OrderIsTheChange ==
  ASSUME NEW a \in AnyAction, ~CreatesContent(a), NEW st \in Structures, NEW k
  PROVE  LET order == DeltaLegs(a, st)
         IN  /\ SizedLegs(order)
             /\ FilledOf(Resized(a, st).legs, k) = FilledOf(st.legs, k) + FilledOf(order, k)
<1> DEFINE order == DeltaLegs(a, st)
           new == Resized(a, st).legs
           D == DOMAIN st.legs
           delta(size) == IF Adds(a) THEN a.size ELSE IF Reduces(a) THEN -a.size ELSE -size
           put == [i \in D |-> delta(st.legs[i].size)]
           T == OnTicker(st.legs, k)
           U == OnTicker(order, k)
           f == SizesOf(st.legs)
           h == SizesOf(new)
           g == SizesOf(order)
<1>1. /\ st.legs \in Content /\ SizedLegs(st.legs) /\ a.size \in Int
      /\ IsFiniteSet(D) /\ \A i \in D : st.legs[i].size \in Int
  <2>1. st.legs \in Content /\ a.size \in Int
    BY ActionFields DEF Structures
  <2> QED BY <2>1, ContentIsSized, Zenon DEF SizedLegs
<1>2. \A i \in D : put[i] \in Int
  BY <1>1
<1>3. /\ DOMAIN order = {i \in D : put[i] # 0}
      /\ \A i \in DOMAIN order : order[i].ticker = st.legs[i].ticker /\ order[i].size = put[i]
  BY DEF DeltaLegs
<1>4. /\ DOMAIN new = D
      /\ \A i \in D : new[i].ticker = st.legs[i].ticker /\ new[i].size = st.legs[i].size + put[i]
  <2>1. DOMAIN new = D /\ \A i \in D : new[i].ticker = st.legs[i].ticker
    BY DEF Resized
  <2>2. ASSUME NEW i \in D PROVE new[i].size = st.legs[i].size + put[i]
    <3>1. new[i].size = SignedSize(a, st.legs[i], SizeChanges(a, st)[i])
      BY DEF Resized
    <3>2. SizeChanges(a, st)[i] = IF a.size = None THEN st.legs[i].size ELSE a.size
      BY DEF SizeChanges
    <3>3. Adds(a) => a.size # None
      BY ActionFields DEF None
    <3>4. Adds(a) \/ Reduces(a) \/ Closes(a)
      BY ActionFields, Zenon
    <3>5. (Reduces(a) => a.size # None /\ ~Adds(a)) /\ (Closes(a) => a.size = None /\ ~Adds(a) /\ ~Reduces(a))
      BY DEF Reduces, Closes, Adds
    <3>6. put[i] = delta(st.legs[i].size)
      OBVIOUS
    <3> HIDE DEF new, put
    <3> QED BY <1>1, <3>1, <3>2, <3>3, <3>4, <3>5, <3>6 DEF SignedSize
  <2> QED BY <2>1, <2>2
<1> HIDE DEF order, new, put
<1>5. SizedLegs(order)
  <2>1. DOMAIN order \in SUBSET D
    BY <1>3, Zenon
  <2>2. IsFiniteSet(DOMAIN order)
    BY <1>1, <2>1, FS_Subset, Zenon
  <2> QED BY <1>2, <1>3, <2>2, Zenon DEF SizedLegs
<1>6. T = OnTicker(new, k) /\ T \in SUBSET D /\ U \in SUBSET T /\ IsFiniteSet(T)
  <2>1. T = OnTicker(new, k) /\ T \in SUBSET D /\ U \in SUBSET T
    BY <1>3, <1>4, Zenon DEF OnTicker
  <2> QED BY <1>1, <2>1, FS_Subset, Zenon
<1>7. \A i \in T : f[i] \in Int /\ put[i] \in Int /\ h[i] = f[i] + put[i]
  <2>1. \A i \in D : f[i] = st.legs[i].size /\ h[i] = new[i].size
    BY <1>4, Zenon DEF SizesOf
  <2> QED BY <1>1, <1>2, <1>4, <1>6, <2>1, Zenon
<1>8. /\ \A i \in U : g[i] = put[i] /\ put[i] \in Int
      /\ \A i \in T \ U : put[i] = 0
  <2>1. \A i \in U : i \in DOMAIN order /\ g[i] = order[i].size
    BY Zenon DEF OnTicker, SizesOf
  <2>2. \A i \in T \ U : i \in D /\ i \notin DOMAIN order
    BY <1>3, Zenon DEF OnTicker
  <2> QED BY <1>2, <1>3, <2>1, <2>2, Zenon
<1>9. FilledOf(st.legs, k) = SumFunctionOnSet(f, T) /\ FilledOf(order, k) = SumFunctionOnSet(g, U)
  BY FilledIs, Zenon
<1>10. FilledOf(new, k) = SumFunctionOnSet(h, T)
  BY <1>6, FilledIs, Zenon
<1> HIDE DEF T, U, f, g, h, D
<1>11. SumFunctionOnSet(h, T) = SumFunctionOnSet(f, T) + SumFunctionOnSet(put, T)
  BY <1>6, <1>7, SumPlus
<1>12. SumFunctionOnSet(put, T) = SumFunctionOnSet(put, U)
  BY <1>6, <1>8, SumOfPart
<1>13. SumFunctionOnSet(put, U) = SumFunctionOnSet(g, U)
  BY <1>8, SumEqual, Zenon
<1> QED BY <1>5, <1>9, <1>10, <1>11, <1>12, <1>13, Zenon DEF order, new

-----------------------------------------------------------------------------
(* Fills against positions. *)

LoggedOf(log, k) == [r \in log |-> FilledOf(r.report.fills, k)]
HeldOf(book, k) == [s \in DOMAIN book |-> FilledOf(book[s].legs, k)]

\* The position the group at the cursor is about to take.
OrderedOf(k) == [o \in DOMAIN Current |-> FilledOf(Current[o].legs, k)]
Ordered(k) == SumFunctionOnSet(OrderedOf(k), DOMAIN Current)

\* The fills on record are what is held and, once a group is filled, what its
\* commit is going to add.
FillsInv ==
  /\ IsFiniteSet(execution_log)
  /\ \A r \in execution_log : SizedLegs(r.report.fills)
  /\ phase # "aborted" =>
       \A k \in Tickers :
         LoggedPosition(k) = IF phase = "commit" THEN HeldPosition(k) + Ordered(k)
                             ELSE HeldPosition(k)

LEMMA LoggedIs ==
  ASSUME NEW k
  PROVE  LoggedPosition(k) = SumFunctionOnSet(LoggedOf(execution_log, k), execution_log)
<1>1. DOMAIN LoggedOf(execution_log, k) = execution_log
  BY DEF LoggedOf
<1>2. LoggedPosition(k) = SumFunction(LoggedOf(execution_log, k))
  BY Zenon DEF LoggedPosition, LoggedOf
<1> QED BY <1>1, <1>2, Zenon DEF SumFunction

LEMMA LoggedNext ==
  ASSUME NEW k
  PROVE  LoggedPosition(k)' = SumFunctionOnSet(LoggedOf(execution_log', k), execution_log')
<1>1. DOMAIN LoggedOf(execution_log', k) = execution_log'
  BY DEF LoggedOf
<1>2. LoggedPosition(k)' = SumFunction(LoggedOf(execution_log', k))
  BY Zenon DEF LoggedPosition, LoggedOf
<1> QED BY <1>1, <1>2, Zenon DEF SumFunction

\* The structures that are not live hold nothing, so the position is the sum
\* over every structure ever opened.
LEMMA HeldOver ==
  ASSUME NEW book, IsFiniteSet(DOMAIN book), \A s \in DOMAIN book : SizedLegs(book[s].legs),
         NEW live \in SUBSET DOMAIN book,
         \A s \in DOMAIN book \ live : \A i \in DOMAIN book[s].legs : book[s].legs[i].size = 0,
         NEW k
  PROVE  /\ \A s \in DOMAIN book : HeldOf(book, k)[s] = FilledOf(book[s].legs, k)
         /\ \A s \in DOMAIN book : HeldOf(book, k)[s] \in Int
         /\ SumFunction([s \in live |-> FilledOf(book[s].legs, k)])
              = SumFunctionOnSet(HeldOf(book, k), DOMAIN book)
         /\ SumFunctionOnSet(HeldOf(book, k), DOMAIN book) \in Int
<1> DEFINE f == HeldOf(book, k)
           g == [s \in live |-> FilledOf(book[s].legs, k)]
           D == DOMAIN book
<1>1. \A s \in D : f[s] = FilledOf(book[s].legs, k)
  BY Zenon DEF HeldOf
<1>2. \A s \in D : f[s] \in Int
  BY <1>1, FilledInt, Zenon
<1>3. \A s \in D \ live : f[s] = 0
  BY <1>1, NothingFilled, Zenon
<1>4. DOMAIN g = live /\ \A s \in live : g[s] = f[s]
  BY <1>1
<1> HIDE DEF f, g, D
<1>5. SumFunctionOnSet(g, live) = SumFunctionOnSet(f, live)
  BY <1>4, SumEqual, Zenon
<1>6. SumFunctionOnSet(f, D) = SumFunctionOnSet(f, live)
  <2>1. live \in SUBSET D /\ IsFiniteSet(D) /\ \A s \in live : f[s] \in Int
    BY <1>2, Zenon DEF D
  <2> QED BY <1>3, <2>1, SumOfPart, Zenon
<1>7. SumFunctionOnSet(f, D) \in Int
  <2>1. IsFiniteSet(D)
    BY Zenon DEF D
  <2> QED BY <1>2, <2>1, SumInt, Zenon
<1>8. SumFunction(g) = SumFunctionOnSet(g, live)
  BY <1>4, Zenon DEF SumFunction
<1> QED BY <1>1, <1>2, <1>5, <1>6, <1>7, <1>8, Zenon DEF f, g, D

LEMMA SizedBook ==
  ASSUME NEW book \in Seq(Structures)
  PROVE  /\ Len(book) \in Nat /\ DOMAIN book = 1..Len(book) /\ IsFiniteSet(DOMAIN book)
         /\ \A s \in DOMAIN book : SizedLegs(book[s].legs)
<1>1. /\ Len(book) \in Nat /\ DOMAIN book = 1..Len(book)
      /\ \A s \in DOMAIN book : book[s].legs \in Content
  <2>1. /\ Len(book) \in Nat /\ DOMAIN book = 1..Len(book)
        /\ \A s \in DOMAIN book : book[s] \in Structures
    OBVIOUS
  <2> QED BY <2>1 DEF Structures
<1>2. IsFiniteSet(1..Len(book))
  BY <1>1, FiniteInterval
<1> QED BY <1>1, <1>2, ContentIsSized, Zenon

LEMMA HeldIs ==
  ASSUME TypeOK, ReplayInv, NEW k
  PROVE  /\ \A s \in Opened : HeldOf(structures, k)[s] = FilledOf(structures[s].legs, k)
         /\ \A s \in Opened : HeldOf(structures, k)[s] \in Int
         /\ HeldPosition(k) = SumFunctionOnSet(HeldOf(structures, k), Opened)
         /\ HeldPosition(k) \in Int
<1>1. structures \in Seq(Structures) /\ active_structures \in SUBSET Opened
  BY DEF TypeOK
<1>2. DOMAIN structures = Opened
  BY <1>1, SizedBook DEF Opened
<1>3. \A s \in Opened \ active_structures :
        \A i \in DOMAIN structures[s].legs : structures[s].legs[i].size = 0
  BY Zenon DEF ReplayInv, Replays
<1> QED BY <1>1, <1>2, <1>3, SizedBook, HeldOver, Zenon DEF HeldPosition

LEMMA HeldNext ==
  ASSUME TypeOK', ReplayInv', NEW k
  PROVE  /\ \A s \in Opened' : HeldOf(structures', k)[s] = FilledOf(structures'[s].legs, k)
         /\ \A s \in Opened' : HeldOf(structures', k)[s] \in Int
         /\ HeldPosition(k)' = SumFunctionOnSet(HeldOf(structures', k), Opened')
<1>1. structures' \in Seq(Structures) /\ active_structures' \in SUBSET Opened'
  BY DEF TypeOK
<1>2. DOMAIN structures' = Opened'
  BY <1>1, SizedBook DEF Opened
<1>3. \A s \in Opened' \ active_structures' :
        \A i \in DOMAIN structures'[s].legs : structures'[s].legs[i].size = 0
  BY Zenon DEF ReplayInv, Replays
<1>4. HeldPosition(k)' = SumFunction([s \in active_structures' |-> FilledOf(structures'[s].legs, k)])
  BY Zenon DEF HeldPosition
<1> QED BY <1>1, <1>2, <1>3, <1>4, SizedBook, HeldOver, Zenon

\* Every group has finitely many orders, with sizes.
LEMMA OrdersAreSized ==
  ASSUME BookInv, phase \in {"dispatch", "commit"}, cursor <= Len(action_group_log)
  PROVE  IsFiniteSet(DOMAIN Current) /\ \A o \in DOMAIN Current : SizedLegs(Current[o].legs)
<1>1. CASE CreatesContent(CurrentAction)
  <2>1. /\ Len(Current) \in Nat /\ DOMAIN Current = 1..Len(Current)
        /\ \A o \in DOMAIN Current : Current[o].legs \in Content
    BY <1>1, CurrentGroup DEF BookInv
  <2>2. IsFiniteSet(1..Len(Current))
    BY <2>1, FiniteInterval
  <2> QED BY <2>1, <2>2, ContentIsSized, Zenon
<1>2. CASE ~CreatesContent(CurrentAction)
  <2>1. /\ CurrentAction \in AnyAction
        /\ \A o \in DOMAIN Current :
             /\ o \in Opened /\ structures[o] \in Structures
             /\ Current[o] = [structure_id |-> o, trade_id |-> structures[o].trade_id,
                              legs |-> DeltaLegs(CurrentAction, structures[o])]
    BY <1>2, CurrentGroup DEF BookInv
  <2>2. IsFiniteSet(Opened)
    <3>1. Len(structures) \in Nat
      BY DEF BookInv, TypeOK
    <3> QED BY <3>1, FiniteInterval DEF Opened
  <2>3. IsFiniteSet(DOMAIN Current)
    <3>1. DOMAIN Current \in SUBSET Opened
      BY <2>1, Zenon
    <3> QED BY <2>2, <3>1, FS_Subset, Zenon
  <2>4. ASSUME NEW o \in DOMAIN Current PROVE SizedLegs(Current[o].legs)
    <3>1. Current[o].legs = DeltaLegs(CurrentAction, structures[o])
      BY <2>1
    <3>2. SizedLegs(DeltaLegs(CurrentAction, structures[o]))
      BY <1>2, <2>1, OrderIsTheChange, Zenon
    <3> QED BY <3>1, <3>2, Zenon
  <2> QED BY <2>3, <2>4, Zenon
<1> QED BY <1>1, <1>2, Zenon

\* Execution puts the fills of the group on record, all of them or none.
LEMMA ExecuteFills ==
  ASSUME BookInv, DispatchInv, ReplayInv, FillsInv, Execute
  PROVE  FillsInv'
<1> DEFINE report(o) == Report(o, Current, LiveBook, priced)
           row(o) == [group |-> cursor, order |-> o, date |-> day, report |-> report(o)]
           D == DOMAIN Current
           new == {row(o) : o \in D}
<1>1. /\ execution_log' = execution_log \cup new
      /\ phase = "dispatch" /\ cursor <= Len(action_group_log) /\ order_groups' = order_groups
      /\ UNCHANGED bookVars
  BY Zenon DEF Execute
<1>2. /\ action_group_log[cursor].date = day /\ ~action_group_log[cursor].finalized
  <2>1. cursor >= first /\ cursor \in Nat /\ raised = "nothing"
    BY <1>1 DEF BookInv, PlanIsThePatch, TypeOK, DispatchInv, RaisedInv
  <2> QED BY <1>1, <2>1, ExecutedLog DEF DispatchInv, RecordDates, DecidedInv, Decided
<1>3. \A r \in execution_log : r.group # cursor
  BY <1>2, Zenon DEF DispatchInv, ReportsInv
<1>4. IsFiniteSet(D) /\ \A o \in D : SizedLegs(Current[o].legs)
  BY <1>1, OrdersAreSized
<1>5. \A o \in D : row(o).group = cursor /\ row(o).order = o /\ row(o).report = report(o)
  OBVIOUS
<1>6. \A o \in D : report(o).fills = IF Outcome = "FILLED" THEN Current[o].legs ELSE <<>>
  BY DEF Report, Outcome
<1>7. IF Outcome = "FILLED" THEN phase' = "commit" /\ cursor' = cursor
                            ELSE phase' = "dispatch"
  BY ExecutedLog DEF Outcome
<1>8. SizedLegs(<<>>) /\ DOMAIN <<>> = {}
  BY FS_EmptySet DEF SizedLegs
<1>9. \A o \in D : SizedLegs(report(o).fills)
  BY <1>4, <1>6, <1>8, Zenon
<1> DEFINE p == [o \in D |-> row(o)]
<1>10. \A o \in D : p[o] = row(o)
  OBVIOUS
<1>16. \A o \in D : p[o].group = cursor /\ p[o].order = o /\ p[o].report = report(o)
  <2> HIDE DEF p, row, report
  <2> QED BY <1>5, <1>10, Zenon
<1>17. new = {p[o] : o \in D}
  BY <1>10
<1> HIDE DEF row, report, p, new
<1>11. /\ new \cap execution_log = {}
       /\ \A o \in D : p[o] \in new
       /\ \A r \in new : \E o \in D : p[o] = r
       /\ \A o, q \in D : p[o] = p[q] => o = q
  <2> HIDE DEF D
  <2>1. \A o \in D : p[o].group = cursor /\ p[o].order = o
    BY <1>16
  <2>2. \A o, q \in D : p[o] = p[q] => o = q
    BY <2>1
  <2>3. (\A o \in D : p[o] \in new) /\ \A r \in new : \E o \in D : p[o] = r
    BY <1>17
  <2>4. new \cap execution_log = {}
    BY <1>3, <2>1, <2>3
  <2> QED BY <2>2, <2>3, <2>4
<1>12. IsFiniteSet(new)
  <2> HIDE DEF D
  <2> QED BY <1>4, <1>17, FiniteImage, Zenon
<1>13. /\ IsFiniteSet(execution_log) /\ IsFiniteSet(execution_log')
       /\ \A r \in execution_log : SizedLegs(r.report.fills)
       /\ \A r \in new : SizedLegs(r.report.fills)
  <2>1. \A r \in new : SizedLegs(r.report.fills)
    <3> SUFFICES ASSUME NEW r \in new PROVE SizedLegs(r.report.fills)
      OBVIOUS
    <3>1. PICK o \in D : p[o] = r
      BY <1>11, Zenon
    <3>2. p[o].report = report(o) /\ SizedLegs(report(o).fills)
      BY <1>9, <1>16
    <3> QED BY <3>1, <3>2
  <2> QED BY <1>1, <1>12, <2>1, FS_Union, Zenon DEF FillsInv
<1>14. \A r \in execution_log' : SizedLegs(r.report.fills)
  BY <1>1, <1>13, Zenon
<1>15. ASSUME NEW k \in Tickers
       PROVE  LoggedPosition(k)'
                = IF phase' = "commit" THEN HeldPosition(k)' + Ordered(k)' ELSE HeldPosition(k)'
  <2> DEFINE f == LoggedOf(execution_log, k)
             h == LoggedOf(execution_log', k)
             g == [o \in D |-> FilledOf(report(o).fills, k)]
             old == execution_log
  <2>1. /\ LoggedPosition(k) = SumFunctionOnSet(f, old)
        /\ LoggedPosition(k)' = SumFunctionOnSet(h, old \cup new)
    BY <1>1, LoggedIs, LoggedNext, Zenon
  <2>2. /\ \A r \in old : f[r] = h[r]
        /\ \A r \in old \cup new : h[r] = FilledOf(r.report.fills, k)
    BY <1>1, Zenon DEF LoggedOf
  <2>3. \A r \in old \cup new : h[r] \in Int
    BY <1>13, <2>2, FilledInt, Zenon
  <2>4. \A o \in D : g[o] = FilledOf(report(o).fills, k) /\ g[o] \in Int
    BY <1>9, FilledInt, Zenon
  <2>5. \A o \in D : h[p[o]] = g[o]
    BY <1>11, <1>16, <2>2, <2>4, Zenon
  <2> HIDE DEF f, g, h, D
  <2>6. SumFunctionOnSet(h, new) = SumFunctionOnSet(g, D)
    <3>1. (\A o \in D : p[o] \in new) /\ \A r \in new : \E o \in D : p[o] = r
      BY <1>11, Zenon
    <3>2. \A o, q \in D : p[o] = p[q] => o = q
      BY <1>11, Zenon
    <3>3. \A o \in D : g[o] \in Int
      BY <2>4, Zenon
    <3> QED BY <1>4, <1>12, <2>5, <3>1, <3>2, <3>3, SumAlong
  <2>7. SumFunctionOnSet(h, old \cup new) = SumFunctionOnSet(h, old) + SumFunctionOnSet(h, new)
    <3>1. old \cap new = {}
      BY <1>11, Zenon
    <3> HIDE DEF old
    <3> QED BY <1>12, <1>13, <2>3, <3>1, SumUnion, Zenon DEF old
  <2>8. SumFunctionOnSet(h, old) = SumFunctionOnSet(f, old)
    BY <2>2, SumEqual, Zenon
  <2>9. /\ HeldPosition(k)' = HeldPosition(k) /\ HeldPosition(k) \in Int
        /\ LoggedPosition(k) = HeldPosition(k)
    <3>1. LoggedPosition(k) = HeldPosition(k) /\ HeldPosition(k) \in Int
      BY <1>1, HeldIs DEF FillsInv, BookInv
    <3>2. HeldPosition(k)' = HeldPosition(k)
      BY <1>1 DEF HeldPosition, bookVars
    <3> QED BY <3>1, <3>2
  <2>10. CASE Outcome = "FILLED"
    <3>1. Current' = Current /\ phase' = "commit"
      BY <1>1, <1>7, <2>10 DEF Current
    <3>2. \A o \in D : g[o] = OrderedOf(k)[o]
      BY <1>6, <2>4, <2>10, Zenon DEF OrderedOf, D
    <3>3. SumFunctionOnSet(g, D) = Ordered(k)
      BY <3>2, SumEqual, Zenon DEF Ordered, D
    <3>4. Ordered(k)' = Ordered(k)
      BY <3>1 DEF Ordered, OrderedOf
    <3> QED BY <2>1, <2>6, <2>7, <2>8, <2>9, <3>1, <3>3, <3>4
  <2>11. CASE Outcome # "FILLED"
    <3>1. \A o \in D : g[o] = 0
      <4>1. FilledOf(<<>>, k) = 0
        BY <1>8, NothingFilled, Zenon
      <4> QED BY <1>6, <2>4, <2>11, <4>1, Zenon
    <3>2. SumFunctionOnSet(g, D) = 0
      BY <1>4, <3>1, SumZero, Zenon
    <3>3. phase' # "commit"
      BY <1>7, <2>11
    <3> QED BY <2>1, <2>6, <2>7, <2>8, <2>9, <3>2, <3>3
  <2> QED BY <2>10, <2>11
<1> QED BY <1>13, <1>14, <1>15, Zenon DEF FillsInv

\* A commit is due the fills its group put on record, and adds them.
LEMMA CommittedFills ==
  ASSUME BookInv, ReplayInv, FillsInv, phase = "commit", CommitDone,
         \A k \in Tickers : HeldPosition(k)' = HeldPosition(k) + Ordered(k)
  PROVE  FillsInv'
<1>1. execution_log' = execution_log /\ phase' = "dispatch"
  BY DEF CommitDone, logVars
<1>2. \A k \in Tickers : LoggedPosition(k)' = LoggedPosition(k)
  BY <1>1 DEF LoggedPosition
<1>3. \A k \in Tickers : LoggedPosition(k) = HeldPosition(k) + Ordered(k)
  BY DEF FillsInv
<1> QED BY <1>1, <1>2, <1>3 DEF FillsInv

\* _commit_open and _commit_extend put the content of the group on the book.
LEMMA OpeningFills ==
  ASSUME BookInv, ReplayInv, TypeOK', ReplayInv', CommitOpen \/ CommitExtend, NEW k
  PROVE  HeldPosition(k)' = HeldPosition(k) + Ordered(k)
<1> DEFINE n == Len(structures)
           D == DOMAIN Current
           added == Opened' \ Opened
           f == HeldOf(structures, k)
           h == HeldOf(structures', k)
           g == OrderedOf(k)
           p == [o \in D |-> n + o]
<1>1. /\ phase = "commit" /\ Opened \subseteq Opened'
      /\ Len(structures') = n + Len(Current)
      /\ \A s \in Opened : structures'[s] = structures[s]
      /\ \A s \in added : /\ s - n \in D
                          /\ structures'[s].legs = Current[s - n].legs
  BY Opening, OpenedLog
<1>2. /\ n \in Nat /\ D = 1..Len(Current) /\ Len(Current) \in Nat
      /\ \A o \in D : Current[o].legs \in Content
  <2>1. CreatesContent(CurrentAction)
    BY DEF CommitOpen, CommitExtend, Opens, Extends
  <2> QED BY <1>1, <2>1, ContentGroup DEF BookInv, TypeOK
<1>3. IsFiniteSet(Opened) /\ IsFiniteSet(added) /\ IsFiniteSet(D)
  <2>1. IsFiniteSet(1..n) /\ IsFiniteSet(1..Len(Current)) /\ IsFiniteSet(1..Len(structures'))
    BY <1>1, <1>2, FiniteInterval
  <2>2. added \in SUBSET (1..Len(structures'))
    BY DEF Opened
  <2> QED BY <1>2, <2>1, <2>2, FS_Subset, Zenon DEF Opened
<1>4. /\ \A o \in D : p[o] \in added
      /\ \A s \in added : \E o \in D : p[o] = s
      /\ \A o, q \in D : p[o] = p[q] => o = q
  <2>1. \A o \in D : p[o] = n + o
    OBVIOUS
  <2>2. \A s : s \in added <=> s \in Nat /\ s > n /\ s <= n + Len(Current)
    BY <1>1, <1>2 DEF Opened
  <2>3. \A s \in added : s - n \in D /\ n + (s - n) = s
    BY <1>2, <2>2
  <2>4. \A o \in D : n + o \in added
    BY <1>2, <2>2
  <2> HIDE DEF p, added
  <2>5. (\A o \in D : p[o] \in added) /\ \A s \in added : \E o \in D : p[o] = s
    BY <2>1, <2>3, <2>4
  <2>6. \A o, q \in D : p[o] = p[q] => o = q
    BY <1>2, <2>1
  <2> QED BY <2>5, <2>6
<1>5. \A o \in D : g[o] = FilledOf(Current[o].legs, k) /\ g[o] \in Int
  <2>1. \A o \in D : g[o] = FilledOf(Current[o].legs, k)
    BY Zenon DEF OrderedOf
  <2> QED BY <1>2, <2>1, ContentIsSized, FilledInt, Zenon
<1>6. /\ \A s \in Opened : f[s] = FilledOf(structures[s].legs, k)
      /\ HeldPosition(k) = SumFunctionOnSet(f, Opened)
  BY HeldIs, Zenon DEF BookInv
<1>7. /\ \A s \in Opened' : h[s] = FilledOf(structures'[s].legs, k)
      /\ \A s \in Opened' : h[s] \in Int
      /\ HeldPosition(k)' = SumFunctionOnSet(h, Opened')
  BY HeldNext, Zenon
<1>8. \A o \in D : h[p[o]] = g[o]
  <2> SUFFICES ASSUME NEW o \in D PROVE h[p[o]] = g[o]
    OBVIOUS
  <2>1. p[o] - n = o /\ p[o] \in added
    BY <1>2, <1>4
  <2> HIDE DEF p, h, g
  <2>2. structures'[p[o]].legs = Current[o].legs /\ p[o] \in Opened'
    BY <1>1, <2>1
  <2> QED BY <1>5, <1>7, <2>2, Zenon
<1>9. \A s \in Opened : h[s] = f[s]
  BY <1>1, <1>6, <1>7, Zenon
<1>10. Opened' = Opened \cup added /\ Opened \cap added = {}
  BY <1>1
<1> HIDE DEF p, f, g, h, D, added, n
<1>11. SumFunctionOnSet(h, added) = SumFunctionOnSet(g, D)
  <2>1. (\A o \in D : p[o] \in added) /\ \A s \in added : \E o \in D : p[o] = s
    BY <1>4, Zenon
  <2>2. \A o, q \in D : p[o] = p[q] => o = q
    BY <1>4, Zenon
  <2>3. \A o \in D : g[o] \in Int
    BY <1>5, Zenon
  <2> QED BY <1>3, <1>8, <2>1, <2>2, <2>3, SumAlong
<1>12. SumFunctionOnSet(h, Opened \cup added)
         = SumFunctionOnSet(h, Opened) + SumFunctionOnSet(h, added)
  <2>1. \A s \in Opened \cup added : h[s] \in Int
    BY <1>7, <1>10, Zenon
  <2> QED BY <1>3, <1>10, <2>1, SumUnion, Zenon
<1>13. SumFunctionOnSet(h, Opened) = SumFunctionOnSet(f, Opened)
  BY <1>9, SumEqual, Zenon
<1> QED BY <1>6, <1>7, <1>10, <1>11, <1>12, <1>13, Zenon DEF Ordered, g, D

\* _commit_structure changes every leg by what its order says.
LEMMA ResizingFills ==
  ASSUME BookInv, ReplayInv, TypeOK', ReplayInv', CommitStructure, NEW k
  PROVE  HeldPosition(k)' = HeldPosition(k) + Ordered(k)
<1> DEFINE a == CurrentAction
           D == DOMAIN Current
           f == HeldOf(structures, k)
           h == HeldOf(structures', k)
           g == OrderedOf(k)
           put == [s \in Opened |-> IF s \in D THEN g[s] ELSE 0]
<1>1. /\ Opened' = Opened /\ a \in AnyAction /\ ~CreatesContent(a)
      /\ \A s \in Opened : s \notin Targets(Current) => structures'[s] = structures[s]
      /\ \A s \in Targets(Current) : /\ structures[s] \in Structures
                                     /\ structures'[s] = Resized(a, structures[s])
  BY Resizing
<1>2. /\ D = Targets(Current) /\ D \in SUBSET Opened
      /\ \A s \in D : Current[s].legs = DeltaLegs(a, structures[s])
  <2>1. cursor <= Len(action_group_log) /\ phase = "commit"
    BY Resizing DEF CommitStructure, BookInv, PlanIsThePatch, TypeOK
  <2>2. D = Targets(Current) /\ \A s \in D : s \in Opened /\ Current[s] =
          [structure_id |-> s, trade_id |-> structures[s].trade_id,
           legs |-> DeltaLegs(CurrentAction, structures[s])]
    BY <1>1, <2>1, CurrentGroup DEF BookInv
  <2> QED BY <2>2
<1>3. IsFiniteSet(Opened)
  <2>1. Len(structures) \in Nat
    BY DEF BookInv, TypeOK
  <2> QED BY <2>1, FiniteInterval DEF Opened
<1>4. \A s \in Opened : f[s] = FilledOf(structures[s].legs, k) /\ f[s] \in Int
  BY HeldIs, Zenon DEF BookInv
<1>5. \A s \in Opened : h[s] = FilledOf(structures'[s].legs, k) /\ h[s] \in Int
  BY <1>1, HeldNext, Zenon
<1>6. /\ HeldPosition(k) = SumFunctionOnSet(f, Opened)
      /\ HeldPosition(k)' = SumFunctionOnSet(h, Opened)
  <2>1. HeldPosition(k)' = SumFunctionOnSet(h, Opened')
    BY HeldNext, Zenon
  <2>2. HeldPosition(k) = SumFunctionOnSet(f, Opened)
    BY HeldIs, Zenon DEF BookInv
  <2> HIDE DEF f, h
  <2> QED BY <1>1, <2>1, <2>2
<1>7. ASSUME NEW s \in D
      PROVE  g[s] \in Int /\ FilledOf(structures'[s].legs, k) = FilledOf(structures[s].legs, k) + g[s]
  <2>1. structures[s] \in Structures /\ structures'[s] = Resized(a, structures[s])
    BY <1>1, <1>2, Zenon
  <2>2. g[s] = FilledOf(Current[s].legs, k)
    BY Zenon DEF OrderedOf
  <2>3. g[s] = FilledOf(DeltaLegs(a, structures[s]), k)
    <3> HIDE DEF g
    <3> QED BY <1>2, <2>2, Zenon
  <2>4. /\ SizedLegs(DeltaLegs(a, structures[s]))
        /\ FilledOf(Resized(a, structures[s]).legs, k)
             = FilledOf(structures[s].legs, k) + FilledOf(DeltaLegs(a, structures[s]), k)
    BY <1>1, <2>1, OrderIsTheChange
  <2> HIDE DEF g
  <2> QED BY <2>1, <2>3, <2>4, FilledInt, Zenon
<1>8. \A s \in Opened : s \in D => put[s] = g[s]
  OBVIOUS
<1>9. \A s \in Opened : s \notin D => put[s] = 0
  OBVIOUS
<1>10. \A s \in Opened : f[s] \in Int /\ put[s] \in Int /\ h[s] = f[s] + put[s]
  <2> SUFFICES ASSUME NEW s \in Opened
               PROVE  f[s] \in Int /\ put[s] \in Int /\ h[s] = f[s] + put[s]
    OBVIOUS
  <2> HIDE DEF put, f, g, h, D
  <2>1. CASE s \in D
    BY <1>4, <1>5, <1>7, <1>8, <2>1
  <2>2. CASE s \notin D
    <3>1. structures'[s] = structures[s] /\ put[s] = 0
      BY <1>1, <1>2, <1>9, <2>2, Zenon
    <3>2. h[s] = f[s]
      BY <1>4, <1>5, <3>1, Zenon
    <3> QED BY <1>4, <3>1, <3>2
  <2> QED BY <2>1, <2>2
<1> HIDE DEF put, f, g, h, D, a
<1>11. SumFunctionOnSet(h, Opened) = SumFunctionOnSet(f, Opened) + SumFunctionOnSet(put, Opened)
  BY <1>3, <1>10, SumPlus
<1>12. SumFunctionOnSet(put, Opened) = SumFunctionOnSet(put, D)
  <2>1. (\A s \in D : put[s] \in Int) /\ \A s \in Opened \ D : put[s] = 0
    BY <1>2, <1>9, <1>10, Zenon
  <2> QED BY <1>2, <1>3, <2>1, SumOfPart
<1>13. SumFunctionOnSet(put, D) = SumFunctionOnSet(g, D)
  <2>1. \A s \in D : put[s] = g[s]
    BY <1>2, <1>8, Zenon
  <2> QED BY <2>1, SumEqual, Zenon
<1> QED BY <1>6, <1>11, <1>12, <1>13, Zenon DEF Ordered, g, D

LEMMA FillsInit == Init => FillsInv
<1> SUFFICES ASSUME Init PROVE FillsInv
  OBVIOUS
<1>1. execution_log = {} /\ active_structures = {} /\ phase = "mark"
  BY DEF Init
<1>2. ASSUME NEW k PROVE LoggedPosition(k) = HeldPosition(k)
  <2>1. DOMAIN [r \in execution_log |-> FilledOf(r.report.fills, k)] = {}
    BY <1>1
  <2>2. DOMAIN [s \in active_structures |-> FilledOf(structures[s].legs, k)] = {}
    BY <1>1
  <2> QED BY <2>1, <2>2, SumEmpty, Zenon DEF LoggedPosition, HeldPosition, SumFunction
<1>3. IsFiniteSet(execution_log)
  BY <1>1, FS_EmptySet
<1> QED BY <1>1, <1>2, <1>3 DEF FillsInv

\* The other steps touch neither the log nor the book, and leave no commit
\* half done unless they raise.
LEMMA IdleFills ==
  ASSUME FillsInv, [Next]_vars, ~Execute, ~CommitOpen, ~CommitExtend, ~CommitStructure,
         ~RunAgain
  PROVE  FillsInv'
<1>1. /\ execution_log' = execution_log /\ structures' = structures
      /\ active_structures' = active_structures
      /\ \/ phase' = phase /\ order_groups' = order_groups /\ cursor' = cursor
         \/ phase # "commit" /\ phase # "aborted" /\ phase' # "commit"
         \/ phase' = "aborted"
  BY DEF Next, Step, Commit, MarkToMarket, EmitPatch, Emit, Assemble, SignalRaises, ConversionRaises,
         DuplicateRaises, TripwireFires, ExtendRaises, EndDay, Stopped, Raise, vars, loopVars,
         logVars, planVars, bookVars
<1>2. \A k : LoggedPosition(k)' = LoggedPosition(k) /\ HeldPosition(k)' = HeldPosition(k)
  BY <1>1, Zenon DEF LoggedPosition, HeldPosition
<1>3. order_groups' = order_groups /\ cursor' = cursor => \A k : Ordered(k)' = Ordered(k)
  BY Zenon DEF Ordered, OrderedOf, Current
<1> QED BY <1>1, <1>2, <1>3 DEF FillsInv

\* The fills against the book, with what they rest on.
FillsHistory == BookInv /\ DispatchInv /\ ReplayInv /\ FillsInv

LEMMA FillsHistoryInit == Init => FillsHistory
BY BookInvInit, DispatchInit, FillsInit DEF FillsHistory, ReplayInv, Init, Opened

\* One run: run() called again empties the log under the book it left.
LEMMA FillsHistoryStep ==
  ASSUME MaxRuns = 1
  PROVE  FillsHistory /\ [Next]_vars => FillsHistory'
<1> SUFFICES ASSUME FillsHistory, [Next]_vars PROVE FillsHistory'
  OBVIOUS
<1>1. BookInv /\ DispatchInv /\ ReplayInv /\ FillsInv
  BY DEF FillsHistory
<1>2. BookInv' /\ DispatchInv' /\ ReplayInv' /\ TypeOK'
  BY <1>1, BookInvStep, DispatchStep, ReplayStep DEF BookInv
<1>3. ~RunAgain
  BY <1>1 DEF RunAgain, BookInv, TypeOK
<1>4. ASSUME Execute PROVE FillsInv'
  BY <1>1, <1>4, ExecuteFills, Zenon
<1>5. ASSUME CommitOpen \/ CommitExtend PROVE FillsInv'
  <2>1. phase = "commit" /\ CommitDone
    BY <1>1, <1>5, Opening
  <2>2. \A k \in Tickers : HeldPosition(k)' = HeldPosition(k) + Ordered(k)
    BY <1>1, <1>2, <1>5, OpeningFills, Zenon
  <2> QED BY <1>1, <2>1, <2>2, CommittedFills, Zenon
<1>6. ASSUME CommitStructure PROVE FillsInv'
  <2>1. phase = "commit" /\ CommitDone
    BY <1>1, <1>6, Resizing
  <2>2. \A k \in Tickers : HeldPosition(k)' = HeldPosition(k) + Ordered(k)
    BY <1>1, <1>2, <1>6, ResizingFills, Zenon
  <2> QED BY <1>1, <2>1, <2>2, CommittedFills, Zenon
<1>7. ASSUME ~Execute, ~CommitOpen, ~CommitExtend, ~CommitStructure PROVE FillsInv'
  BY <1>1, <1>3, <1>7, IdleFills, Zenon
<1>8. FillsInv'
  BY <1>4, <1>5, <1>6, <1>7, Zenon
<1> QED BY <1>2, <1>8 DEF FillsHistory

LEMMA FillsAddUp == FillsHistory => FillsExplainTheBookUnlessAborted
BY DEF FillsHistory, FillsInv, FillsExplainTheBookUnlessAborted, FillsExplainTheBook

\* In one run that has not raised, over any instruments and content and for any
\* number of days, the signed fills of the execution log add up to the position
\* the book holds in every ticker, whenever no commit is pending
\* (_dispatch_synthesized_order logs before _commit_order_group applies).
THEOREM FillsExplained ==
  ASSUME MaxRuns = 1 PROVE Spec => []FillsExplainTheBookUnlessAborted
<1>1. FillsHistory /\ [Next]_vars => FillsHistory'
  BY FillsHistoryStep
<1> QED BY <1>1, FillsHistoryInit, FillsAddUp, PTL DEF Spec

=============================================================================
