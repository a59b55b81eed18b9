----------------------------- MODULE SumTheorems -----------------------------
(***************************************************************************)
(* Facts about SumFunctionOnSet of the community module Functions, the sum *)
(* of a function over a finite set, in which P&L, positions, costs and     *)
(* averages are written.  The sum is a fold, which takes the elements in   *)
(* an order CHOOSE fixes; the lemmas show that the order does not matter.  *)
(* Induction is stated on sets (of numbers, of subsets), not on operators. *)
(* First what every proof about days needs: least and greatest elements.   *)
(***************************************************************************)
EXTENDS Integers, FiniteSetsExt, FiniteSetTheorems, WellFoundedInduction, TLAPS

-----------------------------------------------------------------------------
(* Least and greatest elements. *)

\* A set of naturals has a least element.
LEMMA LeastNatural ==
  ASSUME NEW S \in SUBSET Nat, S # {}
  PROVE  \E n \in S : \A m \in S : n <= m
<1>1. PICK n \in S : \A m \in S : <<m, n>> \notin OpToRel(<, Nat)
  BY NatLessThanWellFounded, WFMin, Zenon
<1>2. \A m \in S : ~(m < n)
  BY <1>1, Zenon DEF OpToRel
<1> QED BY <1>2

LEMMA LeastInteger ==
  ASSUME NEW S \in SUBSET Int, S # {}, NEW low \in Int, \A d \in S : low <= d
  PROVE  Min(S) \in S /\ \A d \in S : Min(S) <= d
<1> DEFINE T == {d - low : d \in S}
<1>1. T \subseteq Nat
  OBVIOUS
<1>2. T # {}
  OBVIOUS
<1>3. PICK n \in T : \A m \in T : n <= m
  <2> HIDE DEF T
  <2> QED BY <1>1, <1>2, LeastNatural, Zenon
<1>4. (\E d \in S : n = d - low) /\ \A d \in S : n <= d - low
  BY <1>3, Zenon
<1> HIDE DEF T
<1>5. PICK d \in S : \A e \in S : d <= e
  BY <1>4
<1> QED BY <1>5, Zenon DEF Min

LEMMA GreatestInteger ==
  ASSUME NEW S \in SUBSET Int, S # {}, NEW high \in Int, \A d \in S : d <= high
  PROVE  Max(S) \in S /\ \A d \in S : d <= Max(S)
<1> DEFINE T == {high - d : d \in S}
<1>1. T \subseteq Nat
  OBVIOUS
<1>2. T # {}
  OBVIOUS
<1>3. PICK n \in T : \A m \in T : n <= m
  <2> HIDE DEF T
  <2> QED BY <1>1, <1>2, LeastNatural, Zenon
<1>4. (\E d \in S : n = high - d) /\ \A d \in S : n <= high - d
  BY <1>3, Zenon
<1> HIDE DEF T
<1>5. PICK d \in S : \A e \in S : d >= e
  BY <1>4
<1>6. Max(S) \in S /\ \A e \in S : Max(S) >= e
  BY <1>5, Zenon DEF Max
<1> QED BY <1>6

-----------------------------------------------------------------------------
(* Induction. *)

\* A set of naturals that has 0 and every successor is all of them.
LEMMA InductiveSet ==
  ASSUME NEW P \in SUBSET Nat, 0 \in P, \A n \in P : n + 1 \in P
  PROVE  P = Nat
<1> SUFFICES ASSUME P # Nat PROVE FALSE
  OBVIOUS
<1>1. PICK n \in Nat \ P : \A m \in Nat \ P : n <= m
  BY LeastNatural
<1>2. n - 1 \in Nat /\ ~(n <= n - 1)
  BY <1>1
<1>3. n - 1 \in P
  BY <1>1, <1>2
<1> QED BY <1>1, <1>3

\* A family that has the empty set, and with each subset of a finite set S the
\* subsets of S with one more element, has S.
LEMMA InductiveFamily ==
  ASSUME NEW S, IsFiniteSet(S), NEW P, {} \in P,
         \A T \in SUBSET S : \A x \in S \ T : T \in P => T \cup {x} \in P
  PROVE  S \in P
<1> DEFINE Q == {n \in Nat : \A T \in SUBSET S : Cardinality(T) = n => T \in P}
<1>1. \A T \in SUBSET S : IsFiniteSet(T) /\ Cardinality(T) \in Nat
  BY FS_Subset, FS_CardinalityType
<1>2. 0 \in Q
  BY <1>1, FS_EmptySet
<1>3. ASSUME NEW n \in Q PROVE n + 1 \in Q
  <2> SUFFICES ASSUME NEW T \in SUBSET S, Cardinality(T) = n + 1 PROVE T \in P
    OBVIOUS
  <2>1. T # {}
    BY FS_EmptySet
  <2>2. PICK x \in T : TRUE
    BY <2>1
  <2>3. Cardinality(T \ {x}) = n
    BY <1>1, <2>2, FS_RemoveElement
  <2>4. T \ {x} \in P
    BY <2>3
  <2>5. (T \ {x}) \cup {x} = T
    BY <2>2
  <2> QED BY <2>2, <2>4, <2>5
<1>4. Q = Nat
  <2> HIDE DEF Q
  <2> QED BY <1>2, <1>3, InductiveSet DEF Q
<1> QED BY <1>1, <1>4

\* A finite set of integers has a least and a greatest element.
LEMMA FiniteExtremes ==
  ASSUME NEW S \in SUBSET Int, IsFiniteSet(S), S # {}
  PROVE  /\ Min(S) \in S /\ \A x \in S : Min(S) <= x
         /\ Max(S) \in S /\ \A x \in S : x <= Max(S)
<1> DEFINE P == {T \in SUBSET S : \E low, high \in Int : \A x \in T : low <= x /\ x <= high}
<1>1. {} \in P
  OBVIOUS
<1>2. ASSUME NEW T \in SUBSET S, NEW y \in S \ T, T \in P PROVE T \cup {y} \in P
  <2>1. PICK low \in Int, high \in Int : \A x \in T : low <= x /\ x <= high
    BY <1>2
  <2> DEFINE l == IF y < low THEN y ELSE low
             h == IF y > high THEN y ELSE high
  <2>2. l \in Int /\ h \in Int /\ \A x \in T \cup {y} : l <= x /\ x <= h
    BY <2>1
  <2> HIDE DEF l, h
  <2> QED BY <2>2
<1>3. S \in P
  <2> HIDE DEF P
  <2> QED BY <1>1, <1>2, InductiveFamily
<1>4. PICK low \in Int, high \in Int : \A x \in S : low <= x /\ x <= high
  BY <1>3
<1> QED BY <1>4, LeastInteger, GreatestInteger

LEMMA FiniteInterval == ASSUME NEW a \in Int, NEW b \in Int PROVE IsFiniteSet(a..b)
BY FS_Interval

\* A function takes finitely many things to finitely many.
LEMMA FiniteImage ==
  ASSUME NEW D, IsFiniteSet(D), NEW f
  PROVE  IsFiniteSet({f[x] : x \in D})
<1> DEFINE P == {T \in SUBSET D : IsFiniteSet({f[x] : x \in T})}
<1>1. {} \in P
  <2>1. {f[x] : x \in {}} = {}
    OBVIOUS
  <2> QED BY <2>1, FS_EmptySet
<1>2. ASSUME NEW T \in SUBSET D, NEW x \in D \ T, T \in P PROVE T \cup {x} \in P
  <2>1. {f[y] : y \in T \cup {x}} = {f[y] : y \in T} \cup {f[x]}
    OBVIOUS
  <2>2. IsFiniteSet({f[y] : y \in T} \cup {f[x]})
    BY <1>2, FS_AddElement, Zenon
  <2>3. T \cup {x} \in SUBSET D
    OBVIOUS
  <2> QED BY <2>1, <2>2, <2>3, Zenon
<1> HIDE DEF P
<1>3. D \in P
  BY <1>1, <1>2, InductiveFamily, Zenon
<1> QED BY <1>3, Zenon DEF P

-----------------------------------------------------------------------------
(* The sum as a fold. *)

Pick(T) == CHOOSE x \in T : TRUE
Round(f, S, g) ==
  [T \in SUBSET S |-> IF T = {} THEN 0 ELSE f[Pick(T)] + g[T \ {Pick(T)}]]
Fold(f, S) == CHOOSE g : g = Round(f, S, g)

LEMMA SumIsFold ==
  ASSUME NEW f, NEW S
  PROVE  SumFunctionOnSet(f, S) = Fold(f, S)[S]
BY DEF SumFunctionOnSet, FoldFunctionOnSet, MapThenFoldSet, Fold, Pick, Round

LEMMA PickIsElement == ASSUME NEW T, T # {} PROVE Pick(T) \in T
BY DEF Pick

\* The rounds up to a cardinality can be filled in one after the other.
LEMMA FoldExists ==
  ASSUME NEW f, NEW S, IsFiniteSet(S)
  PROVE  \E g : g = Round(f, S, g)
<1> DEFINE Right(g, T) == g[T] = Round(f, S, g)[T]
           Small(n) == {T \in SUBSET S : Cardinality(T) <= n}
           Q == {n \in Nat : \E g : \A T \in Small(n) : Right(g, T)}
<1>1. \A T \in SUBSET S : IsFiniteSet(T) /\ Cardinality(T) \in Nat
  BY FS_Subset, FS_CardinalityType
<1>2. \A T \in SUBSET S : T # {} =>
        /\ T \ {Pick(T)} \in SUBSET S
        /\ Cardinality(T \ {Pick(T)}) = Cardinality(T) - 1
  BY <1>1, PickIsElement, FS_RemoveElement
<1>3. 0 \in Q
  <2>1. ASSUME NEW T \in Small(0) PROVE T = {}
    BY <1>1, FS_EmptySet
  <2>2. \A T \in Small(0) : Right([T2 \in SUBSET S |-> 0], T)
    BY <2>1 DEF Round
  <2> QED BY <2>2
<1>4. ASSUME NEW n \in Q PROVE n + 1 \in Q
  <2>1. PICK g : \A T \in Small(n) : Right(g, T)
    OBVIOUS
  <2> DEFINE h == Round(f, S, g)
  <2>2. \A T \in Small(n) : h[T] = g[T]
    BY <2>1
  <2>3. ASSUME NEW T \in Small(n + 1) PROVE Right(h, T)
    <3>1. CASE T = {}
      BY <3>1 DEF Round
    <3>2. CASE T # {}
      <4> DEFINE U == T \ {Pick(T)}
      <4>1. U \in Small(n)
        BY <1>1, <1>2, <3>2
      <4>2. h[U] = g[U]
        BY <2>2, <4>1
      <4> QED BY <3>2, <4>2 DEF Round
    <3> QED BY <3>1, <3>2
  <2> HIDE DEF h
  <2> QED BY <2>3
<1>5. Q = Nat
  <2> HIDE DEF Q
  <2> QED BY <1>3, <1>4, InductiveSet DEF Q
<1>6. Cardinality(S) \in Q
  BY <1>1, <1>5
<1>7. PICK g : \A T \in Small(Cardinality(S)) : Right(g, T)
  BY <1>6
<1>8. \A T \in SUBSET S : Cardinality(T) <= Cardinality(S)
  BY FS_Subset
<1>9. \A T \in SUBSET S : g[T] = Round(f, S, g)[T]
  BY <1>7, <1>8
<1> DEFINE h == Round(f, S, g)
<1>10. \A T \in SUBSET S : h[T] = g[T]
  BY <1>9
<1>11. h = Round(f, S, h)
  <2>1. \A T \in SUBSET S : T \ {Pick(T)} \in SUBSET S
    OBVIOUS
  <2>2. \A T \in SUBSET S : Round(f, S, g)[T] = Round(f, S, h)[T]
    <3> HIDE DEF h
    <3> QED BY <1>10, <2>1 DEF Round
  <2> QED BY <2>2 DEF Round
<1> QED BY <1>11

\* Two fillings of the subsets of S agree.
LEMMA FoldsAgree ==
  ASSUME NEW f, NEW S, IsFiniteSet(S), NEW g, NEW h,
         \A T \in SUBSET S : g[T] = Round(f, S, g)[T] /\ h[T] = Round(f, S, h)[T]
  PROVE  g[S] = h[S]
<1> DEFINE Q == {n \in Nat : \A T \in SUBSET S : Cardinality(T) = n => g[T] = h[T]}
<1>1. \A T \in SUBSET S : IsFiniteSet(T) /\ Cardinality(T) \in Nat
  BY FS_Subset, FS_CardinalityType
<1>2. 0 \in Q
  <2>1. ASSUME NEW T \in SUBSET S, Cardinality(T) = 0 PROVE g[T] = h[T]
    <3>1. T = {}
      BY <1>1, <2>1, FS_EmptySet
    <3> QED BY <3>1 DEF Round
  <2> QED BY <2>1
<1>3. ASSUME NEW n \in Q PROVE n + 1 \in Q
  <2> SUFFICES ASSUME NEW T \in SUBSET S, Cardinality(T) = n + 1 PROVE g[T] = h[T]
    OBVIOUS
  <2>1. n \in Nat /\ T # {}
    <3>1. n \in Nat
      BY <1>3
    <3>2. Cardinality({}) = 0
      BY FS_EmptySet
    <3>3. ASSUME T = {} PROVE FALSE
      <4>1. Cardinality(T) = 0
        BY <3>2, <3>3
      <4> QED BY <3>1, <4>1
    <3> QED BY <3>1, <3>3
  <2> DEFINE U == T \ {Pick(T)}
  <2>2. U \in SUBSET S /\ Cardinality(U) = n
    <3>1. Pick(T) \in T /\ IsFiniteSet(T)
      BY <1>1, <2>1, PickIsElement
    <3>2. Cardinality(T \ {Pick(T)}) = Cardinality(T) - 1
      BY <3>1, FS_RemoveElement
    <3> QED BY <2>1, <3>2
  <2>3. g[U] = h[U]
    BY <2>2
  <2> QED BY <2>1, <2>3 DEF Round
<1>4. Q = Nat
  <2> HIDE DEF Q
  <2> QED BY <1>2, <1>3, InductiveSet DEF Q
<1> QED BY <1>1, <1>4

-----------------------------------------------------------------------------
(* The sum, one element at a time. *)

\* Functions that agree on a set have one sum over it, finite or not.
LEMMA SumEqual ==
  ASSUME NEW f, NEW g, NEW S, \A x \in S : f[x] = g[x]
  PROVE  SumFunctionOnSet(f, S) = SumFunctionOnSet(g, S)
<1>1. \A T \in SUBSET S : T # {} => Pick(T) \in S
  BY PickIsElement
<1>2. ASSUME NEW h PROVE Round(f, S, h) = Round(g, S, h)
  BY <1>1 DEF Round
<1>3. Fold(f, S) = Fold(g, S)
  BY <1>2, Zenon DEF Fold
<1> QED BY <1>3, SumIsFold

LEMMA FoldIsRound ==
  ASSUME NEW f, NEW S, IsFiniteSet(S)
  PROVE  Fold(f, S) = Round(f, S, Fold(f, S))
BY FoldExists, Zenon DEF Fold

\* The fold of a set restricts to the folds of its subsets.
LEMMA FoldOfSubset ==
  ASSUME NEW f, NEW S, IsFiniteSet(S), NEW T \in SUBSET S
  PROVE  Fold(f, S)[T] = SumFunctionOnSet(f, T)
<1>1. IsFiniteSet(T)
  BY FS_Subset
<1> DEFINE g == Fold(f, S)
           h == Fold(f, T)
<1>2. \A U \in SUBSET T : g[U] = Round(f, S, g)[U]
  BY FoldIsRound
<1>3. \A U \in SUBSET T : h[U] = Round(f, T, h)[U]
  BY <1>1, FoldIsRound
<1> HIDE DEF g, h
<1>4. \A U \in SUBSET T : g[U] = Round(f, T, g)[U]
  BY <1>2 DEF Round
<1>5. g[T] = h[T]
  BY <1>1, <1>3, <1>4, FoldsAgree
<1> QED BY <1>5, SumIsFold DEF g, h

LEMMA SumEmpty == ASSUME NEW f PROVE SumFunctionOnSet(f, {}) = 0
<1>1. Fold(f, {}) = Round(f, {}, Fold(f, {}))
  BY FS_EmptySet, FoldIsRound
<1>2. Fold(f, {})[{}] = 0
  BY <1>1 DEF Round
<1> QED BY <1>2, SumIsFold

LEMMA SumPick ==
  ASSUME NEW f, NEW S, IsFiniteSet(S), S # {}
  PROVE  SumFunctionOnSet(f, S) = f[Pick(S)] + SumFunctionOnSet(f, S \ {Pick(S)})
<1>1. Fold(f, S)[S] = f[Pick(S)] + Fold(f, S)[S \ {Pick(S)}]
  <2> DEFINE g == Fold(f, S)
  <2>1. g = Round(f, S, g)
    BY FoldIsRound
  <2> HIDE DEF g
  <2>2. g[S] = f[Pick(S)] + g[S \ {Pick(S)}]
    BY <2>1 DEF Round
  <2> QED BY <2>2 DEF g
<1>2. Fold(f, S)[S \ {Pick(S)}] = SumFunctionOnSet(f, S \ {Pick(S)})
  BY FoldOfSubset
<1> QED BY <1>1, <1>2, SumIsFold

\* An induction over the subsets of a finite set, by their size.
LEMMA SmallerFirst ==
  ASSUME NEW S, IsFiniteSet(S), NEW P,
         \A T \in SUBSET S :
           (\A U \in SUBSET T : U # T => U \in P) => T \in P
  PROVE  S \in P
<1> DEFINE Q == {n \in Nat : \A T \in SUBSET S : Cardinality(T) < n => T \in P}
<1>1. \A T \in SUBSET S : IsFiniteSet(T) /\ Cardinality(T) \in Nat
  BY FS_Subset, FS_CardinalityType
<1>2. 0 \in Q
  BY <1>1
<1>3. ASSUME NEW n \in Q PROVE n + 1 \in Q
  <2>0. n \in Nat
    BY <1>3
  <2> SUFFICES ASSUME NEW T \in SUBSET S, Cardinality(T) < n + 1 PROVE T \in P
    BY <2>0
  <2>1. ASSUME NEW U \in SUBSET T, U # T PROVE U \in P
    <3>1. Cardinality(U) < Cardinality(T)
      BY <1>1, <2>1, FS_Subset
    <3>2. U \in SUBSET S /\ Cardinality(U) < n
      BY <1>1, <2>0, <3>1
    <3> QED BY <3>2
  <2> QED BY <2>1
<1>4. Q = Nat
  <2> HIDE DEF Q
  <2> QED BY <1>2, <1>3, InductiveSet DEF Q
<1>5. Cardinality(S) + 1 \in Q
  BY <1>1, <1>4
<1> QED BY <1>1, <1>5

LEMMA SumInt ==
  ASSUME NEW S, IsFiniteSet(S), NEW f, \A x \in S : f[x] \in Int
  PROVE  SumFunctionOnSet(f, S) \in Int
<1> DEFINE P == {T \in SUBSET S : SumFunctionOnSet(f, T) \in Int}
<1>1. ASSUME NEW T \in SUBSET S, \A U \in SUBSET T : U # T => U \in P PROVE T \in P
  <2>1. CASE T = {}
    BY <2>1, SumEmpty
  <2>2. CASE T # {}
    <3>1. Pick(T) \in T /\ IsFiniteSet(T)
      BY <2>2, PickIsElement, FS_Subset
    <3>2. T \ {Pick(T)} \in P
      BY <1>1, <3>1
    <3> QED BY <2>2, <3>1, <3>2, SumPick
  <2> QED BY <2>1, <2>2
<1>2. S \in P
  <2> HIDE DEF P
  <2> QED BY <1>1, SmallerFirst
<1> QED BY <1>2

\* The order does not matter: any element can be taken off first.
LEMMA SumRemove ==
  ASSUME NEW S, IsFiniteSet(S), NEW f, \A x \in S : f[x] \in Int, NEW x \in S
  PROVE  SumFunctionOnSet(f, S) = f[x] + SumFunctionOnSet(f, S \ {x})
<1> DEFINE Splits(T, y) == SumFunctionOnSet(f, T) = f[y] + SumFunctionOnSet(f, T \ {y})
           P == {T \in SUBSET S : \A y \in T : Splits(T, y)}
<1>1. \A T \in SUBSET S : IsFiniteSet(T) /\ SumFunctionOnSet(f, T) \in Int
  BY FS_Subset, SumInt
<1>2. ASSUME NEW T \in SUBSET S, \A U \in SUBSET T : U # T => U \in P PROVE T \in P
  <2> SUFFICES ASSUME NEW y \in T PROVE Splits(T, y)
    OBVIOUS
  <2> DEFINE c == Pick(T)
  <2>1. c \in T /\ SumFunctionOnSet(f, T) = f[c] + SumFunctionOnSet(f, T \ {c})
    BY <1>1, PickIsElement, SumPick
  <2> HIDE DEF c
  <2>2. CASE y = c
    BY <2>1, <2>2
  <2>3. CASE y # c
    <3>1. Splits(T \ {c}, y) /\ Splits(T \ {y}, c)
      BY <1>2, <2>1, <2>3
    <3>2. SumFunctionOnSet(f, (T \ {c}) \ {y}) = SumFunctionOnSet(f, (T \ {y}) \ {c})
      <4>1. (T \ {c}) \ {y} = (T \ {y}) \ {c}
        OBVIOUS
      <4> QED BY <4>1
    <3>3. /\ f[c] \in Int /\ f[y] \in Int
          /\ SumFunctionOnSet(f, (T \ {c}) \ {y}) \in Int
      BY <1>1, <2>1
    <3> QED BY <2>1, <3>1, <3>2, <3>3
  <2> QED BY <2>2, <2>3
<1>3. S \in P
  <2> HIDE DEF P
  <2> QED BY <1>2, SmallerFirst
<1> QED BY <1>3

LEMMA SumAdd ==
  ASSUME NEW S, IsFiniteSet(S), NEW x, x \notin S, NEW f,
         f[x] \in Int, \A y \in S : f[y] \in Int
  PROVE  SumFunctionOnSet(f, S \cup {x}) = SumFunctionOnSet(f, S) + f[x]
<1>1. IsFiniteSet(S \cup {x}) /\ SumFunctionOnSet(f, S) \in Int
  BY FS_AddElement, SumInt
<1>2. SumFunctionOnSet(f, (S \cup {x}) \ {x}) = SumFunctionOnSet(f, S)
  <2>1. (S \cup {x}) \ {x} = S
    OBVIOUS
  <2> QED BY <2>1
<1>3. SumFunctionOnSet(f, S \cup {x}) = f[x] + SumFunctionOnSet(f, (S \cup {x}) \ {x})
  BY <1>1, SumRemove
<1> QED BY <1>1, <1>2, <1>3

LEMMA SumSingle ==
  ASSUME NEW f, NEW x, f[x] \in Int
  PROVE  SumFunctionOnSet(f, {x}) = f[x]
<1>1. {} \cup {x} = {x} /\ IsFiniteSet({})
  BY FS_EmptySet
<1>2. SumFunctionOnSet(f, {} \cup {x}) = SumFunctionOnSet(f, {}) + f[x]
  BY <1>1, SumAdd
<1> QED BY <1>1, <1>2, SumEmpty

-----------------------------------------------------------------------------
(* Sums of sums. *)

LEMMA SumUnion ==
  ASSUME NEW S, NEW T, IsFiniteSet(S), IsFiniteSet(T), S \cap T = {},
         NEW f, \A x \in S \cup T : f[x] \in Int
  PROVE  SumFunctionOnSet(f, S \cup T) = SumFunctionOnSet(f, S) + SumFunctionOnSet(f, T)
<1> DEFINE P == {U \in SUBSET T : SumFunctionOnSet(f, S \cup U)
                                    = SumFunctionOnSet(f, S) + SumFunctionOnSet(f, U)}
<1>1. SumFunctionOnSet(f, S) \in Int
  BY SumInt
<1>2. {} \in P
  <2>1. S \cup {} = S
    OBVIOUS
  <2> QED BY <1>1, <2>1, SumEmpty
<1>3. ASSUME NEW U \in SUBSET T, NEW x \in T \ U, U \in P PROVE U \cup {x} \in P
  <2>1. IsFiniteSet(U) /\ IsFiniteSet(S \cup U)
    BY FS_Subset, FS_Union
  <2>2. SumFunctionOnSet(f, U \cup {x}) = SumFunctionOnSet(f, U) + f[x]
    BY <2>1, SumAdd
  <2>3. SumFunctionOnSet(f, (S \cup U) \cup {x}) = SumFunctionOnSet(f, S \cup U) + f[x]
    BY <2>1, SumAdd
  <2>4. SumFunctionOnSet(f, S \cup (U \cup {x})) = SumFunctionOnSet(f, (S \cup U) \cup {x})
    <3>1. S \cup (U \cup {x}) = (S \cup U) \cup {x}
      OBVIOUS
    <3> QED BY <3>1
  <2>5. SumFunctionOnSet(f, U) \in Int /\ f[x] \in Int
    BY <2>1, SumInt
  <2> QED BY <1>1, <1>3, <2>2, <2>3, <2>4, <2>5
<1>4. T \in P
  <2> HIDE DEF P
  <2> QED BY <1>2, <1>3, InductiveFamily
<1> QED BY <1>4

LEMMA SumZero ==
  ASSUME NEW S, IsFiniteSet(S), NEW f, \A x \in S : f[x] = 0
  PROVE  SumFunctionOnSet(f, S) = 0
<1> DEFINE P == {U \in SUBSET S : SumFunctionOnSet(f, U) = 0}
<1>1. {} \in P
  BY SumEmpty
<1>2. ASSUME NEW U \in SUBSET S, NEW x \in S \ U, U \in P PROVE U \cup {x} \in P
  <2>1. IsFiniteSet(U) /\ x \notin U /\ f[x] \in Int /\ \A y \in U : f[y] \in Int
    BY FS_Subset
  <2>2. SumFunctionOnSet(f, U \cup {x}) = SumFunctionOnSet(f, U) + f[x]
    BY <2>1, SumAdd
  <2> QED BY <1>2, <2>2
<1>3. S \in P
  <2> HIDE DEF P
  <2> QED BY <1>1, <1>2, InductiveFamily
<1> QED BY <1>3

\* What is zero outside a part adds up to the sum of the part.
LEMMA SumOfPart ==
  ASSUME NEW S, IsFiniteSet(S), NEW T \in SUBSET S,
         NEW f, \A x \in T : f[x] \in Int, \A x \in S \ T : f[x] = 0
  PROVE  SumFunctionOnSet(f, S) = SumFunctionOnSet(f, T)
<1>1. IsFiniteSet(T) /\ IsFiniteSet(S \ T) /\ T \cup (S \ T) = S /\ T \cap (S \ T) = {}
  BY FS_Subset
<1>2. SumFunctionOnSet(f, T \cup (S \ T))
        = SumFunctionOnSet(f, T) + SumFunctionOnSet(f, S \ T)
  <2>1. \A x \in T \cup (S \ T) : f[x] \in Int
    OBVIOUS
  <2> QED BY <1>1, <2>1, SumUnion
<1>3. SumFunctionOnSet(f, S \ T) = 0 /\ SumFunctionOnSet(f, T) \in Int
  BY <1>1, SumZero, SumInt
<1> QED BY <1>1, <1>2, <1>3

\* Sums are linear.
LEMMA SumPlus ==
  ASSUME NEW S, IsFiniteSet(S), NEW f, NEW g, NEW h,
         \A x \in S : f[x] \in Int /\ g[x] \in Int /\ h[x] = f[x] + g[x]
  PROVE  SumFunctionOnSet(h, S) = SumFunctionOnSet(f, S) + SumFunctionOnSet(g, S)
<1> DEFINE P == {U \in SUBSET S : SumFunctionOnSet(h, U)
                                    = SumFunctionOnSet(f, U) + SumFunctionOnSet(g, U)}
<1>1. {} \in P
  BY SumEmpty
<1>2. ASSUME NEW U \in SUBSET S, NEW x \in S \ U, U \in P PROVE U \cup {x} \in P
  <2>1. IsFiniteSet(U) /\ \A y \in U \cup {x} : f[y] \in Int /\ g[y] \in Int /\ h[y] \in Int
    BY FS_Subset
  <2>2. /\ SumFunctionOnSet(f, U \cup {x}) = SumFunctionOnSet(f, U) + f[x]
        /\ SumFunctionOnSet(g, U \cup {x}) = SumFunctionOnSet(g, U) + g[x]
        /\ SumFunctionOnSet(h, U \cup {x}) = SumFunctionOnSet(h, U) + h[x]
    BY <2>1, SumAdd
  <2>3. SumFunctionOnSet(f, U) \in Int /\ SumFunctionOnSet(g, U) \in Int
    BY <2>1, SumInt
  <2> QED BY <1>2, <2>2, <2>3
<1>3. S \in P
  <2> HIDE DEF P
  <2> QED BY <1>1, <1>2, InductiveFamily
<1> QED BY <1>3

\* A set that is split by a map p into the classes of J: the sums of the classes
\* add up to the sum.
LEMMA SumByClass ==
  ASSUME NEW S, IsFiniteSet(S), NEW J, IsFiniteSet(J), NEW p, \A x \in S : p[x] \in J,
         NEW f, \A x \in S : f[x] \in Int, NEW h,
         \A j \in J : h[j] = SumFunctionOnSet(f, {x \in S : p[x] = j})
  PROVE  SumFunctionOnSet(h, J) = SumFunctionOnSet(f, S)
<1> DEFINE Class(K) == {x \in S : p[x] \in K}
           P == {K \in SUBSET J : SumFunctionOnSet(h, K) = SumFunctionOnSet(f, Class(K))}
<1>1. {} \in P
  <2>1. Class({}) = {}
    OBVIOUS
  <2> QED BY <2>1, SumEmpty
<1>2. ASSUME NEW K \in SUBSET J, NEW j \in J \ K, K \in P PROVE K \cup {j} \in P
  <2>1. /\ Class(K) \cap Class({j}) = {} /\ Class(K) \cup Class({j}) = Class(K \cup {j})
        /\ Class({j}) = {x \in S : p[x] = j}
    OBVIOUS
  <2>2. /\ IsFiniteSet(K) /\ IsFiniteSet(Class(K)) /\ IsFiniteSet(Class({j}))
        /\ \A k \in J : IsFiniteSet({x \in S : p[x] = k})
    BY FS_Subset
  <2>3. ASSUME NEW k \in J PROVE h[k] \in Int
    <3>1. \A x \in {y \in S : p[y] = k} : f[x] \in Int
      OBVIOUS
    <3>2. SumFunctionOnSet(f, {y \in S : p[y] = k}) \in Int
      BY <2>2, <3>1, SumInt
    <3> QED BY <3>2
  <2>4. SumFunctionOnSet(h, K \cup {j}) = SumFunctionOnSet(h, K) + h[j]
    BY <2>2, <2>3, SumAdd
  <2>5. SumFunctionOnSet(f, Class(K) \cup Class({j}))
          = SumFunctionOnSet(f, Class(K)) + SumFunctionOnSet(f, Class({j}))
    <3> HIDE DEF Class
    <3>1. Class(K) \cap Class({j}) = {} /\ \A x \in Class(K) \cup Class({j}) : f[x] \in Int
      BY <2>1 DEF Class
    <3> QED BY <2>2, <3>1, SumUnion
  <2> QED BY <1>2, <2>1, <2>4, <2>5
<1>3. J \in P
  <2> HIDE DEF P
  <2> QED BY <1>1, <1>2, InductiveFamily
<1>4. Class(J) = S
  OBVIOUS
<1> QED BY <1>3, <1>4

\* The sum of the sums of the rows of a table is that of the columns.
LEMMA SumSwap ==
  ASSUME NEW S, IsFiniteSet(S), NEW T, IsFiniteSet(T), NEW m,
         \A x \in S, y \in T : m[x][y] \in Int
  PROVE  SumFunctionOnSet([x \in S |-> SumFunctionOnSet(m[x], T)], S)
           = SumFunctionOnSet([y \in T |-> SumFunctionOnSet([x \in S |-> m[x][y]], S)], T)
<1> DEFINE row == [x \in S |-> SumFunctionOnSet(m[x], T)]
           Column(U) == [y \in T |-> SumFunctionOnSet([x \in S |-> m[x][y]], U)]
           P == {U \in SUBSET S : SumFunctionOnSet(row, U) = SumFunctionOnSet(Column(U), T)}
<1>0. \A U \in SUBSET S : IsFiniteSet(U)
  BY FS_Subset
<1>1. {} \in P
  <2>1. \A y \in T : Column({})[y] = 0
    BY SumEmpty
  <2>2. SumFunctionOnSet(Column({}), T) = 0
    <3> HIDE DEF Column
    <3> QED BY <2>1, SumZero
  <2> QED BY <2>2, SumEmpty
<1>2. ASSUME NEW U \in SUBSET S, NEW z \in S \ U, U \in P PROVE U \cup {z} \in P
  <2>1. \A x \in S : row[x] \in Int
    BY SumInt
  <2>2. SumFunctionOnSet(row, U \cup {z}) = SumFunctionOnSet(row, U) + row[z]
    BY <1>0, <2>1, SumAdd
  <2>3. ASSUME NEW y \in T
        PROVE  /\ Column(U)[y] \in Int
               /\ Column(U \cup {z})[y] = Column(U)[y] + m[z][y]
    <3> DEFINE c == [x \in S |-> m[x][y]]
    <3>1. \A x \in S : c[x] \in Int
      OBVIOUS
    <3>2. c[z] = m[z][y]
      OBVIOUS
    <3> HIDE DEF c
    <3>3. SumFunctionOnSet(c, U \cup {z}) = SumFunctionOnSet(c, U) + c[z]
      BY <1>0, <3>1, SumAdd
    <3>4. SumFunctionOnSet(c, U) \in Int
      BY <1>0, <3>1, SumInt
    <3> QED BY <3>2, <3>3, <3>4 DEF c
  <2>4. SumFunctionOnSet(Column(U \cup {z}), T)
          = SumFunctionOnSet(Column(U), T) + SumFunctionOnSet(m[z], T)
    <3>1. \A y \in T : m[z][y] \in Int
      OBVIOUS
    <3> DEFINE f == Column(U)
               g == m[z]
               h == Column(U \cup {z})
    <3>2. \A y \in T : f[y] \in Int /\ g[y] \in Int /\ h[y] = f[y] + g[y]
      BY <2>3, <3>1
    <3> HIDE DEF f, g, h
    <3>3. SumFunctionOnSet(h, T) = SumFunctionOnSet(f, T) + SumFunctionOnSet(g, T)
      BY <3>2, SumPlus
    <3> QED BY <3>3 DEF f, g, h
  <2> QED BY <1>2, <2>2, <2>4
<1>3. S \in P
  <2> HIDE DEF P
  <2> QED BY <1>1, <1>2, InductiveFamily
<1> QED BY <1>3

-----------------------------------------------------------------------------
(* Running totals. *)

\* Differences between neighbours add up to the last value.
LEMMA Telescope ==
  ASSUME NEW D \in SUBSET Int, IsFiniteSet(D), NEW total, \A d \in D : total[d] \in Int,
         NEW step,
         \A d \in D : LET earlier == {e \in D : e < d}
                     IN  step[d] = total[d] - (IF earlier = {} THEN 0 ELSE total[Max(earlier)]),
         NEW last \in D
  PROVE  SumFunctionOnSet(step, {d \in D : d <= last}) = total[last]
<1> DEFINE UpTo(d) == {e \in D : e <= d}
           Before(d) == {e \in D : e < d}
           Right(d) == SumFunctionOnSet(step, UpTo(d)) = total[d]
           Wrong == {d \in D : ~Right(d)}
<1>1. \A d \in D : IsFiniteSet(UpTo(d)) /\ IsFiniteSet(Before(d))
  BY FS_Subset
<1>2. \A d \in D : Before(d) # {} => Max(Before(d)) \in D /\ Max(Before(d)) < d
  <2> SUFFICES ASSUME NEW d \in D, Before(d) # {}
               PROVE  Max(Before(d)) \in D /\ Max(Before(d)) < d
    OBVIOUS
  <2> DEFINE B == Before(d)
  <2>1. B \in SUBSET Int /\ IsFiniteSet(B) /\ B # {}
    BY <1>1
  <2> HIDE DEF B
  <2>2. Max(B) \in B
    BY <2>1, FiniteExtremes
  <2> QED BY <2>2 DEF B
<1>3. \A d \in D : step[d] \in Int
  <2> SUFFICES ASSUME NEW d \in D PROVE step[d] \in Int
    OBVIOUS
  <2>1. step[d] = total[d] - (IF Before(d) = {} THEN 0 ELSE total[Max(Before(d))])
    BY Zenon
  <2>2. (IF Before(d) = {} THEN 0 ELSE total[Max(Before(d))]) \in Int
    <3>1. Before(d) # {} => total[Max(Before(d))] \in Int
      BY <1>2, Zenon
    <3>2. 0 \in Int
      OBVIOUS
    <3> QED BY <3>1, <3>2, Zenon
  <2> HIDE DEF Before
  <2> QED BY <2>1, <2>2
<1>4. ASSUME NEW d \in D, \A e \in Before(d) : Right(e) PROVE Right(d)
  <2> DEFINE B == Before(d)
  <2>1. UpTo(d) = B \cup {d} /\ d \notin B
    <3>1. \A e \in D : e <= d <=> (e < d \/ e = d)
      OBVIOUS
    <3>2. ~(d < d)
      OBVIOUS
    <3> QED BY <3>1, <3>2, Zenon
  <2>2. IsFiniteSet(B) /\ \A e \in B : step[e] \in Int
    BY <1>1, <1>3
  <2>3. SumFunctionOnSet(step, B \cup {d}) = SumFunctionOnSet(step, B) + step[d]
    <3> HIDE DEF B
    <3> QED BY <1>3, <2>1, <2>2, SumAdd
  <2>4. CASE B = {}
    <3>1. SumFunctionOnSet(step, B) = 0
      BY <2>4, SumEmpty
    <3>2. step[d] = total[d] - 0
      BY <2>4
    <3> QED BY <1>3, <2>1, <2>3, <3>1, <3>2
  <2>5. CASE B # {}
    <3> DEFINE m == Max(B)
    <3>1. m \in B /\ (\A e \in B : e <= m) /\ B \in SUBSET Int
      <4>1. B \in SUBSET Int
        OBVIOUS
      <4> HIDE DEF B
      <4> QED BY <2>2, <2>5, <4>1, FiniteExtremes
    <3>2. step[d] = total[d] - total[m]
      BY <2>5
    <3> HIDE DEF m
    <3>3. B = UpTo(m)
      <4>1. \A e \in D : e < d <=> e <= m
        BY <3>1
      <4> QED BY <4>1, Zenon
    <3>4. SumFunctionOnSet(step, B) = total[m]
      BY <1>4, <3>1, <3>3
    <3> QED BY <1>3, <2>1, <2>3, <3>1, <3>2, <3>4
  <2> QED BY <2>4, <2>5
<1>5. Wrong = {}
  <2> SUFFICES ASSUME Wrong # {} PROVE FALSE
    OBVIOUS
  <2>1. Wrong \in SUBSET Int /\ IsFiniteSet(Wrong)
    BY FS_Subset
  <2> DEFINE m == Min(Wrong)
  <2>2. m \in Wrong /\ \A d \in Wrong : m <= d
    <3> HIDE DEF Wrong
    <3> QED BY <2>1, FiniteExtremes
  <2> HIDE DEF m
  <2>3. \A e \in Before(m) : Right(e)
    BY <2>2
  <2> QED BY <1>4, <2>2, <2>3
<1> QED BY <1>5

\* A sum along a one-to-one map is the sum over its image.
LEMMA SumAlong ==
  ASSUME NEW S, IsFiniteSet(S), NEW J, IsFiniteSet(J), NEW p,
         \A x \in S : p[x] \in J, \A j \in J : \E x \in S : p[x] = j,
         \A x, y \in S : p[x] = p[y] => x = y,
         NEW f, \A x \in S : f[x] \in Int, NEW h, \A x \in S : h[p[x]] = f[x]
  PROVE  SumFunctionOnSet(h, J) = SumFunctionOnSet(f, S)
<1>1. ASSUME NEW j \in J PROVE h[j] = SumFunctionOnSet(f, {x \in S : p[x] = j})
  <2>1. PICK x \in S : p[x] = j
    OBVIOUS
  <2>2. {y \in S : p[y] = j} = {x}
    BY <2>1
  <2>3. SumFunctionOnSet(f, {x}) = f[x]
    BY SumSingle
  <2> QED BY <2>1, <2>2, <2>3
<1> QED BY <1>1, SumByClass
=============================================================================
