---------------------------- MODULE MCCrossover ----------------------------
(***************************************************************************)
(* A small market for TLC: day 7 is a Monday.  The run is from Wednesday 9 *)
(* to Tuesday 15; each calendar has one common holiday, and holidays of a  *)
(* market on which the other is open.  A lookahead of 5 days reaches over  *)
(* every closing but that of the US in the third calendar.                 *)
(***************************************************************************)
EXTENDS CrossoverProperties

CONSTANTS a, b

Market(us, hk) == [c \in {"US", "HK"} |-> IF c = "US" THEN us ELSE hk]
MCCalendars ==
  {Market({10, 11}, {10, 14}), Market({10, 14}, {9, 10}), Market({10, 11, 14}, {9, 10})}

MCWatchlist  == <<a, b>>
MCSignalCode == [k \in {a, b} |-> IF k = a THEN "US" ELSE "HK"]
MCViewCode   == [k \in {a} |-> "US"]
MCHistory    == [k \in {a, b} |-> [d \in {7, 8} |-> IF k = a THEN 9 - d ELSE d - 7]]
MCClosesOf   == [k \in {a, b} |-> IF k = a THEN {1, 2} ELSE {0, 1}]
MCTradeSpecs == {<<<<[ticker |-> k, size |-> n]>>>> : k \in {a, b}, n \in {1, 2}}
=============================================================================
