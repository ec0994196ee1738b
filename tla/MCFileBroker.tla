---------------------------- MODULE MCFileBroker ----------------------------
(* Small runs for TLC. *)
EXTENDS BrokerInvariant, QueueLoops, FileNames

CONSTANTS w1, w2

Index(ls, i) == [lumiSection |-> ls, index |-> i, type |-> "INDEX"]
EoLS(ls)     == [lumiSection |-> ls, index |-> 0, type |-> "EOLS"]
EoR          == [lumiSection |-> 0, index |-> 0, type |-> "EOR"]

TwoWorkers == {w1, w2}

(* An index file in each of two lumisections. *)
TwoLumisections == {Index(1, 0), EoLS(1), Index(2, 0), EoR}

(* Data and EoLS in every combination, also without one another. *)
EightFiles ==
  {Index(1, 0), Index(1, 1), EoLS(1), Index(2, 0), EoLS(2), Index(3, 0), EoLS(3), EoR}

(* Numbers with more digits than they need, with more than are written at  *)
(* least, and beyond a word. *)
TestNumerals ==
  {[value |-> v, digits |-> d] : v \in {-1, 0, 7}, d \in {1, 2}}
  \cup {[value |-> v, digits |-> d] : v \in {10, 15}, d \in {2, 3}}

TestNumbers == {0, 7, 10, 11}
=============================================================================
