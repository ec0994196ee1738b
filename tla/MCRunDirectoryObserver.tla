----------------------- MODULE MCRunDirectoryObserver -----------------------
(* Small runs for TLC: which files the BU writes. *)
EXTENDS ObserverInvariant

Index(ls, i) == [lumiSection |-> ls, index |-> i, type |-> "INDEX"]
EoLS(ls)     == [lumiSection |-> ls, index |-> 0, type |-> "EOLS"]
EoR          == [lumiSection |-> 0, index |-> 0, type |-> "EOR"]

NoStops  == {-1}
StopAt1  == {-1, 1}
StopAt2  == {2}

(* Two lumisections with data. *)
TwoLumisections ==
  {Index(1, 0), Index(1, 1), EoLS(1), Index(2, 0), EoLS(2), EoR}

(* An empty lumisection between two with data. *)
EmptyBetween == {Index(1, 0), EoLS(1), EoLS(2), Index(3, 0), EoLS(3), EoR}

(* One lumisection. *)
OneLumisection == {Index(1, 0), EoLS(1), EoR}

(* A run that never gets any data. *)
NoData == {EoLS(1), EoR}

(* What is written in place in each. *)
Nothing == {}
First   == {Index(1, 0)}
=============================================================================
