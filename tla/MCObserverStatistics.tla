------------------------ MODULE MCObserverStatistics ------------------------
(* A small run for TLC: a file written in place, a marker too early. *)
EXTENDS ObserverStatistics

Index(ls, i) == [lumiSection |-> ls, index |-> i, type |-> "INDEX"]
EoLS(ls)     == [lumiSection |-> ls, index |-> 0, type |-> "EOLS"]
EoR          == [lumiSection |-> 0, index |-> 0, type |-> "EOR"]

TwoLumisections == {Index(1, 0), EoLS(1), Index(2, 0), EoLS(2), EoR}

First     == {Index(1, 0)}
FirstEoLS == {EoLS(1)}
StopAt1   == {-1, 1}
=============================================================================
