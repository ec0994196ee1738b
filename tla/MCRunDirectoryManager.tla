------------------------ MODULE MCRunDirectoryManager ------------------------
(* Two server threads, one or two runs. *)
EXTENDS ManagerInvariant, TLC

CONSTANTS w1, w2, r1, r2

TwoWorkers == {w1, w2}
OneRun     == {r1}
TwoRuns    == {r1, r2}
Alike      == Permutations(TwoWorkers) \cup Permutations(TwoRuns)
=============================================================================
