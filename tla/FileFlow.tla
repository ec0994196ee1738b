------------------------------ MODULE FileFlow ------------------------------
(***************************************************************************)
(* What a run directory observer promises: the files of one run flow from  *)
(* the directory to the filter units (FUs) once each, and markers are      *)
(* honoured.  An EoLS is passed only after all its lumisection (and every  *)
(* earlier one) has been handed out, and no file is handed out before the  *)
(* EoLS of an earlier lumisection has been passed; the same for EoR and    *)
(* the run.                                                                *)
(*                                                                         *)
(* The promise is read off popRunFile and optimizeAndPushFiles in          *)
(* src/src/bu/RunDirectoryObserver.cc, which stand behind it with a queue, *)
(* two threads and the checks they abort on.                               *)
(***************************************************************************)
EXTENDS FileInfo

CONSTANT Files

VARIABLES
  published,   \* files complete in the run directory
  consumed,    \* index files handed out, and markers passed
  lastEoLS     \* the last lumisection whose EoLS was passed

flowVars == <<published, consumed, lastEoLS>>

Init ==
  /\ published = {}
  /\ consumed = {}
  /\ lastEoLS = 0

Publish(f) ==
  /\ f \in Files \ published
  /\ published' = published \cup {f}
  /\ UNCHANGED <<consumed, lastEoLS>>

(* The files that must have been consumed before f. *)
Predecessors(f) ==
  {g \in Files : Before(g, f) /\ (IsMarker(f) \/ IsMarker(g))}

Consume(f) ==
  /\ f \in published \ consumed
  /\ Predecessors(f) \subseteq consumed
  /\ consumed' = consumed \cup {f}
  /\ lastEoLS' = IF IsEoLS(f) THEN f.lumiSection ELSE lastEoLS
  /\ UNCHANGED published

Next == \E f \in Files : Publish(f) \/ Consume(f)

Spec == Init /\ [][Next]_flowVars
=============================================================================
