-------------------------- MODULE ObserverInvariant --------------------------
(***************************************************************************)
(* The inductive invariant behind the safety properties of                 *)
(* RunDirectoryObserver, for runs whose files are all moved into the run   *)
(* directory (InPlace = {}), the markers after what they close             *)
(* (Early = {}).                                                           *)
(*                                                                         *)
(* The argument: markers come to the directory after all that sorts before *)
(* them (Directory), inotify keeps that order (Events), draining and       *)
(* sorting restore it for the files found at startup, so that a marker the *)
(* runner has taken is ahead of all that is still announced (Order), and a *)
(* marker that was consumed is ahead of all that is still to come          *)
(* (Frontier).  What the checks of popRunFile look at follows from that.   *)
(***************************************************************************)
EXTENDS RunDirectoryObserver

(* The runner has not reached phase II. *)
Starting ==
  {"none", "watch", "ERROR", "NORUN", "explain", "list", "listing", "drain"}

(* It has no watch, or no more. *)
Unwatched == {"none", "watch", "ERROR", "NORUN", "explain", "stopped"}

(* The startup events have been drained. *)
Settled == {"optimize", "check", "setRunState", "setReady", "read", "batch",
            "stopped"}

(* How often the runner or the FUs have f. *)
Placed(f) == files[f] + queue[f] + consumed[f]

(* f is still to be consumed. *)
Outstanding(f) ==
  files[f] > 0 \/ queue[f] > 0 \/ f \in Announced \/ f \notin dir

Phases ==
  /\ open = {}
  /\ starter = "new" => runner = "none"
  /\ IF runner \in Unwatched THEN ~watched /\ events = <<>> ELSE watched
  /\ runner \in Starting =>
       ~sawIndex /\ Held(consumed) = {} /\ fuLastEoLS = 0
  /\ runner \in Starting \cup {"optimize"} /\ ~sawIndex =>
       Held(queue) = {} /\ lastPopped = NoFile /\ runLastEoLS = fuLastEoLS
  /\ runner \notin {"listing", "drain", "optimize"} => Held(files) = {}
  /\ runner = "setRunState" => Held(queue) = {}
  /\ errorSet => /\ runner = "stopped"
                 /\ Held(queue) = {} /\ Held(consumed) = {} /\ fuLastEoLS = 0
  /\ runner = "stopped" /\ ~errorSet => \E r \in dir : IsEoR(r)

Directory ==
  /\ \A m \in dir, g \in Files :
       IsMarker(m) /\ Score(g) < Score(m) => g \in dir
  /\ \A f \in Files : Placed(f) > 0 => f \in dir
  /\ Announced \subseteq dir

Events ==
  \A i, j \in 1 .. Len(events) :
    i < j => /\ events[i] # events[j]
             /\ IsMarker(events[i]) => Score(events[i]) < Score(events[j])

Once ==
  \A f \in Files : /\ Placed(f) <= 1
                   /\ runner \in Settled /\ f \in Announced => Placed(f) = 0

Order ==
  /\ runner \in Settled =>
       \A m \in Files, g \in Announced :
         IsMarker(m) /\ Placed(m) > 0 => Score(m) < Score(g)
  /\ runner = "optimize" =>
       \A f, g \in Files :
         queue[f] > 0 /\ files[g] > 0 => Score(f) < Score(g)

Frontier ==
  \A m, g \in Files :
    IsMarker(m) /\ consumed[m] > 0 /\ Outstanding(g) => Score(m) < Score(g)

(* What the states and numbers of the statistics stand for. *)
Meaning ==
  /\ \/ fuLastEoLS = 0
     \/ \E m \in Files : /\ IsEoLS(m) /\ consumed[m] > 0
                         /\ m.lumiSection = fuLastEoLS
  /\ lastPopped # NoFile =>
       /\ lastPopped \in Files /\ consumed[lastPopped] > 0
       /\ ~IsEoR(lastPopped) => lastPopped.lumiSection <= fuLastEoLS + 1
  /\ runState = "EOR" =>
       \E r \in Files : IsEoR(r) /\ (queue[r] > 0 \/ consumed[r] > 0)
  /\ fuState = "EOR" => \E r \in Files : IsEoR(r) /\ consumed[r] > 0

Kept ==
  Listed \/ runner = "listing" =>
    \A f \in dir \ dropped : Placed(f) > 0 \/ f \in Announced

(* The inductive invariant: with these parts, no step can trip a check of  *)
(* popRunFile, hand a file out twice, lose one, or report the end of a     *)
(* lumisection or of the run too early.                                    *)
IInv ==
  /\ TypeOK
  /\ NoConsistencyFailure
  /\ Phases
  /\ Directory
  /\ Events
  /\ Once
  /\ Order
  /\ Frontier
  /\ Meaning
  /\ Kept
=============================================================================
