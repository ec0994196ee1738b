-------------------------- MODULE BrokerInvariant --------------------------
(***************************************************************************)
(* The inductive invariant of FileBroker: why no file is given twice,      *)
(* why a rename fails for good only when a run has had two observers, and  *)
(* why an FU may close the lumisections it was told are complete.          *)
(***************************************************************************)
EXTENDS FileBroker

(* The thread has popped a file and has not renamed it yet. *)
Renaming == {"rename", "mkdir", "retry"}

(* The rename decides who gives a file: one that waits for its reply is in *)
(* the output directory, one thread has it, and nobody has been given it.  *)
Exclusive ==
  /\ dir \cap moved = {}
  /\ moved \subseteq written
  /\ \A f \in Data : given[f] # 0 => f \in moved
  /\ \A w \in Workers :
       pc[w] = "reply" /\ file[w] # NoFile =>
         /\ file[w] \in moved
         /\ given[file[w]] = 0
         /\ \A v \in Workers \ {w} : pc[v] = "reply" => file[v] # file[w]

Process ==
  /\ \A w \in Workers : pc[w] = "pop" => holds[w] \in 1 .. current
  /\ \A w \in Workers : pc[w] = "retry" => fuDir
  /\ \A w \in Workers : pc[w] \in {"idle", "pop"} => file[w] = NoFile
  /\ \A o \in Ids : o > current => observers[o] = NewObserver
  /\ \A o \in Ids : ~observers[o].listed => observers[o] = NewObserver

(* With one observer a file is in its queue or in the hands of one thread, *)
(* and in the directory until that thread renames it.                      *)
OneObserver ==
  current <= 1 =>
    /\ observers[1].queue \subseteq dir
    /\ \A w \in Workers :
         pc[w] \in Renaming =>
           /\ observers[1].listed
           /\ file[w] \in dir \ observers[1].queue
           /\ \A v \in Workers \ {w} : pc[v] \in Renaming => file[v] # file[w]

HandingInv ==
  /\ TypeOK
  /\ Exclusive
  /\ Process
  /\ OneObserver

(* The BU writes a marker after everything it closes, and an observer has  *)
(* its lasteols from a marker of the directory.                            *)
Directory ==
  /\ written \subseteq dir \cup moved
  /\ \A m \in written : IsMarker(m) => \A g \in Files : Before(g, m) => g \in written
  /\ \A o \in Ids :
       /\ observers[o].queue \subseteq written
       /\ observers[o].lastEoLS > 0 =>
            \E m \in written : IsEoLS(m) /\ m.lumiSection = observers[o].lastEoLS
       /\ NoFileIsLate(observers[o])

Taken       == moved \cup InHand
ClosedBy(p) == {f \in Data : p.ended \/ f.lumiSection <= p.lastEoLS}

(* In the first life of the process: what an observer has closed, what a   *)
(* thread has read of it and what an FU was told are all taken, because    *)
(* every observer has the data files that are not.                         *)
Closing ==
  crashes = 0 /\ died = 0 =>
    /\ \A o \in Ids :
         /\ observers[o].listed => Data \cap written \subseteq observers[o].queue \cup Taken
         /\ ClosedBy(observers[o]) \subseteq Taken
    /\ \A w \in Workers : ClosedBy(last[w]) \subseteq Taken
    /\ ClosedBy(told) \subseteq Taken

BInv ==
  /\ HandingInv
  /\ Directory
  /\ Closing
=============================================================================
