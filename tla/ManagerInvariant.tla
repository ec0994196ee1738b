-------------------------- MODULE ManagerInvariant --------------------------
(***************************************************************************)
(* The inductive invariant of RunDirectoryManager.                         *)
(***************************************************************************)
EXTENDS RunDirectoryManager

(* The critical section of the manager's lock *)
Critical == {"locked", "create", "start", "store", "unlock"}

Mutex == \A w \in Workers : pc[w] \in Critical <=> owner = w

(* Numbers above `created` are not in use. *)
Fresh ==
  /\ \A r \in Runs : observers[r] <= created
  /\ \A w \in Workers : holds[w] <= created
  /\ \A o \in Ids : o > created => runners[o] = 0

(* The map leads to observers of the right run. *)
MapRight == \A r \in Runs : observers[r] # 0 => runOf[observers[r]] = r

(* The thread that creates an observer has the one it put into the map,    *)
(* and nobody has started it.                                              *)
Creating ==
  \A w \in Workers :
    /\ pc[w] = "create" => observers[Run(w)] = 0
    /\ pc[w] \in {"start", "store", "unlock"} =>
         observers[Run(w)] # 0 /\ holds[w] = observers[Run(w)]
    /\ pc[w] = "start" => runners[holds[w]] = 0

(* Every observer in the map is started, or is being started by the thread *)
(* that has the lock.                                                      *)
Starting ==
  /\ \A r \in Runs :
       observers[r] # 0 =>
         \/ observers[r] \in started
         \/ \E w \in Workers : pc[w] \in {"start", "store"} /\ holds[w] = observers[r]
  /\ \A w \in Workers : pc[w] \in {"unlock", "use"} => holds[w] \in started

OneThreadEach == \A o \in Ids : runners[o] <= 1

(* Without /restart an observer stays in the map for good. *)
Permanent ==
  restarts = 0 =>
    /\ \A w \in Workers : Op(w) # "restart"
    /\ \A o \in 1 .. created : runOf[o] \in Runs /\ observers[runOf[o]] = o
    /\ freed = {}

(* Every number was given to a run that had no observer, or follows a      *)
(* /restart that has reached its erase().                                  *)
Occupied == {r \in Runs : observers[r] # 0}
Pending  == {w \in Workers : pc[w] \in {"lock", "locked"} /\ Op(w) = "restart"}

Counted == created + Cardinality(Pending) <= Cardinality(Occupied) + restarts

MInv ==
  /\ TypeOK
  /\ Mutex
  /\ Fresh
  /\ MapRight
  /\ Creating
  /\ Starting
  /\ OneThreadEach
  /\ Permanent
  /\ Counted
=============================================================================
