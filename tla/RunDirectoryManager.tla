------------------------ MODULE RunDirectoryManager ------------------------
(***************************************************************************)
(* bu::RunDirectoryManager (src/src/bu/RunDirectoryManager.{h,cc}): the    *)
(* map from runs to observers, the lock that protects it, and who owns an  *)
(* observer while server threads call into the manager.                    *)
(*                                                                         *)
(* An observer is owned by shared pointers: the map has one, and a call    *)
(* has one while it uses the observer.  When the last goes the observer is *)
(* freed.  Its runner, a detached thread, uses it through `this` and owns  *)
(* nothing; so does a reference to its error message.                      *)
(***************************************************************************)
EXTENDS Integers, FiniteSets

CONSTANTS
  Runs,          \* run numbers FUs ask for
  Workers,       \* the server threads
  MaxRestarts    \* bound: /restart requests

ASSUME ManagerAssumption ==
  /\ IsFiniteSet(Runs)
  /\ IsFiniteSet(Workers)
  /\ MaxRestarts \in Nat
  /\ 0 \notin Workers

VARIABLES
  observers,   \* runDirectoryObservers_: the observer of a run, 0 if none
  owner,       \* the thread that has runDirectoryManagerLock_, 0 if none
  created,     \* observers are numbered from 1 as they are constructed
  runOf,       \* the run each observer was constructed for
  started,     \* observers whose start() has returned
  runners,     \* how many runner threads each observer has
  freed,       \* observers whose last owner is gone
  restarts,    \* /restart requests so far
  pc,          \* where each server thread is
  call,        \* what it asks of the manager, and for which run
  holds,       \* the shared pointer it has, 0 if none
  refers       \* the observer it has a reference into, 0 if none

mapVars    == <<observers, created, runOf>>
threadVars == <<started, runners>>
vars == <<mapVars, owner, threadVars, freed, restarts, pc, call, holds, refers>>

Ids  == 1 .. Cardinality(Runs) + MaxRestarts
Ops  == {"popRunFile", "getStats", "getError", "restart", "getAllStats"}
Call == [op : Ops, run : Runs]

TypeOK ==
  /\ observers \in [Runs -> {0} \cup Ids]
  /\ owner \in {0} \cup Workers
  /\ created \in {0} \cup Ids
  /\ runOf \in [Ids -> Runs \cup {0}]
  /\ started \subseteq Ids
  /\ runners \in [Ids -> Nat]
  /\ freed \subseteq Ids
  /\ restarts \in 0 .. MaxRestarts
  /\ pc \in [Workers -> {"idle", "lock", "locked", "create", "start", "store",
                         "unlock", "use", "read"}]
  /\ call \in [Workers -> Call]
  /\ holds \in [Workers -> {0} \cup Ids]
  /\ refers \in [Workers -> {0} \cup Ids]

Init ==
  /\ observers = [r \in Runs |-> 0]
  /\ owner = 0
  /\ created = 0
  /\ runOf = [o \in Ids |-> 0]
  /\ started = {}
  /\ runners = [o \in Ids |-> 0]
  /\ freed = {}
  /\ restarts = 0
  /\ pc = [w \in Workers |-> "idle"]
  /\ call \in [Workers -> [op : {"popRunFile"}, run : Runs]]
  /\ holds = [w \in Workers |-> 0]
  /\ refers = [w \in Workers |-> 0]

GoTo(w, where)  == pc' = [pc EXCEPT ![w] = where]
Hold(w, o)      == holds' = [holds EXCEPT ![w] = o]
Run(w)          == call[w].run
Op(w)           == call[w].op

(* The destructors a step runs. *)
Free ==
  freed' = {o \in 1 .. created' : /\ \A r \in Runs : observers'[r] # o
                                  /\ \A w \in Workers : holds'[w] # o}

-----------------------------------------------------------------------------
(* A request comes; /popfile, /stats (one run or all) and /restart. *)
Begin(w) ==
  /\ pc[w] = "idle"
  /\ \E c \in Call :
       /\ c.op # "getError"
       /\ c.op = "restart" => restarts < MaxRestarts
       /\ call' = [call EXCEPT ![w] = c]
       /\ restarts' = IF c.op = "restart" THEN restarts + 1 ELSE restarts
  /\ GoTo(w, "lock")
  /\ UNCHANGED <<mapVars, owner, threadVars, freed, holds, refers>>

(* Plausible slip: no lock. *)
LockIgnored == TRUE

LockFree == owner = 0

Lock(w) ==
  /\ pc[w] = "lock"
  /\ LockFree
  /\ owner' = w
  /\ GoTo(w, "locked")
  /\ UNCHANGED <<mapVars, threadVars, freed, restarts, call, holds, refers>>

(* getRunDirectoryObserver() *)
FindsObserver(w) ==
  /\ pc[w] = "locked"
  /\ Op(w) \in {"popRunFile", "getStats", "getError"}
  /\ observers[Run(w)] # 0
  /\ Hold(w, observers[Run(w)])
  /\ owner' = 0
  /\ GoTo(w, "use")
  /\ UNCHANGED <<mapVars, threadVars, restarts, call, refers>>
  /\ Free

FindsNoObserver(w) ==
  /\ pc[w] = "locked"
  /\ Op(w) \in {"popRunFile", "getStats", "getError"}
  /\ observers[Run(w)] = 0
  /\ GoTo(w, "create")
  /\ UNCHANGED <<mapVars, owner, threadVars, freed, restarts, call, holds, refers>>

(* Plausible slip: the map left as it is. *)
EraseNothing(w) ==
  /\ pc[w] = "locked"
  /\ Op(w) = "restart"
  /\ GoTo(w, "create")
  /\ UNCHANGED <<mapVars, owner, threadVars, freed, restarts, call, holds, refers>>

(* restartRunDirectoryObserver() *)
Erase(w) ==
  /\ pc[w] = "locked"
  /\ Op(w) = "restart"
  /\ observers' = [observers EXCEPT ![Run(w)] = 0]
  /\ GoTo(w, "create")
  /\ UNCHANGED <<created, runOf, owner, threadVars, restarts, call, holds, refers>>
  /\ Free

(* getStats() of all runs, under the lock throughout *)
StatsOfAll(w) ==
  /\ pc[w] = "locked"
  /\ Op(w) = "getAllStats"
  /\ owner' = 0
  /\ GoTo(w, "idle")
  /\ UNCHANGED <<mapVars, threadVars, freed, restarts, call, holds, refers>>

(* createRunDirectoryObserver_unlocked(): emplace() keeps what is there. *)
Construct(w) ==
  /\ pc[w] = "create"
  /\ created' = created + 1
  /\ runOf' = [runOf EXCEPT ![created'] = Run(w)]
  /\ observers' = [observers EXCEPT ![Run(w)] = IF @ = 0 THEN created' ELSE @]
  /\ Hold(w, observers'[Run(w)])
  /\ GoTo(w, "start")
  /\ UNCHANGED <<owner, threadVars, restarts, call, refers>>
  /\ Free

(* start(): the runner begins before the states are stored. *)
StartThread(w) ==
  /\ pc[w] = "start"
  /\ runners' = [runners EXCEPT ![holds[w]] = @ + 1]
  /\ GoTo(w, "store")
  /\ UNCHANGED <<mapVars, owner, started, freed, restarts, call, holds, refers>>

StartStores(w) ==
  /\ pc[w] = "store"
  /\ started' = started \cup {holds[w]}
  /\ GoTo(w, "unlock")
  /\ UNCHANGED <<mapVars, owner, runners, freed, restarts, call, holds, refers>>

(* Plausible slip: /restart reports statistics before it unlocks. *)
UnlocksLate(w) ==
  /\ pc[w] = "unlock"
  /\ owner' = IF Op(w) = "restart" THEN owner ELSE 0
  /\ GoTo(w, IF Op(w) = "restart" THEN "lock" ELSE "use")
  /\ call' = [call EXCEPT ![w].op = IF @ = "restart" THEN "getStats" ELSE @]
  /\ UNCHANGED <<mapVars, threadVars, freed, restarts, holds, refers>>

(* The lock goes.  /restart has no use for the pointer; it asks for the    *)
(* statistics of the run next.                                             *)
Unlock(w) ==
  /\ pc[w] = "unlock"
  /\ owner' = 0
  /\ IF Op(w) = "restart"
     THEN /\ Hold(w, 0)
          /\ call' = [call EXCEPT ![w].op = "getStats"]
          /\ GoTo(w, "lock")
     ELSE /\ GoTo(w, "use")
          /\ UNCHANGED <<call, holds>>
  /\ UNCHANGED <<mapVars, threadVars, restarts, refers>>
  /\ Free

(* The call into the observer returns and the pointer goes.  /popfile asks *)
(* for the error message if the state is ERROR or NORUN.                   *)
Return(w) ==
  /\ pc[w] = "use"
  /\ Op(w) # "getError"
  /\ Hold(w, 0)
  /\ \/ GoTo(w, "idle") /\ UNCHANGED call
     \/ /\ Op(w) = "popRunFile"
        /\ call' = [call EXCEPT ![w].op = "getError"]
        /\ GoTo(w, "lock")
  /\ UNCHANGED <<mapVars, owner, threadVars, restarts, refers>>
  /\ Free

(* getError() returns a reference into the observer. *)
ReturnReference(w) ==
  /\ pc[w] = "use"
  /\ Op(w) = "getError"
  /\ refers' = [refers EXCEPT ![w] = holds[w]]
  /\ Hold(w, 0)
  /\ GoTo(w, "read")
  /\ UNCHANGED <<mapVars, owner, threadVars, restarts, call>>
  /\ Free

(* /popfile writes the message into its reply. *)
ReadMessage(w) ==
  /\ pc[w] = "read"
  /\ refers' = [refers EXCEPT ![w] = 0]
  /\ GoTo(w, "idle")
  /\ UNCHANGED <<mapVars, owner, threadVars, freed, restarts, call, holds>>

(* EoR, or no run directory *)
RunnerEnds(o) ==
  /\ runners[o] > 0
  /\ runners' = [runners EXCEPT ![o] = @ - 1]
  /\ UNCHANGED <<mapVars, owner, started, freed, restarts, pc, call, holds, refers>>

Serve(w) ==
  \/ FindsObserver(w) \/ FindsNoObserver(w) \/ Erase(w) \/ StatsOfAll(w)
  \/ Construct(w) \/ StartThread(w) \/ StartStores(w) \/ Unlock(w)
  \/ Return(w) \/ ReturnReference(w) \/ ReadMessage(w)

Next ==
  \/ \E w \in Workers : Begin(w) \/ Lock(w) \/ Serve(w)
  \/ \E o \in Ids : RunnerEnds(o)

Spec == Init /\ [][Next]_vars

-----------------------------------------------------------------------------
(***************************************************************************)
(* Properties                                                              *)
(***************************************************************************)

(* RunDirectoryManager.cc:102-104: emplace() never meets an observer that  *)
(* is there already, or the assertion ends the broker: the search and the  *)
(* creation are one critical section, and so are erasure and creation.     *)
EmplaceSucceeds ==
  \A w \in Workers : pc[w] = "create" => observers[Run(w)] = 0

(* Two runners of one run would hand out each of its files twice, and two  *)
(* of one observer would write its statistics at once: without /restart    *)
(* there is one.                                                           *)
OneRunnerPerRun ==
  restarts = 0 =>
    \A o, p \in Ids :
      runners[o] > 0 /\ runners[p] > 0 /\ runOf[o] = runOf[p]
        => o = p /\ runners[o] = 1

(* No request reaches an observer before start() has returned: STARTING is *)
(* not stored over a state an FU has seen.                                 *)
StartedWhenUsed ==
  \A w \in Workers : pc[w] = "use" => holds[w] \in started

(* RunDirectoryManager.cc:64-66 says of /restart that it leaks: what it    *)
(* erases then stays there, for the runner that still uses it.             *)
NoUseAfterFree ==
  \A o \in freed : runners[o] = 0 /\ \A w \in Workers : refers[w] # o

(* No thread waits for the lock it has: /restart needs it twice, for the   *)
(* new observer and for the statistics of the run, and must have given it  *)
(* back in between.                                                        *)
NeverLocksTwice == \A w \in Workers : pc[w] = "lock" => owner # w
=============================================================================
