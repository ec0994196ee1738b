---------------------- MODULE RunDirectoryManager_proofs ----------------------
(***************************************************************************)
(* Proofs about RunDirectoryManager: the inductive invariant, and what     *)
(* follows from it for every number of runs, threads and restarts.         *)
(***************************************************************************)
EXTENDS ManagerInvariant, FiniteSetTheorems, TLAPS

(* Observers are numbered from 1. *)
LEMMA IdsFacts ==
  /\ Cardinality(Runs) \in Nat
  /\ 0 \notin Ids
  /\ \A i \in {0} \cup Ids : i \in Nat
  /\ \A i \in Nat : 1 <= i /\ i <= Cardinality(Runs) + MaxRestarts => i \in Ids
BY FS_CardinalityType, ManagerAssumption DEF Ids

(* The sets that are counted are finite. *)
LEMMA CountedSets ==
  /\ IsFiniteSet(Pending) /\ Cardinality(Pending) \in Nat
  /\ IsFiniteSet(Occupied) /\ Cardinality(Occupied) \in Nat
  /\ Cardinality(Occupied) <= Cardinality(Runs)
<1>1. Pending \in SUBSET Workers /\ Occupied \in SUBSET Runs
  BY DEF Pending, Occupied
<1> QED
  BY <1>1, FS_Subset, FS_CardinalityType, ManagerAssumption

(* A run without an observer leaves room for one more number. *)
LEMMA RoomForOne ==
  ASSUME MInv, NEW r \in Runs, observers[r] = 0
  PROVE  created + 1 \in Ids
<1>1. Occupied \subseteq Runs \ {r}
  BY DEF Occupied
<1>2. /\ IsFiniteSet(Runs \ {r})
      /\ Cardinality(Runs \ {r}) = Cardinality(Runs) - 1
  BY FS_RemoveElement, ManagerAssumption
<1>3. Cardinality(Occupied) <= Cardinality(Runs) - 1
  BY <1>1, <1>2, FS_Subset
<1>4. created \in Nat /\ restarts \in 0 .. MaxRestarts
  BY IdsFacts DEF MInv, TypeOK
<1> QED
  BY <1>3, <1>4, CountedSets, IdsFacts, ManagerAssumption DEF MInv, Counted

LEMMA InitInvariant == Init => MInv
<1> SUFFICES ASSUME Init PROVE MInv
  OBVIOUS
<1> USE DEF Init
<1>1. TypeOK
  BY ManagerAssumption, IdsFacts DEF TypeOK, Call, Ops
<1>2. Mutex /\ Fresh /\ MapRight /\ Creating /\ Starting /\ OneThreadEach
  BY ManagerAssumption, IdsFacts DEF Mutex, Critical, Fresh, MapRight, Creating,
     Starting, OneThreadEach, Run
<1>3. Permanent
  BY DEF Permanent, Op
<1>4. Counted
  <2>1. Pending = {} /\ Occupied = {}
    BY DEF Pending, Occupied
  <2> QED
    BY <2>1, FS_EmptySet DEF Counted
<1> QED
  BY <1>1, <1>2, <1>3, <1>4 DEF MInv
(* What Free frees was constructed. *)
LEMMA FreeSafe ==
  ASSUME created' \in {0} \cup Ids, Free
  PROVE  freed' \subseteq Ids
<1>1. 1 .. created' \subseteq Ids
  BY FS_CardinalityType, ManagerAssumption DEF Ids
<1>2. freed' \subseteq 1 .. created'
  BY DEF Free
<1> QED
  BY <1>1, <1>2

(* It frees nothing as long as every observer is in the map. *)
LEMMA FreeNothing ==
  ASSUME Free, \A o \in 1 .. created' : runOf'[o] \in Runs /\ observers'[runOf'[o]] = o
  PROVE  freed' = {}
BY DEF Free

(* Nothing that is counted changes. *)
LEMMA SameCount ==
  ASSUME Counted, Pending' = Pending, Occupied' = Occupied,
         UNCHANGED <<created, restarts>>
  PROVE  Counted'
BY DEF Counted

(* A request comes. *)
LEMMA BeginStep ==
  ASSUME MInv, NEW w \in Workers, Begin(w)
  PROVE  MInv'
<1> USE DEF Begin, GoTo, Hold, Run, Op, mapVars, threadVars
<1>1. /\ TypeOK /\ Mutex /\ Fresh /\ MapRight /\ Creating /\ Starting
      /\ OneThreadEach /\ Permanent /\ Counted
      /\ call[w] \in Call /\ Run(w) \in Runs
  BY DEF MInv, TypeOK, Call
<1>2. TypeOK'
  BY <1>1, IdsFacts, ManagerAssumption DEF TypeOK, Call, Ops
<1>3. Mutex' /\ Fresh' /\ MapRight'
  BY <1>1, IdsFacts, ManagerAssumption DEF TypeOK, Mutex, Critical, Fresh, MapRight, Creating
<1>4. Creating'
  BY <1>1, IdsFacts DEF TypeOK, Mutex, Critical, Fresh, MapRight, Creating
<1>5. Starting'
  BY <1>1, IdsFacts DEF TypeOK, Mutex, Critical, Fresh, Creating, Starting
<1>6. OneThreadEach'
  BY <1>1, IdsFacts DEF TypeOK, Creating, OneThreadEach
<1>7. Permanent'
  BY <1>1, IdsFacts DEF TypeOK, Permanent, Call, Ids
<1>8. Counted'
  <2>1. Occupied' = Occupied
    BY DEF Occupied
  <2>2. CASE restarts' = restarts /\ call'[w].op # "restart"
    <3>1. Pending' = Pending
      BY <1>1, <2>2 DEF TypeOK, Pending
    <3> QED
      BY <1>1, <2>1, <2>2, <3>1, SameCount
  <2>3. CASE restarts' = restarts + 1 /\ call'[w].op = "restart"
    <3>1. Pending' = Pending \cup {w}
      BY <1>1, <2>3 DEF TypeOK, Pending
    <3>2. \/ Cardinality(Pending \cup {w}) = Cardinality(Pending)
          \/ Cardinality(Pending \cup {w}) = Cardinality(Pending) + 1
      BY FS_AddElement, CountedSets
    <3> QED
      BY <1>1, <2>1, <2>3, <3>1, <3>2, CountedSets, IdsFacts DEF Counted, TypeOK
  <2> QED
    BY <1>1, <2>2, <2>3 DEF TypeOK
<1> QED
  BY <1>2, <1>3, <1>4, <1>5, <1>6, <1>7, <1>8 DEF MInv

(* The lock is taken. *)
LEMMA LockStep ==
  ASSUME MInv, NEW w \in Workers, Lock(w)
  PROVE  MInv'
<1> USE DEF Lock, GoTo, Hold, Run, Op, mapVars, threadVars, LockFree
<1>1. /\ TypeOK /\ Mutex /\ Fresh /\ MapRight /\ Creating /\ Starting
      /\ OneThreadEach /\ Permanent /\ Counted
      /\ call[w] \in Call /\ Run(w) \in Runs
  BY DEF MInv, TypeOK, Call
<1>2. TypeOK'
  BY <1>1, IdsFacts, ManagerAssumption DEF TypeOK, Call, Ops
<1>3. Mutex' /\ Fresh' /\ MapRight'
  BY <1>1, IdsFacts, ManagerAssumption DEF TypeOK, Mutex, Critical, Fresh, MapRight, Creating
<1>4. Creating'
  BY <1>1, IdsFacts DEF TypeOK, Mutex, Critical, Fresh, MapRight, Creating
<1>5. Starting'
  BY <1>1, IdsFacts DEF TypeOK, Mutex, Critical, Fresh, Creating, Starting
<1>6. OneThreadEach'
  BY <1>1, IdsFacts DEF TypeOK, Creating, OneThreadEach
<1>7. Permanent'
  BY <1>1, IdsFacts DEF TypeOK, Permanent, Call, Ids
<1>8. Counted'
  <2>1. Pending' = Pending
    BY <1>1 DEF TypeOK, Pending, Call
  <2>2. Occupied' = Occupied
    BY DEF Occupied
  <2> QED
    BY <1>1, <2>1, <2>2, SameCount
<1> QED
  BY <1>2, <1>3, <1>4, <1>5, <1>6, <1>7, <1>8 DEF MInv

(* The run has an observer. *)
LEMMA FindsObserverStep ==
  ASSUME MInv, NEW w \in Workers, FindsObserver(w)
  PROVE  MInv'
<1> USE DEF FindsObserver, GoTo, Hold, Run, Op, mapVars, threadVars
<1>1. /\ TypeOK /\ Mutex /\ Fresh /\ MapRight /\ Creating /\ Starting
      /\ OneThreadEach /\ Permanent /\ Counted
      /\ call[w] \in Call /\ Run(w) \in Runs
  BY DEF MInv, TypeOK, Call
<1>2. TypeOK'
  BY <1>1, IdsFacts, FreeSafe, ManagerAssumption DEF TypeOK, Call, Ops
<1>3. Mutex' /\ Fresh' /\ MapRight'
  BY <1>1, IdsFacts, ManagerAssumption DEF TypeOK, Mutex, Critical, Fresh, MapRight, Creating
<1>4. Creating'
  BY <1>1, IdsFacts DEF TypeOK, Mutex, Critical, Fresh, MapRight, Creating
<1>5. Starting'
  BY <1>1, IdsFacts DEF TypeOK, Mutex, Critical, Fresh, Creating, Starting
<1>6. OneThreadEach'
  BY <1>1, IdsFacts DEF TypeOK, Creating, OneThreadEach
<1>7. Permanent'
  BY <1>1, IdsFacts, FreeNothing DEF TypeOK, Permanent, Call, Ids
<1>8. Counted'
  <2>1. Pending' = Pending
    BY <1>1 DEF TypeOK, Pending, Call
  <2>2. Occupied' = Occupied
    BY DEF Occupied
  <2> QED
    BY <1>1, <2>1, <2>2, SameCount
<1> QED
  BY <1>2, <1>3, <1>4, <1>5, <1>6, <1>7, <1>8 DEF MInv

(* The run has none. *)
LEMMA FindsNoObserverStep ==
  ASSUME MInv, NEW w \in Workers, FindsNoObserver(w)
  PROVE  MInv'
<1> USE DEF FindsNoObserver, GoTo, Hold, Run, Op, mapVars, threadVars
<1>1. /\ TypeOK /\ Mutex /\ Fresh /\ MapRight /\ Creating /\ Starting
      /\ OneThreadEach /\ Permanent /\ Counted
      /\ call[w] \in Call /\ Run(w) \in Runs
  BY DEF MInv, TypeOK, Call
<1>2. TypeOK'
  BY <1>1, IdsFacts, ManagerAssumption DEF TypeOK, Call, Ops
<1>3. Mutex' /\ Fresh' /\ MapRight'
  BY <1>1, IdsFacts, ManagerAssumption DEF TypeOK, Mutex, Critical, Fresh, MapRight, Creating
<1>4. Creating'
  BY <1>1, IdsFacts DEF TypeOK, Mutex, Critical, Fresh, MapRight, Creating
<1>5. Starting'
  BY <1>1, IdsFacts DEF TypeOK, Mutex, Critical, Fresh, Creating, Starting
<1>6. OneThreadEach'
  BY <1>1, IdsFacts DEF TypeOK, Creating, OneThreadEach
<1>7. Permanent'
  BY <1>1, IdsFacts DEF TypeOK, Permanent, Call, Ids
<1>8. Counted'
  <2>1. Pending' = Pending
    BY <1>1 DEF TypeOK, Pending, Call
  <2>2. Occupied' = Occupied
    BY DEF Occupied
  <2> QED
    BY <1>1, <2>1, <2>2, SameCount
<1> QED
  BY <1>2, <1>3, <1>4, <1>5, <1>6, <1>7, <1>8 DEF MInv

(* /restart *)
LEMMA EraseStep ==
  ASSUME MInv, NEW w \in Workers, Erase(w)
  PROVE  MInv'
<1> USE DEF Erase, GoTo, Hold, Run, Op, mapVars, threadVars
<1>1. /\ TypeOK /\ Mutex /\ Fresh /\ MapRight /\ Creating /\ Starting
      /\ OneThreadEach /\ Permanent /\ Counted
      /\ call[w] \in Call /\ Run(w) \in Runs
  BY DEF MInv, TypeOK, Call
<1>2. TypeOK'
  BY <1>1, IdsFacts, FreeSafe, ManagerAssumption DEF TypeOK, Call, Ops
<1>3. Mutex' /\ Fresh' /\ MapRight'
  BY <1>1, IdsFacts, ManagerAssumption DEF TypeOK, Mutex, Critical, Fresh, MapRight, Creating
<1>4. Creating'
  BY <1>1, IdsFacts DEF TypeOK, Mutex, Critical, Fresh, MapRight, Creating
<1>5. Starting'
  BY <1>1, IdsFacts DEF TypeOK, Mutex, Critical, Fresh, Creating, Starting
<1>6. OneThreadEach'
  BY <1>1, IdsFacts DEF TypeOK, Creating, OneThreadEach
<1>7. Permanent'
  BY <1>1, IdsFacts, FreeNothing DEF TypeOK, Permanent, Call, Ids
<1>8. Counted'
  <2>1. Pending' = Pending \ {w} /\ w \in Pending
    BY <1>1 DEF TypeOK, Pending
  <2>2. Occupied' = Occupied \ {Run(w)}
    BY <1>1, IdsFacts DEF TypeOK, Occupied
  <2>3. Cardinality(Pending') = Cardinality(Pending) - 1
    BY <2>1, FS_RemoveElement, CountedSets
  <2>4. \/ Cardinality(Occupied \ {Run(w)}) = Cardinality(Occupied)
        \/ Cardinality(Occupied \ {Run(w)}) = Cardinality(Occupied) - 1
    BY FS_RemoveElement, CountedSets
  <2> QED
    BY <1>1, <2>2, <2>3, <2>4, CountedSets, IdsFacts DEF Counted, TypeOK
<1> QED
  BY <1>2, <1>3, <1>4, <1>5, <1>6, <1>7, <1>8 DEF MInv

(* Statistics of all runs *)
LEMMA StatsOfAllStep ==
  ASSUME MInv, NEW w \in Workers, StatsOfAll(w)
  PROVE  MInv'
<1> USE DEF StatsOfAll, GoTo, Hold, Run, Op, mapVars, threadVars
<1>1. /\ TypeOK /\ Mutex /\ Fresh /\ MapRight /\ Creating /\ Starting
      /\ OneThreadEach /\ Permanent /\ Counted
      /\ call[w] \in Call /\ Run(w) \in Runs
  BY DEF MInv, TypeOK, Call
<1>2. TypeOK'
  BY <1>1, IdsFacts, ManagerAssumption DEF TypeOK, Call, Ops
<1>3. Mutex' /\ Fresh' /\ MapRight'
  BY <1>1, IdsFacts, ManagerAssumption DEF TypeOK, Mutex, Critical, Fresh, MapRight, Creating
<1>4. Creating'
  BY <1>1, IdsFacts DEF TypeOK, Mutex, Critical, Fresh, MapRight, Creating
<1>5. Starting'
  BY <1>1, IdsFacts DEF TypeOK, Mutex, Critical, Fresh, Creating, Starting
<1>6. OneThreadEach'
  BY <1>1, IdsFacts DEF TypeOK, Creating, OneThreadEach
<1>7. Permanent'
  BY <1>1, IdsFacts DEF TypeOK, Permanent, Call, Ids
<1>8. Counted'
  <2>1. Pending' = Pending
    BY <1>1 DEF TypeOK, Pending, Call
  <2>2. Occupied' = Occupied
    BY DEF Occupied
  <2> QED
    BY <1>1, <2>1, <2>2, SameCount
<1> QED
  BY <1>2, <1>3, <1>4, <1>5, <1>6, <1>7, <1>8 DEF MInv

(* An observer enters the map. *)
LEMMA ConstructStep ==
  ASSUME MInv, NEW w \in Workers, Construct(w)
  PROVE  MInv'
<1> USE DEF Construct, GoTo, Hold, Run, Op, mapVars, threadVars
<1>1. /\ TypeOK /\ Mutex /\ Fresh /\ MapRight /\ Creating /\ Starting
      /\ OneThreadEach /\ Permanent /\ Counted
      /\ call[w] \in Call /\ Run(w) \in Runs
  BY DEF MInv, TypeOK, Call
<1>0. created + 1 \in Ids /\ observers[Run(w)] = 0 /\ created \in Nat /\ created + 1 # 0
  BY <1>1, RoomForOne, IdsFacts DEF Creating, TypeOK
<1>2. TypeOK'
  BY <1>1, <1>0, IdsFacts, FreeSafe, ManagerAssumption DEF TypeOK, Call, Ops
<1>3. Mutex' /\ Fresh' /\ MapRight'
  <2>1. Mutex'
    BY <1>1 DEF TypeOK, Mutex, Critical
  <2>2. Fresh'
    <3>1. /\ created' = created + 1
          /\ \A r \in Runs : observers'[r] \in {observers[r], created + 1}
          /\ \A v \in Workers : holds'[v] \in {holds[v], created + 1}
      BY <1>1, <1>0 DEF TypeOK
    <3>2. /\ \A r \in Runs : observers[r] \in Nat
          /\ \A v \in Workers : holds[v] \in Nat
          /\ \A o \in Ids : o \in Nat
      BY <1>1, IdsFacts DEF TypeOK
    <3> QED
      BY <1>0, <1>1, <3>1, <3>2 DEF Fresh
  <2>3. MapRight'
    BY <1>1, <1>0, IdsFacts DEF TypeOK, Fresh, MapRight
  <2> QED
    BY <2>1, <2>2, <2>3
<1>4. Creating'
  BY <1>1, <1>0, IdsFacts DEF TypeOK, Mutex, Critical, Fresh, MapRight, Creating
<1>5. Starting'
  BY <1>1, <1>0, IdsFacts DEF TypeOK, Mutex, Critical, Fresh, Creating, Starting
<1>6. OneThreadEach'
  BY <1>1, <1>0, IdsFacts DEF TypeOK, Creating, OneThreadEach
<1>7. Permanent'
  BY <1>1, <1>0, IdsFacts, FreeNothing DEF TypeOK, Permanent, Call, Ids
<1>8. Counted'
  <2>1. Pending' = Pending
    BY <1>1 DEF TypeOK, Pending
  <2>2. Occupied' = Occupied \cup {Run(w)} /\ Run(w) \notin Occupied
    BY <1>1, <1>0 DEF TypeOK, Occupied
  <2>3. Cardinality(Occupied') = Cardinality(Occupied) + 1
    BY <2>2, FS_AddElement, CountedSets
  <2> QED
    BY <1>1, <1>0, <2>1, <2>3, CountedSets DEF Counted, TypeOK
<1> QED
  BY <1>2, <1>3, <1>4, <1>5, <1>6, <1>7, <1>8 DEF MInv

(* Its runner begins. *)
LEMMA StartThreadStep ==
  ASSUME MInv, NEW w \in Workers, StartThread(w)
  PROVE  MInv'
<1> USE DEF StartThread, GoTo, Hold, Run, Op, mapVars, threadVars
<1>1. /\ TypeOK /\ Mutex /\ Fresh /\ MapRight /\ Creating /\ Starting
      /\ OneThreadEach /\ Permanent /\ Counted
      /\ call[w] \in Call /\ Run(w) \in Runs
  BY DEF MInv, TypeOK, Call
<1>0. holds[w] \in Ids /\ holds[w] = observers[Run(w)]
  BY <1>1, IdsFacts DEF Creating, TypeOK
<1>2. TypeOK'
  BY <1>1, <1>0, IdsFacts, ManagerAssumption DEF TypeOK, Call, Ops
<1>3. Mutex' /\ Fresh' /\ MapRight'
  <2>1. Mutex'
    BY <1>1 DEF TypeOK, Mutex, Critical
  <2>2. Fresh'
    <3>1. holds[w] <= created /\ created \in Nat /\ \A o \in Ids : o \in Nat
      BY <1>1, IdsFacts DEF TypeOK, Fresh
    <3>2. \A o \in Ids : o > created => runners'[o] = runners[o]
      BY <1>0, <1>1, <3>1 DEF TypeOK
    <3> QED
      BY <1>1, <3>2 DEF Fresh
  <2>3. MapRight'
    BY <1>1, <1>0, IdsFacts DEF TypeOK, Fresh, MapRight
  <2> QED
    BY <2>1, <2>2, <2>3
<1>4. Creating'
  BY <1>1, <1>0, IdsFacts DEF TypeOK, Mutex, Critical, Fresh, MapRight, Creating
<1>5. Starting'
  BY <1>1, <1>0, IdsFacts DEF TypeOK, Mutex, Critical, Fresh, Creating, Starting
<1>6. OneThreadEach'
  BY <1>1, <1>0, IdsFacts DEF TypeOK, Creating, OneThreadEach
<1>7. Permanent'
  BY <1>1, <1>0, IdsFacts DEF TypeOK, Permanent, Call, Ids
<1>8. Counted'
  <2>1. Pending' = Pending
    BY <1>1 DEF TypeOK, Pending, Call
  <2>2. Occupied' = Occupied
    BY DEF Occupied
  <2> QED
    BY <1>1, <2>1, <2>2, SameCount
<1> QED
  BY <1>2, <1>3, <1>4, <1>5, <1>6, <1>7, <1>8 DEF MInv

(* start() returns. *)
LEMMA StartStoresStep ==
  ASSUME MInv, NEW w \in Workers, StartStores(w)
  PROVE  MInv'
<1> USE DEF StartStores, GoTo, Hold, Run, Op, mapVars, threadVars
<1>1. /\ TypeOK /\ Mutex /\ Fresh /\ MapRight /\ Creating /\ Starting
      /\ OneThreadEach /\ Permanent /\ Counted
      /\ call[w] \in Call /\ Run(w) \in Runs
  BY DEF MInv, TypeOK, Call
<1>0. holds[w] \in Ids /\ holds[w] = observers[Run(w)]
  BY <1>1, IdsFacts DEF Creating, TypeOK
<1>2. TypeOK'
  BY <1>1, <1>0, IdsFacts, ManagerAssumption DEF TypeOK, Call, Ops
<1>3. Mutex' /\ Fresh' /\ MapRight'
  BY <1>1, <1>0, IdsFacts, ManagerAssumption DEF TypeOK, Mutex, Critical, Fresh, MapRight, Creating
<1>4. Creating'
  BY <1>1, <1>0, IdsFacts DEF TypeOK, Mutex, Critical, Fresh, MapRight, Creating
<1>5. Starting'
  BY <1>1, <1>0, IdsFacts DEF TypeOK, Mutex, Critical, Fresh, Creating, Starting
<1>6. OneThreadEach'
  BY <1>1, <1>0, IdsFacts DEF TypeOK, Creating, OneThreadEach
<1>7. Permanent'
  BY <1>1, <1>0, IdsFacts DEF TypeOK, Permanent, Call, Ids
<1>8. Counted'
  <2>1. Pending' = Pending
    BY <1>1 DEF TypeOK, Pending, Call
  <2>2. Occupied' = Occupied
    BY DEF Occupied
  <2> QED
    BY <1>1, <2>1, <2>2, SameCount
<1> QED
  BY <1>2, <1>3, <1>4, <1>5, <1>6, <1>7, <1>8 DEF MInv

(* The lock is given back. *)
LEMMA UnlockStep ==
  ASSUME MInv, NEW w \in Workers, Unlock(w)
  PROVE  MInv'
<1> USE DEF Unlock, GoTo, Hold, Run, Op, mapVars, threadVars
<1>1. /\ TypeOK /\ Mutex /\ Fresh /\ MapRight /\ Creating /\ Starting
      /\ OneThreadEach /\ Permanent /\ Counted
      /\ call[w] \in Call /\ Run(w) \in Runs
  BY DEF MInv, TypeOK, Call
<1>2. TypeOK'
  <2>1. freed' \subseteq Ids
    BY <1>1, FreeSafe DEF TypeOK
  <2>2. CASE Op(w) = "restart"
    <3>1. call' \in [Workers -> Call]
      BY <1>1, <2>2 DEF TypeOK, Call, Ops
    <3> QED
      BY <1>1, <2>1, <2>2, <3>1 DEF TypeOK
  <2>3. CASE Op(w) # "restart"
    BY <1>1, <2>1, <2>3 DEF TypeOK
  <2> QED
    BY <2>2, <2>3
<1>3. Mutex' /\ Fresh' /\ MapRight'
  BY <1>1, IdsFacts, ManagerAssumption DEF TypeOK, Mutex, Critical, Fresh, MapRight, Creating
<1>4. Creating'
  BY <1>1, IdsFacts DEF TypeOK, Mutex, Critical, Fresh, MapRight, Creating
<1>5. Starting'
  BY <1>1, IdsFacts DEF TypeOK, Mutex, Critical, Fresh, Creating, Starting
<1>6. OneThreadEach'
  BY <1>1, IdsFacts DEF TypeOK, Creating, OneThreadEach
<1>7. Permanent'
  BY <1>1, IdsFacts, FreeNothing DEF TypeOK, Permanent, Call, Ids
<1>8. Counted'
  <2>1. Pending' = Pending
    BY <1>1 DEF TypeOK, Pending, Call
  <2>2. Occupied' = Occupied
    BY DEF Occupied
  <2> QED
    BY <1>1, <2>1, <2>2, SameCount
<1> QED
  BY <1>2, <1>3, <1>4, <1>5, <1>6, <1>7, <1>8 DEF MInv

(* A call into an observer returns. *)
LEMMA ReturnStep ==
  ASSUME MInv, NEW w \in Workers, Return(w)
  PROVE  MInv'
<1> USE DEF Return, GoTo, Hold, Run, Op, mapVars, threadVars
<1>1. /\ TypeOK /\ Mutex /\ Fresh /\ MapRight /\ Creating /\ Starting
      /\ OneThreadEach /\ Permanent /\ Counted
      /\ call[w] \in Call /\ Run(w) \in Runs
  BY DEF MInv, TypeOK, Call
<1>2. TypeOK'
  <2>1. freed' \subseteq Ids
    BY <1>1, FreeSafe DEF TypeOK
  <2>2. /\ pc' \in [Workers -> {"idle", "lock", "locked", "create", "start", "store",
                              "unlock", "use", "read"}]
        /\ call' \in [Workers -> Call]
    BY <1>1 DEF TypeOK, Call, Ops
  <2> QED
    BY <1>1, <2>1, <2>2 DEF TypeOK
<1>3. Mutex' /\ Fresh' /\ MapRight'
  BY <1>1, IdsFacts, ManagerAssumption DEF TypeOK, Mutex, Critical, Fresh, MapRight, Creating
<1>4. Creating'
  BY <1>1, IdsFacts DEF TypeOK, Mutex, Critical, Fresh, MapRight, Creating
<1>5. Starting'
  BY <1>1, IdsFacts DEF TypeOK, Mutex, Critical, Fresh, Creating, Starting
<1>6. OneThreadEach'
  BY <1>1, IdsFacts DEF TypeOK, Creating, OneThreadEach
<1>7. Permanent'
  BY <1>1, IdsFacts, FreeNothing DEF TypeOK, Permanent, Call, Ids
<1>8. Counted'
  <2>1. Pending' = Pending
    BY <1>1 DEF TypeOK, Pending, Call
  <2>2. Occupied' = Occupied
    BY DEF Occupied
  <2> QED
    BY <1>1, <2>1, <2>2, SameCount
<1> QED
  BY <1>2, <1>3, <1>4, <1>5, <1>6, <1>7, <1>8 DEF MInv

(* getError() returns. *)
LEMMA ReturnReferenceStep ==
  ASSUME MInv, NEW w \in Workers, ReturnReference(w)
  PROVE  MInv'
<1> USE DEF ReturnReference, GoTo, Hold, Run, Op, mapVars, threadVars
<1>1. /\ TypeOK /\ Mutex /\ Fresh /\ MapRight /\ Creating /\ Starting
      /\ OneThreadEach /\ Permanent /\ Counted
      /\ call[w] \in Call /\ Run(w) \in Runs
  BY DEF MInv, TypeOK, Call
<1>2. TypeOK'
  <2>1. freed' \subseteq Ids
    BY <1>1, FreeSafe DEF TypeOK
  <2>2. /\ pc' \in [Workers -> {"idle", "lock", "locked", "create", "start", "store",
                              "unlock", "use", "read"}]
        /\ call' \in [Workers -> Call]
    BY <1>1 DEF TypeOK, Call, Ops
  <2> QED
    BY <1>1, <2>1, <2>2 DEF TypeOK
<1>3. Mutex' /\ Fresh' /\ MapRight'
  BY <1>1, IdsFacts, ManagerAssumption DEF TypeOK, Mutex, Critical, Fresh, MapRight, Creating
<1>4. Creating'
  BY <1>1, IdsFacts DEF TypeOK, Mutex, Critical, Fresh, MapRight, Creating
<1>5. Starting'
  BY <1>1, IdsFacts DEF TypeOK, Mutex, Critical, Fresh, Creating, Starting
<1>6. OneThreadEach'
  BY <1>1, IdsFacts DEF TypeOK, Creating, OneThreadEach
<1>7. Permanent'
  BY <1>1, IdsFacts, FreeNothing DEF TypeOK, Permanent, Call, Ids
<1>8. Counted'
  <2>1. Pending' = Pending
    BY <1>1 DEF TypeOK, Pending, Call
  <2>2. Occupied' = Occupied
    BY DEF Occupied
  <2> QED
    BY <1>1, <2>1, <2>2, SameCount
<1> QED
  BY <1>2, <1>3, <1>4, <1>5, <1>6, <1>7, <1>8 DEF MInv

(* The message is read. *)
LEMMA ReadMessageStep ==
  ASSUME MInv, NEW w \in Workers, ReadMessage(w)
  PROVE  MInv'
<1> USE DEF ReadMessage, GoTo, Hold, Run, Op, mapVars, threadVars
<1>1. /\ TypeOK /\ Mutex /\ Fresh /\ MapRight /\ Creating /\ Starting
      /\ OneThreadEach /\ Permanent /\ Counted
      /\ call[w] \in Call /\ Run(w) \in Runs
  BY DEF MInv, TypeOK, Call
<1>2. TypeOK'
  BY <1>1, IdsFacts, ManagerAssumption DEF TypeOK, Call, Ops
<1>3. Mutex' /\ Fresh' /\ MapRight'
  BY <1>1, IdsFacts, ManagerAssumption DEF TypeOK, Mutex, Critical, Fresh, MapRight, Creating
<1>4. Creating'
  BY <1>1, IdsFacts DEF TypeOK, Mutex, Critical, Fresh, MapRight, Creating
<1>5. Starting'
  BY <1>1, IdsFacts DEF TypeOK, Mutex, Critical, Fresh, Creating, Starting
<1>6. OneThreadEach'
  BY <1>1, IdsFacts DEF TypeOK, Creating, OneThreadEach
<1>7. Permanent'
  BY <1>1, IdsFacts DEF TypeOK, Permanent, Call, Ids
<1>8. Counted'
  <2>1. Pending' = Pending
    BY <1>1 DEF TypeOK, Pending, Call
  <2>2. Occupied' = Occupied
    BY DEF Occupied
  <2> QED
    BY <1>1, <2>1, <2>2, SameCount
<1> QED
  BY <1>2, <1>3, <1>4, <1>5, <1>6, <1>7, <1>8 DEF MInv

(* A runner ends. *)
LEMMA RunnerEndsStep ==
  ASSUME MInv, NEW o \in Ids, RunnerEnds(o)
  PROVE  MInv'
<1> USE DEF RunnerEnds, mapVars
<1>1. /\ TypeOK /\ Mutex /\ Fresh /\ MapRight /\ Creating /\ Starting
      /\ OneThreadEach /\ Permanent /\ Counted
  BY DEF MInv
<1>2. runners[o] \in Nat /\ runners' = [runners EXCEPT ![o] = runners[o] - 1]
  BY <1>1 DEF TypeOK
<1>3. \A p \in Ids : runners'[p] \in Nat /\ runners'[p] <= runners[p]
  BY <1>1, <1>2 DEF TypeOK
<1>4. TypeOK'
  BY <1>1, <1>2, <1>3 DEF TypeOK
<1>5. Mutex' /\ MapRight' /\ Starting' /\ Permanent' /\ Counted'
  BY <1>1 DEF Mutex, MapRight, Starting, Permanent, Counted, Pending, Occupied, Op, Run
<1>6. Fresh' /\ OneThreadEach'
  BY <1>1, <1>3 DEF TypeOK, Fresh, OneThreadEach
<1>7. Creating'
  <2>1. \A w \in Workers : pc[w] = "start" => holds[w] \in Ids
    BY <1>1, IdsFacts DEF TypeOK, Creating
  <2>2. \A w \in Workers : pc[w] = "start" => runners'[holds[w]] = 0
    BY <1>1, <1>3, <2>1 DEF TypeOK, Creating
  <2> QED
    BY <1>1, <2>2 DEF Creating, Run
<1> QED
  BY <1>4, <1>5, <1>6, <1>7 DEF MInv

LEMMA StutteringStep == MInv /\ UNCHANGED vars => MInv'
BY DEF MInv, TypeOK, Mutex, Fresh, MapRight, Creating, Starting, OneThreadEach,
   Permanent, Counted, Pending, Occupied, Run, Op, vars, mapVars, threadVars

(* The invariant holds whatever the numbers of runs, server threads and    *)
(* /restart requests are.                                                  *)
THEOREM ManagerInvariantHolds == Spec => []MInv
<1>1. MInv /\ [Next]_vars => MInv'
  <2> SUFFICES ASSUME MInv, [Next]_vars PROVE MInv'
    OBVIOUS
  <2>1. ASSUME NEW w \in Workers, Begin(w) \/ Lock(w) PROVE MInv'
    BY <2>1, BeginStep, LockStep
  <2>2. ASSUME NEW w \in Workers, Serve(w) PROVE MInv'
    BY <2>2, FindsObserverStep, FindsNoObserverStep, EraseStep, StatsOfAllStep,
       ConstructStep, StartThreadStep, StartStoresStep, UnlockStep, ReturnStep,
       ReturnReferenceStep, ReadMessageStep DEF Serve
  <2>3. ASSUME NEW o \in Ids, RunnerEnds(o) PROVE MInv'
    BY <2>3, RunnerEndsStep
  <2> QED
    BY <2>1, <2>2, <2>3, StutteringStep DEF Next
<1> QED
  BY InitInvariant, <1>1, PTL DEF Spec

(* The assertion behind emplace() cannot fail: a thread that creates an    *)
(* observer finds its run without one.                                     *)
THEOREM EmplaceNeverFails == Spec => []EmplaceSucceeds
<1>1. MInv => EmplaceSucceeds
  BY DEF MInv, Creating, EmplaceSucceeds
<1> QED
  BY <1>1, ManagerInvariantHolds, PTL

(* A thread that waits for the manager's lock does not have it. *)
THEOREM LocksOnce == Spec => []NeverLocksTwice
<1>1. MInv => NeverLocksTwice
  BY DEF MInv, Mutex, Critical, NeverLocksTwice
<1> QED
  BY <1>1, ManagerInvariantHolds, PTL

(* A request uses an observer only after its start() has returned. *)
THEOREM UsedOnceStarted == Spec => []StartedWhenUsed
<1>1. MInv => StartedWhenUsed
  BY DEF MInv, Starting, StartedWhenUsed
<1> QED
  BY <1>1, ManagerInvariantHolds, PTL

(* Without /restart a run has one runner. *)
THEOREM SingleRunner == Spec => []OneRunnerPerRun
<1>1. MInv => OneRunnerPerRun
  <2> SUFFICES ASSUME MInv, restarts = 0, NEW o \in Ids, NEW p \in Ids,
                      runners[o] > 0, runners[p] > 0, runOf[o] = runOf[p]
               PROVE  o = p /\ runners[o] = 1
    BY DEF OneRunnerPerRun
  <2>1. created \in Nat /\ o \in Nat /\ p \in Nat /\ runners[o] \in Nat /\ runners[p] \in Nat
    BY IdsFacts DEF MInv, TypeOK
  <2>2. o \in 1 .. created /\ p \in 1 .. created
    BY <2>1 DEF MInv, Fresh, Ids
  <2>3. observers[runOf[o]] = o /\ observers[runOf[p]] = p
    BY <2>2 DEF MInv, Permanent
  <2>4. runners[o] <= 1
    BY DEF MInv, OneThreadEach
  <2> QED
    BY <2>1, <2>3, <2>4
<1> QED
  BY <1>1, ManagerInvariantHolds, PTL

(* Without /restart nobody uses an observer that was freed. *)
THEOREM NothingUsedAfterFree ==
  ASSUME MaxRestarts = 0
  PROVE  Spec => []NoUseAfterFree
<1>1. MInv => NoUseAfterFree
  <2> SUFFICES ASSUME MInv PROVE freed = {}
    BY DEF NoUseAfterFree
  <2>1. restarts = 0
    BY DEF MInv, TypeOK
  <2> QED
    BY <2>1 DEF MInv, Permanent
<1> QED
  BY <1>1, ManagerInvariantHolds, PTL
=============================================================================
