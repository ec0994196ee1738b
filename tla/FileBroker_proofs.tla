-------------------------- MODULE FileBroker_proofs --------------------------
(***************************************************************************)
(* Proofs about FileBroker, for every run, every number of server threads, *)
(* of crashes and of /restart requests.                                    *)
(***************************************************************************)
EXTENDS BrokerInvariant, QueueLoops, FileNames, FileInfo_proofs, WellFoundedInduction

(***************************************************************************)
(* The operators of FileQueue                                              *)
(***************************************************************************)

LEMMA ScoreIsNat ==
  ASSUME NEW f \in FileInfos
  PROVE  Score(f) \in Nat
<1>1. f.lumiSection \in Nat /\ f.index \in Nat /\ IndexSpan \in Nat /\ EoRBit \in Nat
  BY FileInfoFields, WidthAssumption
<1>2. f.lumiSection * (2 * IndexSpan) \in Nat
  BY <1>1
<1> QED
  BY <1>1, <1>2 DEF Score

(* A set of naturals has a least element. *)
LEMMA LeastNatural ==
  ASSUME NEW T, T \subseteq Nat, T # {}
  PROVE  \E m \in T : \A k \in T : m <= k
<1>1. PICK m \in T : \A k \in T : ~ (<<k, m>> \in OpToRel(<, Nat))
  BY WFMin, NatLessThanWellFounded
<1>2. \A k \in T : ~ (k < m)
  BY <1>1 DEF OpToRel
<1> QED
  BY <1>2

(* The queue has a first file. *)
LEMMA FirstFile ==
  ASSUME NEW S, S \subseteq FileInfos, S # {}
  PROVE  \E f \in S : IsLeast(f, S)
<1> DEFINE T == {Score(f) : f \in S}
<1>1. T \subseteq Nat /\ T # {}
  BY ScoreIsNat
<1>2. PICK m \in T : \A k \in T : m <= k
  BY <1>1, LeastNatural
<1> QED
  BY <1>2 DEF IsLeast

(* LastClosed picks the last lumisection of the markers and the one given. *)
LEMMA LastClosedFacts ==
  ASSUME NEW S, S \subseteq FileInfos, NEW known \in 0 .. MaxLumiSection
  PROVE  /\ LastClosed(S, known) \in 0 .. MaxLumiSection
         /\ \/ LastClosed(S, known) = known
            \/ \E m \in S : IsEoLS(m) /\ m.lumiSection = LastClosed(S, known)
         /\ known <= LastClosed(S, known)
         /\ \A m \in S : IsEoLS(m) => m.lumiSection <= LastClosed(S, known)
<1> DEFINE closed == {known} \cup {m.lumiSection : m \in {m \in S : IsEoLS(m)}}
           left == {MaxLumiSection - n : n \in closed}
<1>1. MaxLumiSection \in Nat /\ closed \subseteq 0 .. MaxLumiSection
  BY FileInfoFields, WidthAssumption
<1>2. left \subseteq Nat /\ left # {}
  BY <1>1
<1>3. PICK m \in left : \A k \in left : m <= k
  BY <1>2, LeastNatural
<1>4. PICK n \in closed : m = MaxLumiSection - n
  OBVIOUS
<1>5. ASSUME NEW k \in closed PROVE k <= n
  <2>1. MaxLumiSection - k \in left
    OBVIOUS
  <2>2. MaxLumiSection - n <= MaxLumiSection - k
    BY <1>3, <1>4, <2>1
  <2>3. k \in Int /\ n \in Int /\ MaxLumiSection \in Int
    BY <1>1
  <2> HIDE DEF closed, left
  <2> QED
    BY <2>2, <2>3
<1>6. LastClosed(S, known) \in closed /\ \A k \in closed : k <= LastClosed(S, known)
  BY <1>5 DEF LastClosed
<1> QED
  BY <1>1, <1>6

(* A pop gives an index file of the queue and removes it, or no file. *)
LEMMA PoppedFacts ==
  ASSUME NEW S, S \subseteq FileInfos, NEW known \in 0 .. MaxLumiSection
  PROVE  /\ Popped(S, known).queue \subseteq S
         /\ \/ Popped(S, known).file = NoFile
            \/ /\ Popped(S, known).file \in S
               /\ ~IsMarker(Popped(S, known).file)
               /\ Popped(S, known).file \notin Popped(S, known).queue
         /\ Popped(S, known).lastEoLS \in 0 .. MaxLumiSection
         /\ Popped(S, known).ended \in BOOLEAN
<1> DEFINE passed == PassedEoLS(S, known)
           now    == LastClosed(passed, known)
           rest   == S \ passed
           ready  == {f \in rest : ~IsMarker(f) /\ f.lumiSection = now + 1}
           first  == IF ready = {} THEN NoFile ELSE CHOOSE f \in ready : IsLeast(f, ready)
           atEnd  == rest # {} /\ \A r \in rest : IsEoR(r)
<1>1. passed \subseteq S
  BY DEF PassedEoLS
<1>2. now \in 0 .. MaxLumiSection
  BY <1>1, LastClosedFacts
<1>3. first = NoFile \/ first \in ready
  <2>1. ready \subseteq FileInfos
    OBVIOUS
  <2> QED
    BY <2>1, FirstFile
<1>4. atEnd => ready = {}
  BY DEF IsMarker
<1>5. Popped(S, known) =
        [file |-> first, queue |-> IF atEnd THEN {} ELSE rest \ {first},
         lastEoLS |-> now, ended |-> atEnd]
  BY DEF Popped
<1> HIDE DEF passed, now, first, atEnd
<1>6. first \in ready => first \in S /\ ~IsMarker(first)
  OBVIOUS
<1>7. atEnd \in BOOLEAN
  BY DEF atEnd
<1> QED
  BY <1>2, <1>3, <1>5, <1>6, <1>7

(* An observer without files has nothing to give and nothing to report. *)
LEMMA PoppedNothing == Popped({}, 0).lastEoLS = 0 /\ Popped({}, 0).ended = FALSE
<1>1. PassedEoLS({}, 0) = {}
  BY DEF PassedEoLS
<1>2. LastClosed({}, 0) = 0
  BY DEF LastClosed
<1> QED
  BY <1>1, <1>2 DEF Popped

LEMMA FilesFacts ==
  /\ Files \subseteq FileInfos
  /\ NoFile \notin FileInfos
  /\ Data \subseteq Files
  /\ MaxLumiSection \in Nat
  /\ 1 \in Ids /\ Ids \subseteq Nat /\ 0 \notin Ids
<1>1. NoFile \notin FileInfos
  BY DEF NoFile, FileInfos, FileType
<1> QED
  BY <1>1, BrokerAssumption, WidthAssumption DEF Data, Ids

LEMMA NewObserverType == NewObserver \in Observer
BY FilesFacts DEF NewObserver, Observer

LEMMA ListedType ==
  ASSUME dir \subseteq Files
  PROVE  Listed \in Observer /\ Listed.listed /\ Listed.queue \subseteq dir
<1>1. Leading(dir) \subseteq FileInfos
  BY FilesFacts DEF Leading
<1>2. LastClosed(Leading(dir), 0) \in 0 .. MaxLumiSection
  BY <1>1, FilesFacts, LastClosedFacts
<1> QED
  BY <1>2 DEF Listed, Observer

LEMMA ProgressType == NoProgress \in Progress
BY FilesFacts DEF NoProgress, Progress

-----------------------------------------------------------------------------
(***************************************************************************)
(* The invariant                                                           *)
(***************************************************************************)

LEMMA InitInvariant == Init => HandingInv
<1> SUFFICES ASSUME Init PROVE HandingInv
  OBVIOUS
<1> USE DEF Init
<1>1. TypeOK
  <2>1. observers \in [Ids -> Observer] /\ last \in [Workers -> Progress] /\ told \in Progress
    BY NewObserverType, ProgressType
  <2>2. /\ pc \in [Workers -> {"idle", "pop", "rename", "mkdir", "retry", "reply"}]
        /\ holds \in [Workers -> {0} \cup Ids]
        /\ file \in [Workers -> Data \cup {NoFile}]
        /\ given \in [Data -> Nat]
    OBVIOUS
  <2>3. crashes \in 0 .. MaxFailures /\ died \in Nat /\ faults \in 0 .. MaxFailures
    BY BrokerAssumption
  <2> QED
    BY <2>1, <2>2, <2>3 DEF TypeOK
<1>2. Exclusive
  BY DEF Exclusive
<1>3. Process
  BY DEF Process, NewObserver
<1>4. OneObserver
  BY FilesFacts DEF OneObserver, Renaming, NewObserver
<1> QED
  BY <1>1, <1>2, <1>3, <1>4 DEF HandingInv

(* The BU moves a file in. *)
LEMMA BUWritesStep ==
  ASSUME HandingInv, NEW f \in Files, BUWrites(f)
  PROVE  HandingInv'
<1> USE DEF BUWrites, GoTo, directoryVars, processVars, workerVars, deathVars, fuVars
<1>1. TypeOK /\ Exclusive /\ Process /\ OneObserver
  BY DEF HandingInv
<1>0. /\ observers' \in [Ids -> Observer]
      /\ \A o \in Ids :
           /\ observers'[o].listed = observers[o].listed
           /\ ~observers[o].listed => observers'[o] = observers[o]
           /\ observers'[o].queue \subseteq observers[o].queue \cup {f}
  BY <1>1 DEF TypeOK, Observer
<1>2. TypeOK'
  BY <1>0, <1>1 DEF TypeOK
<1>3. Exclusive'
  BY <1>1, <1>0, FilesFacts DEF TypeOK, Exclusive
<1>4. Process'
  <2>1. ASSUME NEW o \in Ids, o > current PROVE observers'[o] = NewObserver
    BY <1>0, <1>1, <2>1 DEF Process, NewObserver
  <2> QED
    BY <1>0, <1>1, <2>1 DEF Process
<1>5. OneObserver'
  BY <1>1, <1>0, FilesFacts DEF TypeOK, Process, OneObserver, Renaming, NewObserver
<1> QED
  BY <1>2, <1>3, <1>4, <1>5 DEF HandingInv

(* A runner lists the directory. *)
LEMMA ListRunStep ==
  ASSUME HandingInv, NEW o \in Ids, ListRun(o)
  PROVE  HandingInv'
<1> USE DEF ListRun, GoTo, directoryVars, processVars, workerVars, deathVars, fuVars
<1>1. TypeOK /\ Exclusive /\ Process /\ OneObserver
  BY DEF HandingInv
<1>0. /\ observers' \in [Ids -> Observer]
      /\ observers'[o].listed /\ observers'[o].queue \subseteq dir
      /\ \A p \in Ids : p # o => observers'[p] = observers[p]
  <2>1. Listed \in Observer /\ Listed.listed /\ Listed.queue \subseteq dir
    BY <1>1, ListedType DEF TypeOK
  <2> QED
    BY <1>1, <2>1 DEF TypeOK
<1>2. TypeOK'
  BY <1>0, <1>1 DEF TypeOK
<1>3. Exclusive'
  BY <1>1, <1>0, FilesFacts DEF TypeOK, Exclusive
<1>4. Process'
  <2>1. ASSUME NEW p \in Ids, p > current PROVE p # o
    BY <1>1, <2>1, FilesFacts DEF TypeOK
  <2> QED
    BY <1>0, <1>1, <2>1 DEF Process
<1>5. OneObserver'
  <2> SUFFICES ASSUME current <= 1
               PROVE  /\ observers'[1].queue \subseteq dir
                      /\ \A w \in Workers : pc[w] \notin Renaming
    BY DEF OneObserver
  <2>1. o = 1
    BY <1>1, FilesFacts DEF TypeOK
  <2> QED
    BY <1>0, <1>1, <2>1 DEF OneObserver
<1> QED
  BY <1>2, <1>3, <1>4, <1>5 DEF HandingInv

(* A request gets the observer of its run. *)
LEMMA FindStep ==
  ASSUME HandingInv, NEW w \in Workers, Find(w)
  PROVE  HandingInv'
<1> USE DEF Find, GoTo, directoryVars, processVars, workerVars, deathVars, fuVars
<1>1. TypeOK /\ Exclusive /\ Process /\ OneObserver
  BY DEF HandingInv
<1>2. TypeOK'
  BY <1>1, FilesFacts, BrokerAssumption DEF TypeOK, Progress, NoProgress
<1>3. Exclusive'
  BY <1>1, FilesFacts DEF TypeOK, Exclusive
<1>4. Process'
  BY <1>1, FilesFacts DEF TypeOK, Process, NewObserver
<1>5. OneObserver'
  BY <1>1, FilesFacts DEF TypeOK, Process, OneObserver, Renaming, NewObserver
<1> QED
  BY <1>2, <1>3, <1>4, <1>5 DEF HandingInv

(* It pops a file. *)
LEMMA PopStep ==
  ASSUME HandingInv, NEW w \in Workers, Pop(w)
  PROVE  HandingInv'
<1> USE DEF Pop, GoTo, directoryVars, processVars, workerVars, deathVars, fuVars
<1>1. TypeOK /\ Exclusive /\ Process /\ OneObserver
  BY DEF HandingInv
<1> DEFINE o == holds[w]
           p == Popped(observers[o].queue, observers[o].lastEoLS)
           ended == observers[o].ended \/ p.ended
<1>a. o \in Ids /\ o <= current /\ observers[o] \in Observer
  BY <1>1, FilesFacts DEF TypeOK, Process, Ids
<1>b. /\ p.queue \subseteq observers[o].queue
      /\ \/ p.file = NoFile
         \/ p.file \in Data /\ p.file \in observers[o].queue \ p.queue
      /\ p.lastEoLS \in 0 .. MaxLumiSection
      /\ p.ended \in BOOLEAN
  <2>1. observers[o].queue \subseteq Files /\ observers[o].queue \subseteq FileInfos
        /\ observers[o].lastEoLS \in 0 .. MaxLumiSection
    BY <1>a, FilesFacts DEF Observer
  <2> HIDE DEF p, o, Pop
  <2>2. /\ p.queue \subseteq observers[o].queue
        /\ \/ p.file = NoFile
           \/ /\ p.file \in observers[o].queue
              /\ ~IsMarker(p.file)
              /\ p.file \notin p.queue
        /\ p.lastEoLS \in 0 .. MaxLumiSection
        /\ p.ended \in BOOLEAN
    BY <2>1, PoppedFacts DEF p
  <2> QED
    BY <2>1, <2>2 DEF Data
<1>c. /\ observers' = [observers EXCEPT ![o].queue = p.queue,
                                       ![o].lastEoLS = p.lastEoLS,
                                       ![o].ended = ended]
      /\ file' = [file EXCEPT ![w] = p.file]
      /\ last' = [last EXCEPT ![w] = [lastEoLS |-> p.lastEoLS, ended |-> ended]]
      /\ pc' = [pc EXCEPT ![w] = IF p.file = NoFile THEN "reply" ELSE "rename"]
      /\ holds' = [holds EXCEPT ![w] = 0]
      /\ pc[w] = "pop"
      /\ UNCHANGED <<directoryVars, up, current, deathVars, fuVars>>
  OBVIOUS
<1> HIDE DEF p, Pop, GoTo
<1>d. observers[o].listed \/ p.file = NoFile
  BY <1>a, <1>b, <1>1 DEF Process, NewObserver
<1>e. ended \in BOOLEAN
  BY <1>a, <1>b DEF Observer
<1> HIDE DEF ended
<1>0. /\ observers' \in [Ids -> Observer]
      /\ observers'[o] = [observers[o] EXCEPT !.queue = p.queue,
                                             !.lastEoLS = p.lastEoLS,
                                             !.ended = ended]
      /\ observers'[o].listed = observers[o].listed
      /\ observers'[o].queue = p.queue
      /\ \A i \in Ids : i # o => observers'[i] = observers[i]
  BY <1>1, <1>a, <1>b, <1>c, <1>e DEF TypeOK, Observer
<1>2. TypeOK'
  <2>1. last' \in [Workers -> Progress]
    BY <1>1, <1>b, <1>c, <1>e DEF TypeOK, Progress
  <2>2. file' \in [Workers -> Data \cup {NoFile}] /\ holds' \in [Workers -> {0} \cup Ids]
    BY <1>1, <1>b, <1>c DEF TypeOK
  <2>3. pc' \in [Workers -> {"idle", "pop", "rename", "mkdir", "retry", "reply"}]
    BY <1>1, <1>c DEF TypeOK
  <2> QED
    BY <1>0, <1>1, <1>c, <2>1, <2>2, <2>3 DEF TypeOK
<1>3. Exclusive'
  <2>1. ASSUME NEW v \in Workers, pc'[v] = "reply", file'[v] # NoFile
        PROVE  v # w /\ pc[v] = "reply" /\ file[v] = file'[v]
    BY <1>1, <1>c, <2>1 DEF TypeOK
  <2>2. \A v \in Workers : file'[v] = IF v = w THEN p.file ELSE file[v]
    BY <1>1, <1>c DEF TypeOK
  <2>3. pc'[w] = "reply" => p.file = NoFile
    BY <1>1, <1>c DEF TypeOK
  <2> QED
    BY <1>1, <1>c, <2>1, <2>2, <2>3 DEF Exclusive, TypeOK
<1>4. Process'
  <2>1. \A v \in Workers : pc'[v] \in {"pop", "retry"} =>
          v # w /\ pc[v] = pc'[v] /\ holds'[v] = holds[v]
    BY <1>1, <1>c DEF TypeOK
  <2>2. ASSUME NEW i \in Ids, i > current PROVE observers'[i] = NewObserver
    <3>1. i # o
      BY <1>1, <1>a, <2>2, FilesFacts DEF TypeOK
    <3> QED
      BY <1>0, <1>1, <2>2, <3>1 DEF Process
  <2>3. ASSUME NEW i \in Ids, ~observers'[i].listed PROVE observers'[i] = NewObserver
    <3>1. CASE i # o
      BY <1>0, <1>1, <2>3, <3>1 DEF Process
    <3>2. CASE i = o
      <4>1. observers[o] = NewObserver
        BY <1>0, <1>1, <1>a, <2>3, <3>2 DEF Process
      <4>2. p.queue = {}
        BY <1>b, <4>1 DEF NewObserver
      <4>3. p = Popped({}, 0)
        BY <4>1 DEF p, NewObserver
      <4>4. p.lastEoLS = 0 /\ p.ended = FALSE
        BY <4>3, PoppedNothing
      <4>5. ended = FALSE
        BY <4>1, <4>4 DEF ended, NewObserver
      <4>6. observers'[o] = [NewObserver EXCEPT !.queue = {}, !.lastEoLS = 0, !.ended = FALSE]
        BY <1>0, <4>1, <4>2, <4>4, <4>5
      <4> QED
        BY <3>2, <4>6 DEF NewObserver
    <3> QED
      BY <3>1, <3>2
  <2>4. ASSUME NEW v \in Workers, pc'[v] \in {"idle", "pop"}
        PROVE  file'[v] = NoFile
    BY <1>1, <1>c, <2>4 DEF Process, TypeOK
  <2> QED
    BY <1>1, <1>c, <2>1, <2>2, <2>3, <2>4 DEF Process
<1>5. OneObserver'
  <2> SUFFICES ASSUME current <= 1 PROVE OneObserver'
    BY <1>c DEF OneObserver, processVars
  <2>1. o = 1 /\ current = 1
    BY <1>1, <1>a, FilesFacts DEF TypeOK, Ids
  <2>2. observers'[1].queue \subseteq observers[1].queue
    BY <1>0, <1>b, <2>1
  <2>3. ASSUME NEW v \in Workers, v # w, pc'[v] \in Renaming
        PROVE  pc[v] \in Renaming /\ file'[v] = file[v]
    BY <1>1, <1>c, <2>3 DEF TypeOK
  <2>4. ASSUME pc'[w] \in Renaming
        PROVE  /\ file'[w] = p.file
               /\ p.file \in observers[1].queue \ p.queue
               /\ observers[1].listed
    BY <1>1, <1>b, <1>c, <1>d, <2>1, <2>4 DEF TypeOK, Renaming
  <2> QED
    BY <1>0, <1>1, <1>c, <2>1, <2>2, <2>3, <2>4 DEF OneObserver
<1> QED
  BY <1>2, <1>3, <1>4, <1>5 DEF HandingInv

(* The first rename works. *)
LEMMA RenameStep ==
  ASSUME HandingInv, NEW w \in Workers, Rename(w)
  PROVE  HandingInv'
<1> USE DEF Rename, GoTo, directoryVars, processVars, workerVars, deathVars, fuVars, MovesTo, CanRename
<1>1. TypeOK /\ Exclusive /\ Process /\ OneObserver
  BY DEF HandingInv
<1>2. TypeOK'
  BY <1>1, FilesFacts, BrokerAssumption DEF TypeOK, Progress, NoProgress
<1>3. Exclusive'
  BY <1>1, FilesFacts DEF TypeOK, Exclusive
<1>4. Process'
  BY <1>1, FilesFacts DEF TypeOK, Process, NewObserver
<1>5. OneObserver'
  BY <1>1, FilesFacts DEF TypeOK, Process, OneObserver, Renaming, NewObserver
<1> QED
  BY <1>2, <1>3, <1>4, <1>5 DEF HandingInv

(* The first rename fails. *)
LEMMA RenameFailsStep ==
  ASSUME HandingInv, NEW w \in Workers, RenameFails(w)
  PROVE  HandingInv'
<1> USE DEF RenameFails, GoTo, directoryVars, processVars, workerVars, deathVars, fuVars, CanRename
<1>1. TypeOK /\ Exclusive /\ Process /\ OneObserver
  BY DEF HandingInv
<1>2. TypeOK'
  BY <1>1, FilesFacts, BrokerAssumption DEF TypeOK, Progress, NoProgress
<1>3. Exclusive'
  BY <1>1, FilesFacts DEF TypeOK, Exclusive
<1>4. Process'
  BY <1>1, FilesFacts DEF TypeOK, Process, NewObserver
<1>5. OneObserver'
  BY <1>1, FilesFacts DEF TypeOK, Process, OneObserver, Renaming, NewObserver
<1> QED
  BY <1>2, <1>3, <1>4, <1>5 DEF HandingInv

(* The output directory is made. *)
LEMMA MakeFuDirectoryStep ==
  ASSUME HandingInv, NEW w \in Workers, MakeFuDirectory(w)
  PROVE  HandingInv'
<1> USE DEF MakeFuDirectory, GoTo, directoryVars, processVars, workerVars, deathVars, fuVars
<1>1. TypeOK /\ Exclusive /\ Process /\ OneObserver
  BY DEF HandingInv
<1>2. TypeOK'
  BY <1>1, FilesFacts, BrokerAssumption DEF TypeOK, Progress, NoProgress
<1>3. Exclusive'
  BY <1>1, FilesFacts DEF TypeOK, Exclusive
<1>4. Process'
  BY <1>1, FilesFacts DEF TypeOK, Process, NewObserver
<1>5. OneObserver'
  BY <1>1, FilesFacts DEF TypeOK, Process, OneObserver, Renaming, NewObserver
<1> QED
  BY <1>2, <1>3, <1>4, <1>5 DEF HandingInv

(* The second rename works. *)
LEMMA RetryStep ==
  ASSUME HandingInv, NEW w \in Workers, Retry(w)
  PROVE  HandingInv'
<1> USE DEF Retry, GoTo, directoryVars, processVars, workerVars, deathVars, fuVars, MovesTo, CanRename
<1>1. TypeOK /\ Exclusive /\ Process /\ OneObserver
  BY DEF HandingInv
<1>2. TypeOK'
  BY <1>1, FilesFacts, BrokerAssumption DEF TypeOK, Progress, NoProgress
<1>3. Exclusive'
  BY <1>1, FilesFacts DEF TypeOK, Exclusive
<1>4. Process'
  BY <1>1, FilesFacts DEF TypeOK, Process, NewObserver
<1>5. OneObserver'
  BY <1>1, FilesFacts DEF TypeOK, Process, OneObserver, Renaming, NewObserver
<1> QED
  BY <1>2, <1>3, <1>4, <1>5 DEF HandingInv

(* The second rename fails, or the file system refuses. *)
LEMMA DyingStep ==
  ASSUME HandingInv, NEW w \in Workers, RetryFails(w) \/ Refused(w)
  PROVE  HandingInv'
<1> USE DEF RetryFails, Refused, Dies, GoTo, directoryVars, processVars, workerVars, deathVars, fuVars, ProcessEnds, CanRename
<1>1. TypeOK /\ Exclusive /\ Process /\ OneObserver
  BY DEF HandingInv
<1>2. TypeOK'
  <2>1. observers' \in [Ids -> Observer] /\ last' \in [Workers -> Progress]
    BY NewObserverType, ProgressType
  <2>2. /\ pc' \in [Workers -> {"idle", "pop", "rename", "mkdir", "retry", "reply"}]
        /\ holds' \in [Workers -> {0} \cup Ids]
        /\ file' \in [Workers -> Data \cup {NoFile}]
    OBVIOUS
  <2>3. crashes' \in 0 .. MaxFailures /\ died' \in Nat /\ faults' \in 0 .. MaxFailures
    BY <1>1, BrokerAssumption DEF TypeOK
  <2> QED
    BY <1>1, <2>1, <2>2, <2>3 DEF TypeOK
<1>3. Exclusive'
  BY <1>1, FilesFacts DEF TypeOK, Exclusive
<1>4. Process'
  BY <1>1, FilesFacts DEF TypeOK, Process, NewObserver
<1>5. OneObserver'
  BY <1>1, FilesFacts DEF TypeOK, Process, OneObserver, Renaming, NewObserver
<1> QED
  BY <1>2, <1>3, <1>4, <1>5 DEF HandingInv

(* The reply is read. *)
LEMMA ReplyStep ==
  ASSUME HandingInv, NEW w \in Workers, Reply(w)
  PROVE  HandingInv'
<1> USE DEF Reply, GoTo, directoryVars, processVars, workerVars, deathVars, fuVars
<1>1. TypeOK /\ Exclusive /\ Process /\ OneObserver
  BY DEF HandingInv
<1>2. TypeOK'
  BY <1>1, FilesFacts, BrokerAssumption DEF TypeOK, Progress, NoProgress
<1>3. Exclusive'
  BY <1>1, FilesFacts DEF TypeOK, Exclusive
<1>4. Process'
  BY <1>1, FilesFacts DEF TypeOK, Process, NewObserver
<1>5. OneObserver'
  BY <1>1, FilesFacts DEF TypeOK, Process, OneObserver, Renaming, NewObserver
<1> QED
  BY <1>2, <1>3, <1>4, <1>5 DEF HandingInv

(* The reply is lost. *)
LEMMA ReplyLostStep ==
  ASSUME HandingInv, NEW w \in Workers, ReplyLost(w)
  PROVE  HandingInv'
<1> USE DEF ReplyLost, GoTo, directoryVars, processVars, workerVars, deathVars, fuVars
<1>1. TypeOK /\ Exclusive /\ Process /\ OneObserver
  BY DEF HandingInv
<1>2. TypeOK'
  BY <1>1, FilesFacts, BrokerAssumption DEF TypeOK, Progress, NoProgress
<1>3. Exclusive'
  BY <1>1, FilesFacts DEF TypeOK, Exclusive
<1>4. Process'
  BY <1>1, FilesFacts DEF TypeOK, Process, NewObserver
<1>5. OneObserver'
  BY <1>1, FilesFacts DEF TypeOK, Process, OneObserver, Renaming, NewObserver
<1> QED
  BY <1>2, <1>3, <1>4, <1>5 DEF HandingInv

(* /restart *)
LEMMA RestartObserverStep ==
  ASSUME HandingInv, NEW w \in Workers, RestartObserver(w)
  PROVE  HandingInv'
<1> USE DEF RestartObserver, GoTo, directoryVars, processVars, workerVars, deathVars, fuVars
<1>1. TypeOK /\ Exclusive /\ Process /\ OneObserver
  BY DEF HandingInv
<1>2. TypeOK'
  <2>1. current + 1 \in Ids
    BY <1>1, FilesFacts, BrokerAssumption DEF TypeOK, Ids
  <2> QED
    BY <1>1, <2>1 DEF TypeOK
<1>3. Exclusive'
  BY <1>1, FilesFacts DEF TypeOK, Exclusive
<1>4. Process'
  BY <1>1, FilesFacts DEF TypeOK, Process, NewObserver
<1>5. OneObserver'
  BY <1>1, FilesFacts DEF TypeOK, Process, OneObserver, Renaming, NewObserver
<1> QED
  BY <1>2, <1>3, <1>4, <1>5 DEF HandingInv

(* The process is killed. *)
LEMMA CrashStep ==
  ASSUME HandingInv, Crash
  PROVE  HandingInv'
<1> USE DEF Crash, GoTo, directoryVars, processVars, workerVars, deathVars, fuVars, ProcessEnds
<1>1. TypeOK /\ Exclusive /\ Process /\ OneObserver
  BY DEF HandingInv
<1>2. TypeOK'
  <2>1. observers' \in [Ids -> Observer] /\ last' \in [Workers -> Progress]
    BY NewObserverType, ProgressType
  <2>2. /\ pc' \in [Workers -> {"idle", "pop", "rename", "mkdir", "retry", "reply"}]
        /\ holds' \in [Workers -> {0} \cup Ids]
        /\ file' \in [Workers -> Data \cup {NoFile}]
    OBVIOUS
  <2>3. crashes' \in 0 .. MaxFailures /\ died' \in Nat /\ faults' \in 0 .. MaxFailures
    BY <1>1, BrokerAssumption DEF TypeOK
  <2> QED
    BY <1>1, <2>1, <2>2, <2>3 DEF TypeOK
<1>3. Exclusive'
  BY <1>1, FilesFacts DEF TypeOK, Exclusive
<1>4. Process'
  BY <1>1, FilesFacts DEF TypeOK, Process, NewObserver
<1>5. OneObserver'
  BY <1>1, FilesFacts DEF TypeOK, Process, OneObserver, Renaming, NewObserver
<1> QED
  BY <1>2, <1>3, <1>4, <1>5 DEF HandingInv

(* The process starts again. *)
LEMMA StartProcessStep ==
  ASSUME HandingInv, StartProcess
  PROVE  HandingInv'
<1> USE DEF StartProcess, GoTo, directoryVars, processVars, workerVars, deathVars, fuVars
<1>1. TypeOK /\ Exclusive /\ Process /\ OneObserver
  BY DEF HandingInv
<1>2. TypeOK'
  BY <1>1, FilesFacts, BrokerAssumption DEF TypeOK, Progress, NoProgress
<1>3. Exclusive'
  BY <1>1, FilesFacts DEF TypeOK, Exclusive
<1>4. Process'
  BY <1>1, FilesFacts DEF TypeOK, Process, NewObserver
<1>5. OneObserver'
  BY <1>1, FilesFacts DEF TypeOK, Process, OneObserver, Renaming, NewObserver
<1> QED
  BY <1>2, <1>3, <1>4, <1>5 DEF HandingInv

LEMMA StutteringStep ==
  ASSUME HandingInv, UNCHANGED vars
  PROVE  HandingInv'
<1> USE DEF vars, directoryVars, processVars, workerVars, deathVars, fuVars
<1>1. TypeOK' /\ Exclusive'
  BY DEF HandingInv, TypeOK, Exclusive
<1>2. Process' /\ OneObserver'
  BY DEF HandingInv, Process, OneObserver
<1> QED
  BY <1>1, <1>2 DEF HandingInv

LEMMA StepInvariant == HandingInv /\ [Next]_vars => HandingInv'
<1> SUFFICES ASSUME HandingInv, [Next]_vars PROVE HandingInv'
  OBVIOUS
<1>1. CASE \E f \in Files : BUWrites(f)
  BY <1>1, BUWritesStep
<1>2. CASE \E o \in Ids : ListRun(o)
  BY <1>2, ListRunStep
<1>3. ASSUME NEW w \in Workers, ServePopFile(w) PROVE HandingInv'
  BY <1>3, FindStep, PopStep, RenameStep, RenameFailsStep,
     MakeFuDirectoryStep, RetryStep, DyingStep, ReplyStep, ReplyLostStep
     DEF ServePopFile
<1>4. CASE \E w \in Workers : Refused(w) \/ RestartObserver(w)
  BY <1>4, DyingStep, RestartObserverStep
<1>5. CASE Crash \/ StartProcess
  BY <1>5, CrashStep, StartProcessStep
<1>6. CASE UNCHANGED vars
  BY <1>6, StutteringStep
<1> QED
  BY <1>1, <1>2, <1>3, <1>4, <1>5, <1>6 DEF Next

(* HandingInv holds in every reachable state: between the rename and the reply a *)
(* file belongs to one server thread, and with one observer a popped file  *)
(* is still in the run directory (popRunFile and renameIndexFile).         *)
THEOREM HandingHolds == Spec => []HandingInv
BY InitInvariant, StepInvariant, PTL DEF Spec

(* The variables keep their types through crashes, restarts and retries of *)
(* the handlers in main.cc.                                                *)
THEOREM BrokerTypeCorrect == Spec => []TypeOK
<1>1. HandingInv => TypeOK
  BY DEF HandingInv
<1> QED
  BY <1>1, HandingHolds, PTL

-----------------------------------------------------------------------------
(***************************************************************************)
(* A rename kills the broker only after /restart, or when it is refused    *)
(***************************************************************************)

(* Steps other than a failed second rename and a refusal leave "died"      *)
(* alone.                                                                  *)
LEMMA WhoKills ==
  ASSUME HandingInv, [Next]_vars, died' > died
  PROVE  \E w \in Workers : RetryFails(w) \/ Refused(w)
<1>1. died \in Nat /\ died' # died
  BY DEF HandingInv, TypeOK
<1> USE DEF vars, deathVars
<1>2. ASSUME NEW f \in Files PROVE ~BUWrites(f)
  BY <1>1 DEF BUWrites
<1>3. ASSUME NEW o \in Ids PROVE ~ListRun(o)
  BY <1>1 DEF ListRun
<1>4. ASSUME NEW w \in Workers PROVE ~RestartObserver(w)
  BY <1>1 DEF RestartObserver
<1>5. ~Crash /\ ~StartProcess
  BY <1>1 DEF Crash, StartProcess
<1>6. ASSUME NEW w \in Workers, ServePopFile(w) PROVE RetryFails(w)
  <2>1. ~Find(w) /\ ~Pop(w)
    BY <1>1 DEF Find, Pop
  <2>2. ~Rename(w) /\ ~RenameFails(w) /\ ~MakeFuDirectory(w) /\ ~Retry(w)
    BY <1>1 DEF Rename, RenameFails, MakeFuDirectory, Retry, MovesTo
  <2>3. ~Reply(w) /\ ~ReplyLost(w)
    BY <1>1 DEF Reply, ReplyLost
  <2> QED
    BY <1>6, <2>1, <2>2, <2>3 DEF ServePopFile
<1> QED
  BY <1>1, <1>2, <1>3, <1>4, <1>5, <1>6 DEF Next

(* With one observer the second rename finds its file and the directory.   *)
LEMMA OneObserverRenames ==
  ASSUME HandingInv, NEW w \in Workers, RetryFails(w)
  PROVE  current > 1
<1>1. pc[w] = "retry" /\ ~(file[w] \in dir /\ fuDir)
  BY DEF RetryFails, CanRename
<1>2. fuDir
  BY <1>1 DEF HandingInv, Process
<1>3. ~(current <= 1)
  BY <1>1, <1>2 DEF HandingInv, OneObserver, Renaming
<1> QED
  BY <1>3, FilesFacts DEF HandingInv, TypeOK

LEMMA KilledWhen ==
  ASSUME HandingInv, [Next]_vars, died' > died
  PROVE  faults' > faults \/ current > 1
<1>1. PICK w \in Workers : RetryFails(w) \/ Refused(w)
  BY WhoKills
<1>2. CASE RetryFails(w)
  BY <1>2, OneObserverRenames
<1>3. CASE Refused(w)
  <2>1. faults' = faults + 1 /\ faults \in Nat
    BY <1>3 DEF Refused, HandingInv, TypeOK
  <2> QED
    BY <2>1
<1> QED
  BY <1>1, <1>2, <1>3

(* The exception that popFile lets out of its server thread when it cannot *)
(* move a file needs a file system that refuses, or a run whose observer   *)
(* has been replaced: a thread never loses its file to another thread of   *)
(* the only observer, nor the output directory that it made.               *)
THEOREM KillsOnlyByFaultOrRestart == Spec => KilledOnlyByFaultOrRestart
<1>1. HandingInv /\ [Next]_vars => [died' > died => faults' > faults \/ current > 1]_vars
  BY KilledWhen
<1> QED
  BY <1>1, HandingHolds, PTL DEF Spec, KilledOnlyByFaultOrRestart

-----------------------------------------------------------------------------
(***************************************************************************)
(* A file is given once, after it was moved                                *)
(***************************************************************************)

LEMMA MovesIsMove ==
  ASSUME HandingInv, NEW w \in Workers, Rename(w) \/ Retry(w)
  PROVE  \E f \in Data : Abstract!Move(f)
<1>1. /\ file[w] \in dir
      /\ moved' = moved \cup {file[w]}
      /\ UNCHANGED given
  BY DEF Rename, Retry, MovesTo, CanRename, fuVars
<1>2. file[w] \in Data \ moved
  BY <1>1, FilesFacts DEF HandingInv, TypeOK, Exclusive
<1> QED
  BY <1>1, <1>2 DEF Abstract!Move

LEMMA ReplyIsGive ==
  ASSUME HandingInv, NEW w \in Workers, Reply(w)
  PROVE  (\E f \in Data : Abstract!Give(f)) \/ UNCHANGED <<moved, given>>
<1>1. /\ pc[w] = "reply"
      /\ given' = [f \in Data |-> given[f] + IF f = file[w] THEN 1 ELSE 0]
      /\ moved' = moved
      /\ given \in [Data -> Nat]
      /\ file[w] \in Data \cup {NoFile}
  BY DEF Reply, directoryVars, HandingInv, TypeOK
<1>2. NoFile \notin Data
  BY FilesFacts
<1>3. CASE file[w] = NoFile
  <2>1. \A f \in Data : given'[f] = given[f]
    BY <1>1, <1>2, <1>3
  <2>2. given' = given
    BY <1>1, <2>1
  <2> QED
    BY <1>1, <2>2
<1>4. CASE file[w] \in Data
  <2>1. file[w] \in moved /\ given[file[w]] = 0
    BY <1>1, <1>2, <1>4 DEF HandingInv, Exclusive
  <2>2. \A f \in Data : given'[f] = IF f = file[w] THEN 1 ELSE given[f]
    BY <1>1, <1>4, <2>1
  <2>3. given' = [given EXCEPT ![file[w]] = 1]
    BY <1>1, <1>4, <2>2
  <2> QED
    BY <1>1, <1>4, <2>1, <2>3 DEF Abstract!Give
<1> QED
  BY <1>1, <1>3, <1>4

LEMMA StepIsDelivery ==
  HandingInv /\ [Next]_vars => [Abstract!Next]_<<moved, given>>
<1> SUFFICES ASSUME HandingInv, [Next]_vars
             PROVE  Abstract!Next \/ UNCHANGED <<moved, given>>
  OBVIOUS
<1> USE DEF directoryVars, fuVars
<1>1. CASE \E f \in Files : BUWrites(f)
  BY <1>1 DEF BUWrites
<1>2. CASE \E o \in Ids : ListRun(o)
  BY <1>2 DEF ListRun
<1>3. ASSUME NEW w \in Workers, ServePopFile(w)
      PROVE  Abstract!Next \/ UNCHANGED <<moved, given>>
  <2>1. CASE Rename(w) \/ Retry(w)
    BY <2>1, MovesIsMove DEF Abstract!Next
  <2>2. CASE Reply(w)
    BY <2>2, ReplyIsGive DEF Abstract!Next
  <2>3. CASE Find(w) \/ Pop(w)
    BY <2>3 DEF Find, Pop
  <2>4. CASE RenameFails(w) \/ MakeFuDirectory(w)
    BY <2>4 DEF RenameFails, MakeFuDirectory
  <2>5. CASE RetryFails(w) \/ ReplyLost(w)
    BY <2>5 DEF RetryFails, Dies, ReplyLost, ProcessEnds
  <2> QED
    BY <1>3, <2>1, <2>2, <2>3, <2>4, <2>5 DEF ServePopFile
<1>4. CASE \E w \in Workers : Refused(w) \/ RestartObserver(w)
  BY <1>4 DEF Refused, Dies, ProcessEnds, RestartObserver
<1>5. CASE Crash \/ StartProcess
  BY <1>5 DEF Crash, StartProcess, ProcessEnds
<1>6. CASE UNCHANGED vars
  BY <1>6 DEF vars
<1> QED
  BY <1>1, <1>2, <1>3, <1>4, <1>5, <1>6 DEF Next

(* Whatever crashes, lost replies, retries and replaced observers do,      *)
(* popFile gives a file only after it renamed it, and never twice.         *)
THEOREM BrokerImplementsDelivery == Spec => ImplementsDelivery
<1>1. Init => Abstract!Init
  BY DEF Init, Abstract!Init
<1> QED
  BY <1>1, StepIsDelivery, HandingHolds, PTL
     DEF Spec, ImplementsDelivery, Abstract!Spec, Abstract!deliveryVars
-----------------------------------------------------------------------------
(***************************************************************************)
(* What an FU is told is complete is taken                                 *)
(***************************************************************************)

LEMMA BeforeFacts ==
  ASSUME NEW f \in FileInfos, NEW g \in FileInfos
  PROVE  /\ ~(Before(f, g) /\ Before(g, f))
         /\ f # g => Before(f, g) \/ Before(g, f)
         /\ \A h \in FileInfos : Before(f, g) /\ Before(g, h) => Before(f, h)
         /\ ~IsEoR(f) /\ IsEoLS(g) /\ f # g /\ f.lumiSection <= g.lumiSection
              => Before(f, g)
         /\ ~IsEoR(f) /\ IsEoR(g) => Before(f, g)
<1>1. \A h \in FileInfos : Score(h) \in Int
  BY ScoreOrder
<1> QED
  BY <1>1, ScoreOrder, ScoreInjective, MarkerOrder

(* A pop passes an EoLS only if no data of its lumisection is in the queue *)
(* and the chain of EoLS before it is unbroken.                            *)
LEMMA PoppedClosing ==
  ASSUME NEW S, S \subseteq FileInfos, NEW known \in 0 .. MaxLumiSection
  PROVE  LET p == Popped(S, known)
         IN  /\ \/ p.lastEoLS = known
                \/ \E m \in S : IsEoLS(m) /\ m.lumiSection = p.lastEoLS
             /\ known <= p.lastEoLS
             /\ \A f \in S : ~IsMarker(f) /\ f.lumiSection > known
                             => f.lumiSection > p.lastEoLS
             /\ \A f \in p.queue : ~IsEoR(f) /\ f.lumiSection > known
                             => f.lumiSection > p.lastEoLS
             /\ p.ended => (\A f \in S : IsMarker(f)) /\ \E r \in S : IsEoR(r)
             /\ \A f \in S : ~IsMarker(f) /\ f # p.file => f \in p.queue
<1> DEFINE passed == PassedEoLS(S, known)
           now    == LastClosed(passed, known)
           rest   == S \ passed
           ready  == {f \in rest : ~IsMarker(f) /\ f.lumiSection = now + 1}
           first  == IF ready = {} THEN NoFile ELSE CHOOSE f \in ready : IsLeast(f, ready)
           atEnd  == rest # {} /\ \A r \in rest : IsEoR(r)
<1>1. passed \subseteq S /\ \A m \in passed : IsEoLS(m)
  BY DEF PassedEoLS
<1>2. /\ now \in 0 .. MaxLumiSection /\ known <= now
      /\ now = known \/ \E m \in passed : m.lumiSection = now
  BY <1>1, LastClosedFacts
<1>3. Popped(S, known) =
        [file |-> first, queue |-> IF atEnd THEN {} ELSE rest \ {first},
         lastEoLS |-> now, ended |-> atEnd]
  BY DEF Popped
<1>4. \A f \in S : f.lumiSection \in Nat
  BY FileInfoFields, WidthAssumption
<1>5. now \in Nat /\ known \in Nat
  BY <1>2, WidthAssumption
<1>6. ASSUME NEW f \in S, f.lumiSection > known, f.lumiSection <= now
      PROVE  /\ IsMarker(f)
             /\ IsEoLS(f) => f \in passed
  <2>1. PICK m \in passed : m.lumiSection = now
    BY <1>2, <1>4, <1>5, <1>6
  <2>2. \A k \in known + 1 .. now :
          /\ \E n \in S : IsEoLS(n) /\ n.lumiSection = k
          /\ \A g \in S : ~IsMarker(g) => g.lumiSection # k
    BY <2>1 DEF PassedEoLS
  <2>3. f.lumiSection \in known + 1 .. now
        /\ (known + 1 .. f.lumiSection) \subseteq (known + 1 .. now)
    BY <1>4, <1>5, <1>6
  <2> HIDE DEF now
  <2> QED
    BY <2>2, <2>3 DEF PassedEoLS
<1>7. ASSUME NEW f \in S, ~IsMarker(f) PROVE f \in rest /\ ~IsEoR(f)
  BY <1>1, <1>7 DEF IsMarker
<1> HIDE DEF passed, now, first, atEnd
<1>8. /\ Popped(S, known).lastEoLS = now
      /\ Popped(S, known).ended = atEnd
      /\ Popped(S, known).file = first
      /\ Popped(S, known).queue = IF atEnd THEN {} ELSE rest \ {first}
  BY <1>3
<1>9. /\ \A f \in S : ~IsMarker(f) /\ f.lumiSection > known => f.lumiSection > now
      /\ \A f \in rest : ~IsEoR(f) /\ f.lumiSection > known => f.lumiSection > now
  BY <1>4, <1>5, <1>6 DEF IsMarker
<1>10. atEnd => (\A f \in S : IsMarker(f)) /\ \E r \in S : IsEoR(r)
  BY <1>7 DEF atEnd
<1>11. \A f \in S : ~IsMarker(f) => f \in rest /\ ~atEnd
  BY <1>7 DEF atEnd
<1>12. now = known \/ \E m \in S : IsEoLS(m) /\ m.lumiSection = now
  BY <1>1, <1>2
<1> QED
  BY <1>2, <1>8, <1>9, <1>10, <1>11, <1>12

(* What the runner finds: data files go to the queue, and what the skipped *)
(* markers close is not in the directory any more.                         *)
LEMMA ListedClosing ==
  ASSUME TypeOK, Directory
  PROVE  /\ Data \cap dir \subseteq Listed.queue
         /\ ClosedBy(Listed) \subseteq moved
         /\ Listed.lastEoLS > 0 =>
              \E m \in written : IsEoLS(m) /\ m.lumiSection = Listed.lastEoLS
         /\ NoFileIsLate(Listed)
<1> DEFINE skipped == Leading(dir)
           now == LastClosed(skipped, 0)
<1>1. /\ dir \subseteq written /\ written \subseteq FileInfos
      /\ Data \subseteq FileInfos
      /\ \A f \in FileInfos : f.lumiSection \in Nat
  BY FilesFacts, FileInfoFields, WidthAssumption DEF TypeOK
<1>2. /\ skipped \subseteq dir /\ \A m \in skipped : IsMarker(m)
      /\ \A m \in skipped : \A f \in dir : ~IsMarker(f) => Before(m, f)
  BY DEF Leading
<1>3. /\ now \in Nat
      /\ now = 0 \/ \E m \in skipped : IsEoLS(m) /\ m.lumiSection = now
  BY <1>1, <1>2, LastClosedFacts, WidthAssumption
<1>4. /\ Listed.queue = dir \ skipped /\ Listed.lastEoLS = now
      /\ Listed.ended <=> \E r \in skipped : IsEoR(r)
  BY DEF Listed
<1> HIDE DEF skipped, now
<1>5. Data \cap dir \subseteq Listed.queue
  BY <1>2, <1>4 DEF Data
<1>6. ASSUME NEW f \in Data, NEW m \in skipped, Before(f, m) PROVE f \in moved
  <2>1. ~IsMarker(f) /\ f \in Files
    BY DEF Data
  <2>2. f \in written
    BY <1>1, <1>2, <1>6, <2>1 DEF Directory
  <2>3. f \notin dir
    BY <1>1, <1>2, <1>6, <2>1, BeforeFacts
  <2> QED
    BY <2>2, <2>3 DEF Directory
<1>7. ASSUME NEW f \in ClosedBy(Listed) PROVE f \in moved
  <2>1. f \in Data /\ ~IsMarker(f) /\ ~IsEoR(f) /\ f.lumiSection >= 1
    BY <1>7, BrokerAssumption DEF ClosedBy, Data, IsMarker
  <2>2. CASE Listed.ended
    BY <1>1, <1>2, <1>4, <1>6, <2>1, <2>2, BeforeFacts
  <2>3. CASE f.lumiSection <= now
    <3>1. PICK m \in skipped : IsEoLS(m) /\ m.lumiSection = now
      BY <1>1, <1>3, <2>1, <2>3
    <3>2. f # m
      BY <2>1, <3>1 DEF IsMarker
    <3>3. Before(f, m)
      BY <1>1, <1>2, <2>1, <2>3, <3>1, <3>2, BeforeFacts
    <3> QED
      BY <1>6, <2>1, <3>3
  <2> QED
    BY <1>4, <1>7, <2>2, <2>3 DEF ClosedBy
<1>8. ASSUME NEW f \in Listed.queue, ~IsEoR(f) PROVE f.lumiSection > now
  <2>1. f \in dir \ skipped /\ f \in FileInfos /\ f.lumiSection >= 1
    BY <1>1, <1>4, <1>8, BrokerAssumption DEF TypeOK
  <2>2. SUFFICES ASSUME f.lumiSection <= now PROVE FALSE
    BY <1>1, <1>3, <2>1
  <2>3. PICK m \in skipped : IsEoLS(m) /\ m.lumiSection = now
    BY <1>1, <1>3, <2>1, <2>2
  <2>4. m \in FileInfos /\ Before(f, m)
    BY <1>1, <1>2, <1>8, <2>1, <2>2, <2>3, BeforeFacts
  <2>5. IsMarker(f)
    BY <1>2, <2>1, <2>3, <2>4, BeforeFacts
  <2>6. PICK g \in dir : ~IsMarker(g) /\ ~Before(f, g)
    BY <2>1, <2>5 DEF skipped, Leading
  <2>7. g \in FileInfos /\ g # f /\ Before(g, f)
    BY <1>1, <2>1, <2>5, <2>6, BeforeFacts
  <2> QED
    BY <1>2, <2>1, <2>3, <2>4, <2>6, <2>7, BeforeFacts
<1>9. Listed.lastEoLS > 0 =>
        \E m \in written : IsEoLS(m) /\ m.lumiSection = Listed.lastEoLS
  BY <1>1, <1>2, <1>3, <1>4
<1> QED
  BY <1>4, <1>5, <1>7, <1>8, <1>9 DEF NoFileIsLate

(* Nothing in a thread's hands is dropped.                                 *)
LEMMA TakenGrows ==
  ASSUME TypeOK, moved \subseteq moved', UNCHANGED file
  PROVE  Taken \subseteq Taken'
BY DEF Taken, InHand

(* A step of a server thread that leaves the observers alone, and what     *)
(* progress it knows of.                                                   *)
LEMMA QuietClosing ==
  ASSUME HandingInv, Directory, Closing,
         UNCHANGED <<written, observers, last, told, crashes, died>>,
         written \subseteq dir' \cup moved',
         Taken \subseteq Taken'
  PROVE  Directory' /\ Closing'
<1>1. Directory'
  BY DEF Directory, NoFileIsLate
<1>2. Closing'
  BY DEF Closing, ClosedBy
<1> QED
  BY <1>1, <1>2

LEMMA InitClosing == Init => Directory /\ Closing
<1> SUFFICES ASSUME Init PROVE Directory /\ Closing
  OBVIOUS
<1>1. Directory
  BY DEF Init, Directory, NewObserver, NoFileIsLate
<1>2. ClosedBy(NewObserver) = {} /\ ClosedBy(NoProgress) = {}
  <2>1. \A f \in Data : ~(f.lumiSection <= 0)
    BY FilesFacts, FileInfoFields, BrokerAssumption DEF Data, IsMarker
  <2> QED
    BY <2>1 DEF ClosedBy, NewObserver, NoProgress
<1>3. Closing
  BY <1>2 DEF Init, Closing, NewObserver
<1> QED
  BY <1>1, <1>3

LEMMA BUWritesClosing ==
  ASSUME HandingInv, Directory, Closing, NEW f \in Files, BUWrites(f)
  PROVE  Directory' /\ Closing'
<1> USE DEF workerVars, deathVars, fuVars
<1>1. /\ TypeOK /\ f \notin written /\ f \in FileInfos /\ written \subseteq FileInfos
      /\ IsMarker(f) => \A g \in Files : Before(g, f) => g \in written
      /\ written' = written \cup {f} /\ dir' = dir \cup {f}
      /\ UNCHANGED <<moved, file, last, told, crashes, died>>
  BY FilesFacts DEF BUWrites, HandingInv, TypeOK
<1>2. ASSUME NEW o \in Ids
      PROVE  /\ observers'[o].listed = observers[o].listed
             /\ observers'[o].lastEoLS = observers[o].lastEoLS
             /\ observers'[o].ended = observers[o].ended
             /\ observers'[o].queue \subseteq observers[o].queue \cup {f}
             /\ observers[o].queue \subseteq observers'[o].queue
             /\ observers[o].listed => f \in observers'[o].queue
  BY <1>1 DEF BUWrites, TypeOK, Observer
<1>3. ASSUME NEW o \in Ids, ~IsEoR(f) PROVE f.lumiSection > observers[o].lastEoLS
  <2>1. /\ observers[o].lastEoLS \in Nat /\ f.lumiSection \in Nat /\ f.lumiSection >= 1
    BY <1>1, <1>3, FilesFacts, FileInfoFields, BrokerAssumption DEF TypeOK, Observer
  <2>2. SUFFICES ASSUME f.lumiSection <= observers[o].lastEoLS PROVE FALSE
    BY <2>1
  <2>3. PICK m \in written : IsEoLS(m) /\ m.lumiSection = observers[o].lastEoLS
    BY <2>1, <2>2 DEF Directory
  <2>4. Before(f, m)
    BY <1>1, <1>3, <2>2, <2>3, BeforeFacts
  <2>5. IsMarker(m)
    BY <2>3 DEF IsMarker
  <2> QED
    BY <1>1, <2>3, <2>4, <2>5 DEF Directory
<1>4. Directory'
  <2>1. written' \subseteq dir' \cup moved'
    BY <1>1 DEF Directory
  <2>2. \A m \in written' : IsMarker(m) => \A g \in Files : Before(g, m) => g \in written'
    BY <1>1 DEF Directory
  <2>3. ASSUME NEW o \in Ids
        PROVE  /\ observers'[o].queue \subseteq written'
               /\ observers'[o].lastEoLS > 0 =>
                    \E m \in written' : IsEoLS(m) /\ m.lumiSection = observers'[o].lastEoLS
               /\ NoFileIsLate(observers'[o])
    BY <1>1, <1>2, <1>3 DEF Directory, NoFileIsLate
  <2> QED
    BY <2>1, <2>2, <2>3 DEF Directory
<1>5. Closing'
  <2>1. Taken' = Taken
    BY <1>1 DEF Taken, InHand
  <2>2. ASSUME NEW o \in Ids PROVE ClosedBy(observers'[o]) = ClosedBy(observers[o])
    BY <1>2 DEF ClosedBy
  <2> QED
    BY <1>1, <1>2, <2>1, <2>2 DEF Closing
<1> QED
  BY <1>4, <1>5

LEMMA ListRunClosing ==
  ASSUME HandingInv, Directory, Closing, NEW o \in Ids, ListRun(o)
  PROVE  Directory' /\ Closing'
<1> USE DEF directoryVars, workerVars, deathVars, fuVars
<1>1. /\ TypeOK /\ observers' = [observers EXCEPT ![o] = Listed]
      /\ UNCHANGED <<written, dir, moved, file, last, told, crashes, died>>
  BY DEF ListRun, HandingInv
<1>2. /\ observers'[o] = Listed /\ Listed.queue \subseteq dir
      /\ \A p \in Ids : p # o => observers'[p] = observers[p]
  BY <1>1, ListedType DEF TypeOK
<1>3. Directory'
  <2>1. ASSUME NEW p \in Ids
        PROVE  /\ observers'[p].queue \subseteq written
               /\ observers'[p].lastEoLS > 0 =>
                    \E m \in written : IsEoLS(m) /\ m.lumiSection = observers'[p].lastEoLS
               /\ NoFileIsLate(observers'[p])
    BY <1>1, <1>2, ListedClosing DEF Directory, TypeOK
  <2> QED
    BY <1>1, <2>1 DEF Directory
<1>4. Closing'
  <2>1. Taken' = Taken /\ moved \subseteq Taken
    BY <1>1 DEF Taken, InHand
  <2>2. Data \cap written \subseteq Listed.queue \cup Taken
    BY <2>1, ListedClosing, <1>1 DEF Directory
  <2>3. ClosedBy(Listed) \subseteq Taken
    BY <1>1, <2>1, ListedClosing
  <2> QED
    BY <1>1, <1>2, <2>1, <2>2, <2>3 DEF Closing
<1> QED
  BY <1>3, <1>4

(* The markers that a pop passes close what the observer has given out;    *)
(* what it has not is in other hands, or moved.                            *)
LEMMA PopClosing ==
  ASSUME HandingInv, Directory, Closing, NEW w \in Workers, Pop(w)
  PROVE  Directory' /\ Closing'
<1> USE DEF directoryVars, deathVars, fuVars
<1> DEFINE o == holds[w]
           p == Popped(observers[o].queue, observers[o].lastEoLS)
           ended == observers[o].ended \/ p.ended
           progress == [lastEoLS |-> p.lastEoLS, ended |-> ended]
<1>1. /\ TypeOK /\ Process
      /\ observers' = [observers EXCEPT ![o].queue = p.queue,
                                        ![o].lastEoLS = p.lastEoLS,
                                        ![o].ended = ended]
      /\ file' = [file EXCEPT ![w] = p.file]
      /\ last' = [last EXCEPT ![w] = progress]
      /\ pc[w] = "pop"
      /\ UNCHANGED <<written, dir, moved, told, crashes, died>>
  BY DEF Pop, HandingInv
<1>2. o \in Ids /\ observers[o] \in Observer
  BY <1>1, FilesFacts DEF TypeOK, Process, Ids
<1>3. /\ observers[o].queue \subseteq Files /\ observers[o].queue \subseteq FileInfos
      /\ observers[o].queue \subseteq written
      /\ observers[o].lastEoLS \in 0 .. MaxLumiSection
      /\ observers[o].ended \in BOOLEAN
  BY <1>2, FilesFacts DEF Observer, Directory
<1> HIDE DEF o, p, ended, progress
<1>4. /\ p.queue \subseteq observers[o].queue
      /\ p.file = NoFile \/ p.file \in Data
      /\ p.lastEoLS \in 0 .. MaxLumiSection
      /\ p.lastEoLS = observers[o].lastEoLS
           \/ \E m \in observers[o].queue : IsEoLS(m) /\ m.lumiSection = p.lastEoLS
      /\ observers[o].lastEoLS <= p.lastEoLS
      /\ \A f \in observers[o].queue :
           ~IsMarker(f) /\ f.lumiSection > observers[o].lastEoLS => f.lumiSection > p.lastEoLS
      /\ \A f \in p.queue :
           ~IsEoR(f) /\ f.lumiSection > observers[o].lastEoLS => f.lumiSection > p.lastEoLS
      /\ p.ended => /\ \A f \in observers[o].queue : IsMarker(f)
                    /\ \E r \in observers[o].queue : IsEoR(r)
      /\ \A f \in observers[o].queue : ~IsMarker(f) /\ f # p.file => f \in p.queue
  <2>1. /\ p.queue \subseteq observers[o].queue /\ p.lastEoLS \in 0 .. MaxLumiSection
        /\ p.file = NoFile \/ (p.file \in observers[o].queue /\ ~IsMarker(p.file))
    BY <1>3, PoppedFacts DEF p
  <2>2. p.file = NoFile \/ p.file \in Data
    BY <1>3, <2>1 DEF Data
  <2> QED
    BY <1>3, <2>1, <2>2, PoppedClosing DEF p
<1>5. /\ observers'[o].queue = p.queue /\ observers'[o].lastEoLS = p.lastEoLS
      /\ observers'[o].ended = ended /\ observers'[o].listed = observers[o].listed
      /\ \A i \in Ids : i # o => observers'[i] = observers[i]
  BY <1>1, <1>2 DEF TypeOK, Observer
<1>6. Directory'
  <2>1. ASSUME NEW i \in Ids
        PROVE  /\ observers'[i].queue \subseteq written
               /\ observers'[i].lastEoLS > 0 =>
                    \E m \in written : IsEoLS(m) /\ m.lumiSection = observers'[i].lastEoLS
               /\ NoFileIsLate(observers'[i])
    <3>1. CASE i = o
      BY <1>2, <1>3, <1>4, <1>5, <3>1 DEF Directory, NoFileIsLate
    <3>2. CASE i # o
      BY <1>5, <3>2 DEF Directory
    <3> QED
      BY <3>1, <3>2
  <2> QED
    BY <1>1, <2>1 DEF Directory
<1>7. Taken' = Taken \cup ({p.file} \cap Data)
  <2>1. file[w] = NoFile /\ NoFile \notin Data
    BY <1>1, FilesFacts DEF Process
  <2>2. \A v \in Workers : file'[v] = IF v = w THEN p.file ELSE file[v]
    BY <1>1 DEF TypeOK
  <2>3. InHand' = InHand \cup ({p.file} \cap Data)
    BY <2>1, <2>2 DEF InHand
  <2> QED
    BY <1>1, <2>3 DEF Taken
<1>8. Closing'
  <2> SUFFICES ASSUME crashes = 0, died = 0 PROVE Closing'
    BY <1>1 DEF Closing
  <2>1. /\ observers[o].listed => Data \cap written \subseteq observers[o].queue \cup Taken
        /\ ClosedBy(observers[o]) \subseteq Taken
    BY <1>2 DEF Closing
  <2>2. observers[o].listed => Data \cap written \subseteq p.queue \cup Taken'
    BY <1>4, <1>7, <2>1 DEF Data
  <2>3. ASSUME NEW f \in ClosedBy(progress) PROVE f \in Taken
    <3>1. /\ f \in Data /\ ~IsMarker(f) /\ ~IsEoR(f) /\ f \in FileInfos
          /\ f.lumiSection \in Nat
          /\ ended \/ f.lumiSection <= p.lastEoLS
      BY <2>3, FilesFacts, FileInfoFields, WidthAssumption
      DEF ClosedBy, progress, Data, IsMarker
    <3>2. CASE f \in ClosedBy(observers[o])
      BY <2>1, <3>2
    <3>3. CASE f \notin ClosedBy(observers[o])
      <4>1. ~observers[o].ended /\ f.lumiSection > observers[o].lastEoLS
        BY <1>3, <3>1, <3>3, WidthAssumption DEF ClosedBy
      <4>2. PICK m \in observers[o].queue :
              \/ p.ended /\ IsEoR(m)
              \/ IsEoLS(m) /\ f.lumiSection <= m.lumiSection /\ f.lumiSection <= p.lastEoLS
        BY <1>3, <1>4, <3>1, <4>1, WidthAssumption DEF ended
      <4>3. f # m /\ IsMarker(m) /\ m \in FileInfos
        BY <1>3, <3>1, <4>2 DEF IsMarker
      <4>4. Before(f, m)
        BY <3>1, <4>2, <4>3, BeforeFacts
      <4>5. f \in written
        BY <1>3, <3>1, <4>2, <4>3, <4>4, FilesFacts DEF Directory
      <4>6. f \notin observers[o].queue
        BY <1>3, <1>4, <3>1, <4>1, <4>2, WidthAssumption
      <4>7. observers[o].listed
        BY <1>1, <1>2, <4>2 DEF Process, NewObserver
      <4> QED
        BY <2>1, <3>1, <4>5, <4>6, <4>7
    <3> QED
      BY <3>2, <3>3
  <2>4. ClosedBy(observers'[o]) = ClosedBy(progress)
    BY <1>5 DEF ClosedBy, progress
  <2>5. \A v \in Workers : last'[v] = IF v = w THEN progress ELSE last[v]
    BY <1>1 DEF TypeOK
  <2>6. Taken \subseteq Taken'
    BY <1>7
  <2>7. ASSUME NEW i \in Ids
        PROVE  /\ observers'[i].listed =>
                    Data \cap written \subseteq observers'[i].queue \cup Taken'
               /\ ClosedBy(observers'[i]) \subseteq Taken'
    <3>1. CASE i = o
      BY <1>5, <2>2, <2>3, <2>4, <2>6, <3>1
    <3>2. CASE i # o
      BY <1>5, <2>6, <3>2 DEF Closing
    <3> QED
      BY <3>1, <3>2
  <2>8. ASSUME NEW v \in Workers PROVE ClosedBy(last'[v]) \subseteq Taken'
    BY <2>3, <2>5, <2>6 DEF Closing
  <2>9. ClosedBy(told') \subseteq Taken'
    BY <1>1, <2>6 DEF Closing
  <2> QED
    BY <1>1, <2>7, <2>8, <2>9 DEF Closing
<1> QED
  BY <1>6, <1>8

(* The first or the second rename works. *)
LEMMA MovesClosing ==
  ASSUME HandingInv, Directory, Closing, NEW w \in Workers, Rename(w) \/ Retry(w)
  PROVE  Directory' /\ Closing'
<1>1. /\ TypeOK
      /\ dir' = dir \ {file[w]} /\ moved' = moved \cup {file[w]}
      /\ UNCHANGED <<written, observers, file, last, told, crashes, died>>
  BY DEF Rename, Retry, MovesTo, HandingInv, processVars, deathVars, fuVars
<1>2. written \subseteq dir' \cup moved'
  BY <1>1 DEF Directory
<1>3. Taken \subseteq Taken'
  BY <1>1, TakenGrows
<1> QED
  BY <1>1, <1>2, <1>3, QuietClosing

(* An FU that was told nothing else than that this thread knows.           *)
LEMMA TellingClosing ==
  ASSUME HandingInv, Directory, Closing,
         UNCHANGED <<written, dir, moved, observers, last, crashes, died>>,
         NEW w \in Workers,
         Taken \subseteq Taken',
         ClosedBy(told') \subseteq ClosedBy(told) \cup ClosedBy(last[w])
  PROVE  Directory' /\ Closing'
<1>1. Directory'
  BY DEF Directory, NoFileIsLate
<1>2. \A o \in Ids : ClosedBy(observers'[o]) = ClosedBy(observers[o])
  BY DEF ClosedBy
<1>3. \A v \in Workers : ClosedBy(last'[v]) = ClosedBy(last[v])
  BY DEF ClosedBy
<1>4. Closing'
  BY <1>2, <1>3 DEF Closing
<1> QED
  BY <1>1, <1>4

(* The file of a reply has been moved, so it stays taken. *)
LEMMA RepliedTaken ==
  ASSUME HandingInv, NEW w \in Workers, pc[w] = "reply",
         moved' = moved, file' = [file EXCEPT ![w] = NoFile]
  PROVE  Taken \subseteq Taken'
<1>1. TypeOK /\ (file[w] # NoFile => file[w] \in moved)
  BY DEF HandingInv, Exclusive
<1>2. NoFile \notin Data
  BY FilesFacts
<1>3. \A v \in Workers : v # w => file'[v] = file[v]
  BY <1>1 DEF TypeOK
<1> QED
  BY <1>1, <1>2, <1>3 DEF Taken, InHand

LEMMA ReplyClosing ==
  ASSUME HandingInv, Directory, Closing, NEW w \in Workers, Reply(w) \/ ReplyLost(w)
  PROVE  Directory' /\ Closing'
<1>1. /\ TypeOK /\ pc[w] = "reply" /\ file' = [file EXCEPT ![w] = NoFile]
      /\ UNCHANGED <<written, dir, moved, observers, last, crashes, died>>
  BY DEF Reply, ReplyLost, HandingInv, directoryVars, processVars, deathVars
<1>2. Taken \subseteq Taken'
  BY <1>1, RepliedTaken
<1>3. ClosedBy(told') \subseteq ClosedBy(told) \cup ClosedBy(last[w])
  <2>1. CASE Reply(w)
    <3>1. /\ told'.lastEoLS = told.lastEoLS \/ told'.lastEoLS = last[w].lastEoLS
          /\ told'.ended => told.ended \/ last[w].ended
      BY <2>1 DEF Reply
    <3> QED
      BY <3>1 DEF ClosedBy
  <2>2. CASE ReplyLost(w)
    BY <2>2 DEF ReplyLost, ClosedBy
  <2> QED
    BY <2>1, <2>2
<1> QED
  BY <1>1, <1>2, <1>3, TellingClosing

(* A process that ends takes its observers with it; Closing is about the   *)
(* life before.                                                            *)
LEMMA ProcessEndsClosing ==
  ASSUME HandingInv, Directory, Crash \/ \E w \in Workers : RetryFails(w) \/ Refused(w)
  PROVE  Directory' /\ Closing'
<1>1. /\ TypeOK /\ ProcessEnds
      /\ \/ crashes' = crashes + 1
         \/ died' = died + 1
  BY DEF Crash, RetryFails, Refused, Dies, HandingInv
<1>2. crashes' # 0 \/ died' # 0
  BY <1>1 DEF TypeOK
<1>3. Directory'
  BY <1>1 DEF ProcessEnds, directoryVars, Directory, NewObserver, NoFileIsLate
<1> QED
  BY <1>2, <1>3 DEF Closing

LEMMA OtherClosing ==
  ASSUME HandingInv, Directory, Closing,
         \/ \E w \in Workers :
              \/ Find(w) \/ RenameFails(w) \/ MakeFuDirectory(w)
              \/ RestartObserver(w)
         \/ StartProcess
         \/ UNCHANGED vars
  PROVE  Directory' /\ Closing'
<1>1. UNCHANGED <<written, dir, moved, observers, file, last, told, crashes, died>>
  BY DEF Find, RenameFails, MakeFuDirectory, RestartObserver, StartProcess,
         vars, directoryVars, processVars, workerVars, deathVars, fuVars
<1>2. written \subseteq dir' \cup moved' /\ Taken \subseteq Taken'
  BY <1>1 DEF Directory, Taken, InHand
<1> QED
  BY <1>1, <1>2, QuietClosing

LEMMA ClosingStep ==
  HandingInv /\ Directory /\ Closing /\ [Next]_vars => (Directory /\ Closing)'
<1> SUFFICES ASSUME HandingInv, Directory, Closing, [Next]_vars
             PROVE  Directory' /\ Closing'
  OBVIOUS
<1>1. CASE \E f \in Files : BUWrites(f)
  BY <1>1, BUWritesClosing
<1>2. CASE \E o \in Ids : ListRun(o)
  BY <1>2, ListRunClosing
<1>3. ASSUME NEW w \in Workers, ServePopFile(w) PROVE Directory' /\ Closing'
  <2>1. CASE Pop(w)
    BY <2>1, PopClosing
  <2>2. CASE Rename(w) \/ Retry(w)
    BY <2>2, MovesClosing
  <2>3. CASE Reply(w) \/ ReplyLost(w)
    BY <2>3, ReplyClosing
  <2>4. CASE RetryFails(w)
    BY <2>4, ProcessEndsClosing
  <2>5. CASE Find(w) \/ RenameFails(w) \/ MakeFuDirectory(w)
    BY <2>5, OtherClosing
  <2> QED
    BY <1>3, <2>1, <2>2, <2>3, <2>4, <2>5 DEF ServePopFile
<1>4. CASE \E w \in Workers : Refused(w) \/ RestartObserver(w)
  BY <1>4, ProcessEndsClosing, OtherClosing
<1>5. CASE Crash
  BY <1>5, ProcessEndsClosing
<1>6. CASE StartProcess \/ UNCHANGED vars
  BY <1>6, OtherClosing
<1> QED
  BY <1>1, <1>2, <1>3, <1>4, <1>5, <1>6 DEF Next

(* The broker's whole invariant.  HandingInv is inductive by itself; what  *)
(* is said of the directory and of what was closed needs it.               *)
THEOREM BrokerInvariantHolds == Spec => []BInv
<1>1. Init => Directory /\ Closing
  BY InitClosing
<1>2. HandingInv /\ Directory /\ Closing /\ [Next]_vars => (Directory /\ Closing)'
  BY ClosingStep
<1>3. BInv <=> HandingInv /\ Directory /\ Closing
  BY DEF BInv
<1> QED
  BY <1>1, <1>2, <1>3, InitInvariant, StepInvariant, PTL DEF Spec

(* The lasteols and the EOR that popFile replies with are a promise about  *)
(* all index files of these lumisections: while the first process lives,   *)
(* none of them is left for anybody else, also after /restart.             *)
THEOREM ToldIsTaken == Spec => []ClosedMeansTaken
<1>1. BInv => ClosedMeansTaken
  BY DEF BInv, Closing, ClosedBy, Taken, ClosedMeansTaken, Closed
<1> QED
  BY <1>1, BrokerInvariantHolds, PTL

(* Whatever lumisections and indexes a run has, the packed score that a    *)
(* FileInfo compares by sorts the directory the way popRunFile needs it.   *)
THEOREM ScoreIsTheOrder == Spec => []ScoreRealisesOrder
<1>1. TypeOK => ScoreRealisesOrder
  BY FilesFacts, ScoreOrder DEF TypeOK, ScoreRealisesOrder
<1> QED
  BY <1>1, BrokerTypeCorrect, PTL
-----------------------------------------------------------------------------
(***************************************************************************)
(* A process that ends strands at most a file per server thread            *)
(***************************************************************************)

LEMMA FilesFinite == TypeOK => IsFiniteSet(Stranded) /\ IsFiniteSet(InHand)
<1> SUFFICES ASSUME TypeOK PROVE IsFiniteSet(Stranded) /\ IsFiniteSet(InHand)
  OBVIOUS
<1>1. Stranded \subseteq FileInfos /\ InHand \subseteq FileInfos
  BY FilesFacts DEF TypeOK, Stranded, InHand
<1> QED
  BY <1>1, FileInfosFinite, FS_Subset

(* A server thread has one file in its hands. *)
LEMMA OneFilePerThread ==
  TypeOK => Cardinality(InHand) \in Nat /\ Cardinality(InHand) <= Cardinality(Workers)
<1> SUFFICES ASSUME TypeOK
             PROVE  Cardinality(InHand) \in Nat /\ Cardinality(InHand) <= Cardinality(Workers)
  OBVIOUS
<1> DEFINE files == {file[w] : w \in Workers}
<1>1. file \in Surjection(Workers, files)
  BY DEF TypeOK, Surjection
<1>2. IsFiniteSet(files) /\ Cardinality(files) <= Cardinality(Workers)
  BY <1>1, BrokerAssumption, FS_Surjection
<1>3. InHand \subseteq files
  BY DEF InHand
<1>4. IsFiniteSet(InHand) /\ Cardinality(InHand) <= Cardinality(files)
  BY <1>2, <1>3, FS_Subset
<1>5. /\ Cardinality(InHand) \in Nat /\ Cardinality(files) \in Nat
      /\ Cardinality(Workers) \in Nat
  BY <1>2, <1>4, BrokerAssumption, FS_CardinalityType
<1> HIDE DEF files
<1> QED
  BY <1>2, <1>4, <1>5

LEMMA RenameStrandsNone ==
  ASSUME HandingInv, NEW w \in Workers, Rename(w) \/ Retry(w)
  PROVE  Stranded' \subseteq Stranded
<1>1. /\ file[w] \in dir /\ moved' = moved \cup {file[w]}
      /\ UNCHANGED <<given, unheard, file>>
  BY DEF Rename, Retry, MovesTo, CanRename, fuVars
<1>2. file[w] \in Data
  BY <1>1, FilesFacts DEF HandingInv, TypeOK
<1> QED
  BY <1>1, <1>2 DEF Stranded, InHand

LEMMA ReplyStrandsNone ==
  ASSUME HandingInv, NEW w \in Workers, Reply(w) \/ ReplyLost(w)
  PROVE  Stranded' \subseteq Stranded
<1>1. /\ TypeOK /\ moved' = moved /\ file' = [file EXCEPT ![w] = NoFile]
      /\ \A f \in Data : given'[f] = 0 => given[f] = 0
      /\ \/ \A f \in Data : given'[f] = 0 => f # file[w]
         \/ unheard' = unheard \cup ({file[w]} \cap Data)
      /\ unheard \subseteq unheard'
  BY DEF Reply, ReplyLost, HandingInv, TypeOK, directoryVars
<1>2. \A v \in Workers : v # w => file'[v] = file[v]
  BY <1>1 DEF TypeOK
<1>3. moved \subseteq Data
  BY <1>1 DEF TypeOK
<1> QED
  BY <1>1, <1>2, <1>3 DEF Stranded, InHand

LEMMA PopStrandsNone ==
  ASSUME HandingInv, NEW w \in Workers, Pop(w)
  PROVE  Stranded' \subseteq Stranded
<1>1. /\ TypeOK /\ file[w] = NoFile
      /\ \A v \in Workers : v # w => file'[v] = file[v]
      /\ UNCHANGED <<moved, given, unheard>>
  BY DEF Pop, HandingInv, TypeOK, Process, directoryVars, fuVars
<1>2. NoFile \notin Data
  BY FilesFacts
<1> QED
  BY <1>1, <1>2 DEF Stranded, InHand

(* Only the end of the process strands a file: one in a thread's hands.    *)
LEMMA WhoStrands ==
  ASSUME HandingInv, [Next]_vars
  PROVE  \/ Stranded' \subseteq Stranded /\ UNCHANGED <<crashes, died>>
         \/ /\ Stranded' \subseteq Stranded \cup InHand
            /\ \/ crashes' = crashes + 1 /\ UNCHANGED died
               \/ died' = died + 1 /\ UNCHANGED crashes
<1> USE DEF directoryVars, processVars, workerVars, deathVars, fuVars
<1>1. CASE \E f \in Files : BUWrites(f)
  BY <1>1 DEF BUWrites, Stranded, InHand
<1>2. CASE \E o \in Ids : ListRun(o)
  BY <1>2 DEF ListRun, Stranded, InHand
<1>3. ASSUME NEW w \in Workers, ServePopFile(w), ~RetryFails(w)
      PROVE  Stranded' \subseteq Stranded /\ UNCHANGED <<crashes, died>>
  <2>1. CASE Rename(w) \/ Retry(w)
    BY <2>1, RenameStrandsNone DEF Rename, Retry, MovesTo
  <2>2. CASE Reply(w) \/ ReplyLost(w)
    BY <2>2, ReplyStrandsNone DEF Reply, ReplyLost
  <2>3. CASE Pop(w)
    BY <2>3, PopStrandsNone DEF Pop
  <2>4. CASE Find(w)
    BY <2>4 DEF Find, Stranded, InHand
  <2>5. CASE RenameFails(w) \/ MakeFuDirectory(w)
    BY <2>5 DEF RenameFails, MakeFuDirectory, Stranded, InHand
  <2> QED
    BY <1>3, <2>1, <2>2, <2>3, <2>4, <2>5 DEF ServePopFile
<1>4. CASE (\E w \in Workers : RestartObserver(w)) \/ StartProcess \/ UNCHANGED vars
  BY <1>4 DEF RestartObserver, StartProcess, vars, Stranded, InHand
<1>5. CASE Crash \/ \E w \in Workers : RetryFails(w) \/ Refused(w)
  BY <1>5 DEF Crash, RetryFails, Refused, Dies, ProcessEnds, Stranded
<1> QED
  BY <1>1, <1>2, <1>3, <1>4, <1>5 DEF Next

LEMMA StrandedStep ==
  ASSUME HandingInv, [Next]_vars, FewStranded
  PROVE  FewStranded'
<1>1. TypeOK
  BY DEF HandingInv
<1>2. PICK n \in Nat : n = Cardinality(Workers)
  BY BrokerAssumption, FS_CardinalityType
<1>3. PICK ends \in Nat : ends = crashes + died
  BY <1>1, BrokerAssumption DEF TypeOK
<1>4. PICK s \in Nat : s = Cardinality(Stranded)
  BY <1>1, FilesFinite, FS_CardinalityType
<1>5. s <= ends * n
  BY <1>2, <1>3, <1>4 DEF FewStranded
<1>6. CASE Stranded' \subseteq Stranded /\ UNCHANGED <<crashes, died>>
  <2>1. Cardinality(Stranded') <= s /\ Cardinality(Stranded') \in Nat
    BY <1>1, <1>4, <1>6, FilesFinite, FS_Subset, FS_CardinalityType
  <2>2. ends * n \in Nat
    BY <1>2, <1>3
  <2>3. Cardinality(Stranded') <= ends * n
    BY <1>5, <2>1, <2>2
  <2> QED
    BY <1>2, <1>3, <1>6, <2>3 DEF FewStranded
<1>7. CASE /\ Stranded' \subseteq Stranded \cup InHand
           /\ \/ crashes' = crashes + 1 /\ UNCHANGED died
              \/ died' = died + 1 /\ UNCHANGED crashes
  <2>1. PICK h \in Nat : h = Cardinality(InHand) /\ h <= n
    BY <1>1, <1>2, OneFilePerThread
  <2>2. IsFiniteSet(Stranded \cup InHand) /\ Cardinality(Stranded \cup InHand) <= s + h
    <3>1. /\ IsFiniteSet(Stranded) /\ IsFiniteSet(InHand)
          /\ IsFiniteSet(Stranded \cap InHand)
      BY <1>1, FilesFinite, FS_Subset
    <3>2. /\ IsFiniteSet(Stranded \cup InHand)
          /\ Cardinality(Stranded \cup InHand) = s + h - Cardinality(Stranded \cap InHand)
      BY <1>4, <2>1, <3>1, FS_Union
    <3>3. Cardinality(Stranded \cap InHand) \in Nat
      BY <3>1, FS_CardinalityType
    <3> QED
      BY <3>2, <3>3
  <2>3. PICK t \in Nat : t = Cardinality(Stranded')
    BY <1>7, <2>2, FS_Subset, FS_CardinalityType
  <2>4. t <= s + h
    <3>1. PICK u \in Nat : u = Cardinality(Stranded \cup InHand)
      BY <2>2, FS_CardinalityType
    <3>2. t <= u
      BY <1>7, <2>2, <2>3, <3>1, FS_Subset
    <3> QED
      BY <2>1, <2>2, <3>1, <3>2
  <2>5. (ends + 1) * n = ends * n + n
    OBVIOUS
  <2>6. t <= (ends + 1) * n
    <3>1. ends * n \in Nat
      OBVIOUS
    <3> QED
      BY ONLY <1>5, <2>1, <2>4, <2>5, <3>1, n \in Nat, s \in Nat, h \in Nat, t \in Nat
  <2>7. crashes' + died' = ends + 1
    <3>1. crashes \in Nat /\ died \in Nat
      BY <1>1, BrokerAssumption DEF TypeOK
    <3> QED
      BY ONLY <1>3, <1>7, <3>1
  <2> QED
    BY <1>2, <2>3, <2>6, <2>7 DEF FewStranded
<1> QED
  BY <1>6, <1>7, WhoStrands

(* A file in the output directory that no FU has and none will get was in  *)
(* the hands of a server thread when the process ended, one file for each  *)
(* thread and end, or was in a reply that was lost: renameIndexFile and    *)
(* the reply of popFile leave no other way.                                *)
THEOREM EndsStrandFew == Spec => []FewStranded
<1>1. Init => FewStranded
  <2> SUFFICES ASSUME Init PROVE FewStranded
    OBVIOUS
  <2>1. Stranded = {} /\ crashes + died = 0
    BY DEF Init, Stranded
  <2>2. Cardinality(Stranded) = 0 /\ Cardinality(Workers) \in Nat
    BY <2>1, BrokerAssumption, FS_EmptySet, FS_CardinalityType
  <2> QED
    BY <2>1, <2>2 DEF FewStranded
<1>2. HandingInv /\ [Next]_vars /\ FewStranded => FewStranded'
  BY StrandedStep
<1> QED
  BY <1>1, <1>2, HandingHolds, PTL DEF Spec
-----------------------------------------------------------------------------
(***************************************************************************)
(* The expressions of FileQueue are the loops                              *)
(***************************************************************************)

LEMMA FirstFacts ==
  ASSUME NEW Q, Q \subseteq FileInfos, Q # {}
  PROVE  /\ First(Q) \in Q
         /\ \A g \in Q : Score(First(Q)) <= Score(g)
         /\ \A g \in Q : g # First(Q) => Before(First(Q), g)
<1>1. IsLeast(First(Q), Q)
  BY FirstFile DEF First
<1>2. First(Q) \in Q /\ \A g \in Q : Score(First(Q)) <= Score(g)
  BY <1>1 DEF IsLeast
<1>3. ASSUME NEW g \in Q, g # First(Q) PROVE Before(First(Q), g)
  <2>1. Score(First(Q)) \in Int /\ Score(g) \in Int /\ Score(First(Q)) # Score(g)
    BY <1>2, <1>3, ScoreOrder, ScoreInjective
  <2>2. Score(First(Q)) < Score(g)
    BY <1>2, <2>1
  <2> QED
    BY <1>2, <2>2, ScoreOrder
<1> QED
  BY <1>2, <1>3

(* What follows a file of the queue belongs to its lumisection or a later  *)
(* one, and to a later one if the file is an EoLS.                         *)
LEMMA Follows ==
  ASSUME NEW f \in FileInfos, NEW g \in FileInfos, Before(f, g)
  PROVE  /\ IsEoR(f) => IsEoR(g)
         /\ ~IsEoR(g) => f.lumiSection <= g.lumiSection
         /\ ~IsEoR(g) /\ IsEoLS(f) => f.lumiSection < g.lumiSection
<1>1. f.lumiSection \in Nat /\ g.lumiSection \in Nat
  BY FileInfoFields, WidthAssumption
<1>2. /\ IsEoLS(f) => f.index = 0 /\ ~IsEoR(f)
      /\ IsEoLS(g) => g.index = 0
  BY FileInfoFields DEF IsEoLS, IsEoR
<1> QED
  BY <1>1, <1>2 DEF Before

LEMMA LeadingIsSkipTurn ==
  ASSUME NEW Q, Q \subseteq FileInfos
  PROVE  Leading(Q) = SkipTurn(Q)
<1>1. CASE Q = {}
  BY <1>1 DEF Leading, SkipTurn
<1>2. CASE Q # {}
  <2> DEFINE f == First(Q)
  <2>1. f \in Q /\ f \in FileInfos /\ \A g \in Q : g # f => Before(f, g)
    BY <1>2, FirstFacts
  <2> HIDE DEF f
  <2>2. CASE ~IsMarker(f)
    <3>1. ASSUME NEW m \in Leading(Q) PROVE FALSE
      <4>1. m \in Q /\ m # f /\ Before(m, f) /\ Before(f, m)
        BY <2>1, <2>2, <3>1 DEF Leading
      <4> QED
        BY <2>1, <4>1, BeforeFacts
    <3>2. Leading(Q) = {}
      BY <3>1
    <3> QED
      BY <2>2, <3>2 DEF SkipTurn, f
  <2>3. CASE IsMarker(f)
    <3>1. f \in Leading(Q)
      BY <2>1, <2>3 DEF Leading
    <3>2. \A m \in Q : m # f => (m \in Leading(Q) <=> m \in Leading(Q \ {f}))
      BY <2>1, <2>3 DEF Leading
    <3>3. Leading(Q) \subseteq Q /\ Leading(Q \ {f}) \subseteq Q \ {f}
      BY DEF Leading
    <3>4. Leading(Q) = {f} \cup Leading(Q \ {f})
      BY <3>1, <3>2, <3>3
    <3> QED
      BY <1>2, <2>3, <3>4 DEF SkipTurn, f
  <2> QED
    BY <2>2, <2>3
<1> QED
  BY <1>1, <1>2

(* first is what a pop takes of what it leaves, or there is nothing.       *)
Takes(first, rest, now) ==
  \/ /\ first = NoFile
     /\ \A f \in rest : ~IsMarker(f) => f.lumiSection # now + 1
  \/ /\ first \in rest /\ ~IsMarker(first) /\ first.lumiSection = now + 1
     /\ \A f \in rest :
          ~IsMarker(f) /\ f.lumiSection = now + 1 => Score(first) <= Score(f)

AtEnd(rest) == rest # {} /\ \A r \in rest : IsEoR(r)

AfterPop(first, rest, now) ==
  [file |-> first, queue |-> IF AtEnd(rest) THEN {} ELSE rest \ {first},
   lastEoLS |-> now, ended |-> AtEnd(rest)]

(* A pop, given the lumisection that the markers it passes close, what     *)
(* they leave and the file that it takes of that.                          *)
LEMMA PoppedIs ==
  ASSUME NEW S, S \subseteq FileInfos, NEW known,
         NEW now, now = LastClosed(PassedEoLS(S, known), known),
         NEW rest, rest = S \ PassedEoLS(S, known),
         NEW first, Takes(first, rest, now)
  PROVE  Popped(S, known) = AfterPop(first, rest, now)
<1> DEFINE ready == {f \in rest : ~IsMarker(f) /\ f.lumiSection = now + 1}
           taken == IF ready = {} THEN NoFile ELSE CHOOSE f \in ready : IsLeast(f, ready)
<1>1. Popped(S, known) = AfterPop(taken, rest, now)
  BY DEF Popped, AfterPop, AtEnd
<1>2. CASE first = NoFile /\ \A f \in rest : ~IsMarker(f) => f.lumiSection # now + 1
  <2>1. ready = {}
    BY <1>2
  <2>2. taken = NoFile
    BY <2>1
  <2> HIDE DEF taken
  <2> QED
    BY <1>1, <1>2, <2>2
<1>3. CASE /\ first \in rest /\ ~IsMarker(first) /\ first.lumiSection = now + 1
           /\ \A f \in rest :
                ~IsMarker(f) /\ f.lumiSection = now + 1 => Score(first) <= Score(f)
  <2>1. first \in ready /\ ready \subseteq FileInfos /\ \A f \in ready : Score(first) <= Score(f)
    BY <1>3
  <2> HIDE DEF ready
  <2>2. IsLeast(first, ready)
    BY <2>1 DEF IsLeast
  <2>3. ASSUME NEW g \in ready, IsLeast(g, ready) PROVE g = first
    <3>1. /\ g \in FileInfos /\ first \in FileInfos
          /\ Score(g) \in Int /\ Score(first) \in Int
      BY <2>1, ScoreOrder
    <3>2. Score(g) <= Score(first) /\ Score(first) <= Score(g)
      BY <2>1, <2>3 DEF IsLeast
    <3>3. Score(g) = Score(first)
      BY <3>1, <3>2
    <3> QED
      BY <3>1, <3>3, ScoreInjective
  <2>4. taken = first
    BY <2>1, <2>2, <2>3
  <2> HIDE DEF taken
  <2> QED
    BY <1>1, <2>4
<1> HIDE DEF taken, ready
<1> QED
  BY <1>2, <1>3 DEF Takes

LEMMA NothingPassed ==
  ASSUME NEW known \in 0 .. MaxLumiSection
  PROVE  LastClosed({}, known) = known
BY LastClosedFacts

(* The turns of popRunFile that end its loop without a file, with EoR and  *)
(* with an index file                                                      *)
LEMMA WaitingTurn ==
  ASSUME NEW Q, Q \subseteq FileInfos, NEW n \in 0 .. MaxLumiSection,
         NoneLate(Q, n), Waits(Q, n)
  PROVE  Popped(Q, n) = PopTurn(Q, n)
<1>0. n \in Nat /\ \A g \in FileInfos : g.lumiSection \in Nat
  BY FileInfoFields, WidthAssumption
<1>1. ASSUME NEW g \in Q, ~IsEoR(g) PROVE g.lumiSection > n + 1
  <2>1. /\ First(Q) \in Q /\ ~IsEoR(First(Q)) /\ First(Q).lumiSection > n + 1
        /\ g = First(Q) \/ Before(First(Q), g)
    BY <1>1, FirstFacts, Follows DEF Waits
  <2> QED
    BY <1>0, <1>1, <2>1, Follows
<1>2. PassedEoLS(Q, n) = {}
  <2> SUFFICES ASSUME NEW m \in PassedEoLS(Q, n) PROVE FALSE
    OBVIOUS
  <2>1. m \in Q /\ ~IsEoR(m) /\ IsEoLS(m)
    BY DEF PassedEoLS, IsEoLS, IsEoR
  <2>2. n + 1 \in n + 1 .. m.lumiSection
    BY <1>0, <1>1, <2>1
  <2>3. PICK e \in Q : IsEoLS(e) /\ e.lumiSection = n + 1
    BY <2>2 DEF PassedEoLS
  <2>4. ~IsEoR(e)
    BY <2>3 DEF IsEoLS, IsEoR
  <2> QED
    BY <1>0, <1>1, <2>3, <2>4
<1>3. Takes(NoFile, Q, n)
  BY <1>0, <1>1 DEF Takes, IsMarker
<1>4. AtEnd(Q) = FALSE
  BY FirstFacts DEF Waits, AtEnd
<1>5. NoFile \notin Q
  BY FilesFacts
<1>6. Popped(Q, n) = AfterPop(NoFile, Q, n)
  <2>1. Q = Q \ PassedEoLS(Q, n) /\ n = LastClosed(PassedEoLS(Q, n), n)
    BY <1>2, NothingPassed
  <2> QED
    BY <1>3, <2>1, PoppedIs
<1>7. Q \ {NoFile} = Q
  BY <1>5
<1> QED
  <2>1. Popped(Q, n) = [file |-> NoFile, queue |-> Q, lastEoLS |-> n, ended |-> FALSE]
    BY <1>4, <1>6, <1>7 DEF AfterPop
  <2> QED
    BY <2>1 DEF PopTurn

LEMMA EndTurn ==
  ASSUME NEW Q, Q \subseteq FileInfos, NEW n \in 0 .. MaxLumiSection,
         ~Waits(Q, n), IsEoR(First(Q))
  PROVE  Popped(Q, n) = PopTurn(Q, n)
<1>1. Q # {} /\ \A g \in Q : IsEoR(g)
  BY FirstFacts, Follows DEF Waits
<1>2. ASSUME NEW S, S \subseteq Q
      PROVE  Popped(S, n) = [file |-> NoFile, queue |-> {}, lastEoLS |-> n, ended |-> S # {}]
  <2>1. PassedEoLS(S, n) = {}
    BY <1>1, <1>2 DEF PassedEoLS, IsEoLS, IsEoR
  <2>2. S = S \ PassedEoLS(S, n) /\ n = LastClosed(PassedEoLS(S, n), n)
    BY <2>1, NothingPassed
  <2>3. Takes(NoFile, S, n)
    BY <1>1, <1>2 DEF Takes, IsMarker
  <2>4. Popped(S, n) = AfterPop(NoFile, S, n)
    <3>1. S \subseteq FileInfos
      BY <1>2
    <3> QED
      BY <2>2, <2>3, <3>1, PoppedIs
  <2>5. AtEnd(S) = (S # {})
    BY <1>1, <1>2 DEF AtEnd
  <2>6. (IF AtEnd(S) THEN {} ELSE S \ {NoFile}) = {}
    BY <2>5
  <2> QED
    BY <2>4, <2>5, <2>6 DEF AfterPop
<1>3. Popped(Q, n) = [file |-> NoFile, queue |-> {}, lastEoLS |-> n, ended |-> TRUE]
  BY <1>1, <1>2
<1>4. LET rest == Popped(Q \ {First(Q)}, n)
      IN  rest.file = NoFile /\ rest.queue = {} /\ rest.lastEoLS = n
  BY <1>2
<1>5. ~IsEoLS(First(Q))
  BY DEF IsEoLS, IsEoR
<1> QED
  BY <1>3, <1>4, <1>5 DEF PopTurn

LEMMA GivingTurn ==
  ASSUME NEW Q, Q \subseteq FileInfos, NEW n \in 0 .. MaxLumiSection,
         NoneLate(Q, n), ~Waits(Q, n), ~IsMarker(First(Q))
  PROVE  Popped(Q, n) = PopTurn(Q, n)
<1> DEFINE f == First(Q)
<1>0. n \in Nat /\ \A g \in FileInfos : g.lumiSection \in Nat
  BY FileInfoFields, WidthAssumption
<1>1. /\ f \in Q /\ ~IsEoR(f) /\ ~IsEoLS(f) /\ f.lumiSection = n + 1
      /\ \A g \in Q : Score(f) <= Score(g)
  <2>1. f \in Q /\ ~IsEoR(f) /\ ~IsEoLS(f) /\ \A g \in Q : Score(f) <= Score(g)
    BY FirstFacts DEF Waits, IsMarker
  <2>2. f.lumiSection > n /\ ~(f.lumiSection > n + 1)
    BY <2>1 DEF Waits, NoneLate
  <2> HIDE DEF f
  <2>3. f.lumiSection = n + 1
    BY <1>0, <2>1, <2>2
  <2> QED
    BY <2>1, <2>3
<1> HIDE DEF f
<1>2. PassedEoLS(Q, n) = {}
  <2> SUFFICES ASSUME NEW m \in PassedEoLS(Q, n) PROVE FALSE
    OBVIOUS
  <2>1. m \in Q /\ ~IsEoR(m)
    BY DEF PassedEoLS, IsEoLS, IsEoR
  <2>2. n + 1 \in n + 1 .. m.lumiSection
    BY <1>0, <2>1 DEF NoneLate
  <2>3. \A g \in Q : ~IsMarker(g) => g.lumiSection # n + 1
    BY <2>2 DEF PassedEoLS
  <2> QED
    BY <1>1, <2>3 DEF IsMarker
<1>3. Takes(f, Q, n) /\ AtEnd(Q) = FALSE
  BY <1>1 DEF Takes, AtEnd, IsMarker
<1>4. Popped(Q, n) = AfterPop(f, Q, n)
  <2>1. Q = Q \ PassedEoLS(Q, n) /\ n = LastClosed(PassedEoLS(Q, n), n)
    BY <1>2, NothingPassed
  <2> QED
    BY <1>3, <2>1, PoppedIs
<1>5. Popped(Q, n) = [file |-> f, queue |-> Q \ {f}, lastEoLS |-> n, ended |-> FALSE]
  BY <1>3, <1>4 DEF AfterPop
<1> QED
  BY <1>1, <1>5 DEF PopTurn, f

(* The turn that passes an EoLS: the chain goes on behind it.              *)
LEMMA MarkerTurn ==
  ASSUME NEW Q, Q \subseteq FileInfos, NEW n \in 0 .. MaxLumiSection,
         NoneLate(Q, n), ~Waits(Q, n), IsEoLS(First(Q))
  PROVE  /\ Popped(Q, n) = PopTurn(Q, n)
         /\ NoneLate(Q \ {First(Q)}, First(Q).lumiSection)
<1> DEFINE f == First(Q)
           others == Q \ {f}
           passed == PassedEoLS(Q, n)
           behind == PassedEoLS(others, n + 1)
<1>0. n \in Nat /\ \A g \in FileInfos : g.lumiSection \in Nat
  BY FileInfoFields, WidthAssumption
<1>1. /\ f \in Q /\ ~IsEoR(f) /\ IsEoLS(f) /\ IsMarker(f) /\ f.lumiSection = n + 1
      /\ \A g \in others : Before(f, g)
  <2>1. /\ f \in Q /\ ~IsEoR(f) /\ IsEoLS(f)
        /\ \A g \in others : Before(f, g)
    BY FirstFacts DEF Waits, IsEoLS, IsEoR
  <2>2. f.lumiSection > n /\ ~(f.lumiSection > n + 1)
    BY <2>1 DEF Waits, NoneLate
  <2> HIDE DEF f
  <2>3. f.lumiSection = n + 1
    BY <1>0, <2>1, <2>2
  <2> QED
    BY <2>1, <2>3 DEF IsMarker
<1> HIDE DEF f
<1>2. \A g \in others : ~IsEoR(g) => g.lumiSection > n + 1
  BY <1>1, Follows
<1>3. passed = {f} \cup behind
  <2>1. f \in passed
    <3>1. \A k \in n + 1 .. f.lumiSection : k = n + 1
      BY <1>0, <1>1
    <3>2. \A g \in Q : ~IsMarker(g) => g.lumiSection # n + 1
      BY <1>0, <1>1, <1>2 DEF IsMarker
    <3> QED
      BY <1>1, <3>1, <3>2 DEF PassedEoLS
  <2>2. ASSUME NEW m \in passed, m # f PROVE m \in behind
    <3>1. m \in others /\ IsEoLS(m)
      BY <2>2 DEF PassedEoLS
    <3>2. ASSUME NEW k \in n + 1 + 1 .. m.lumiSection
          PROVE  /\ \E e \in others : IsEoLS(e) /\ e.lumiSection = k
                 /\ \A g \in others : ~IsMarker(g) => g.lumiSection # k
      <4>1. k \in n + 1 .. m.lumiSection /\ k # n + 1
        BY <1>0, <3>1
      <4> QED
        BY <1>1, <2>2, <4>1 DEF PassedEoLS
    <3> QED
      BY <3>1, <3>2 DEF PassedEoLS
  <2>3. ASSUME NEW m \in behind PROVE m \in passed
    <3>1. m \in others /\ IsEoLS(m)
      BY <2>3 DEF PassedEoLS
    <3>2. ASSUME NEW k \in n + 1 .. m.lumiSection
          PROVE  /\ \E e \in Q : IsEoLS(e) /\ e.lumiSection = k
                 /\ \A g \in Q : ~IsMarker(g) => g.lumiSection # k
      <4>1. CASE k = n + 1
        BY <1>0, <1>1, <1>2, <4>1 DEF IsMarker
      <4>2. CASE k # n + 1
        <5>1. k \in n + 1 + 1 .. m.lumiSection
          BY <1>0, <3>1, <4>2
        <5> QED
          BY <1>1, <2>3, <5>1 DEF PassedEoLS
      <4> QED
        BY <4>1, <4>2
    <3> QED
      BY <3>1, <3>2 DEF PassedEoLS
  <2> QED
    BY <2>1, <2>2, <2>3
<1>4. LastClosed(passed, n) = LastClosed(behind, n + 1)
  <2>1. passed \subseteq FileInfos /\ behind \subseteq FileInfos
    BY DEF PassedEoLS
  <2>2. n + 1 \in 0 .. MaxLumiSection
    BY <1>1, FileInfoFields
  <2> DEFINE a == LastClosed(passed, n)
             b == LastClosed(behind, n + 1)
  <2>3. /\ a \in 0 .. MaxLumiSection /\ n <= a
        /\ a = n \/ \E m \in passed : IsEoLS(m) /\ m.lumiSection = a
        /\ \A m \in passed : IsEoLS(m) => m.lumiSection <= a
    BY <2>1, LastClosedFacts
  <2>4. /\ b \in 0 .. MaxLumiSection /\ n + 1 <= b
        /\ b = n + 1 \/ \E m \in behind : IsEoLS(m) /\ m.lumiSection = b
        /\ \A m \in behind : IsEoLS(m) => m.lumiSection <= b
    BY <2>1, <2>2, LastClosedFacts
  <2> HIDE DEF a, b, passed, behind
  <2>5. a \in Nat /\ b \in Nat
    BY <2>3, <2>4, WidthAssumption
  <2>6. a <= b
    BY <1>0, <1>1, <1>3, <2>3, <2>4, <2>5
  <2>7. b <= a
    BY <1>1, <1>3, <2>3, <2>4, <2>5
  <2>8. a = b
    BY <2>5, <2>6, <2>7
  <2> QED
    BY <2>8 DEF a, b
<1>5. Q \ passed = others \ behind
  BY <1>3
<1>6. Popped(Q, n) = Popped(others, n + 1)
  <2>1. PICK now : now = LastClosed(passed, n)
    OBVIOUS
  <2>2. PICK rest : rest = Q \ passed /\ rest \subseteq FileInfos
    OBVIOUS
  <2>3. PICK first : Takes(first, rest, now)
    <3> DEFINE ready == {g \in rest : ~IsMarker(g) /\ g.lumiSection = now + 1}
    <3>1. CASE ready = {}
      BY <3>1 DEF Takes
    <3>2. CASE ready # {}
      <4>1. PICK g \in ready : IsLeast(g, ready)
        BY <2>2, <3>2, FirstFile
      <4> QED
        BY <4>1 DEF Takes, IsLeast
    <3> QED
      BY <3>1, <3>2
  <2>4. Popped(Q, n) = AfterPop(first, rest, now)
    BY <2>1, <2>2, <2>3, PoppedIs
  <2>5. now = LastClosed(behind, n + 1) /\ rest = others \ behind /\ others \subseteq FileInfos
    BY <1>4, <1>5, <2>1, <2>2
  <2>6. Popped(others, n + 1) = AfterPop(first, rest, now)
    <3> HIDE DEF others
    <3> QED
      BY <2>3, <2>5, PoppedIs DEF behind
  <2> QED
    BY <2>4, <2>6
<1>7. PopTurn(Q, n) = Popped(others, n + 1)
  BY <1>1 DEF PopTurn, f
<1>8. NoneLate(others, f.lumiSection)
  BY <1>1, <1>2 DEF NoneLate
<1> QED
  BY <1>6, <1>7, <1>8 DEF f

(* The loops of popRunFile and optimizeAndPushFiles compute what FileQueue *)
(* says of every queue and directory: turn by turn they agree, and each    *)
(* turn leaves a smaller one in which no file is late.                     *)
LEMMA QueueTurns ==
  ASSUME NEW Q, Q \subseteq FileInfos
  PROVE  /\ Leading(Q) = SkipTurn(Q)
         /\ \A n \in 0 .. MaxLumiSection :
              NoneLate(Q, n) =>
                /\ Popped(Q, n) = PopTurn(Q, n)
                /\ ~Waits(Q, n) /\ IsEoLS(First(Q)) =>
                     NoneLate(Q \ {First(Q)}, First(Q).lumiSection)
<1>1. ASSUME NEW n \in 0 .. MaxLumiSection, NoneLate(Q, n)
      PROVE  /\ Popped(Q, n) = PopTurn(Q, n)
             /\ ~Waits(Q, n) /\ IsEoLS(First(Q)) =>
                  NoneLate(Q \ {First(Q)}, First(Q).lumiSection)
  <2>1. CASE Waits(Q, n)
    BY <1>1, <2>1, WaitingTurn
  <2>2. CASE ~Waits(Q, n) /\ IsEoLS(First(Q))
    BY <1>1, <2>2, MarkerTurn
  <2>3. CASE ~Waits(Q, n) /\ ~IsEoLS(First(Q)) /\ IsEoR(First(Q))
    BY <1>1, <2>3, EndTurn
  <2>4. CASE ~Waits(Q, n) /\ ~IsMarker(First(Q))
    BY <1>1, <2>4, GivingTurn DEF IsMarker
  <2> QED
    BY <2>1, <2>2, <2>3, <2>4 DEF IsMarker
<1> QED
  BY <1>1, LeadingIsSkipTurn

(* popRunFile never meets a file of a lumisection that it has reported as  *)
(* complete, also in a process that began with some files already given,   *)
(* and takes from every queue what its loop takes.                         *)
THEOREM PopsAreTheLoops == Spec => []QueueIsTheLoops
<1>1. LoopsAgree
  <2>1. \A Q \in SUBSET TestFiles : Q \subseteq FileInfos
    BY LoopsAssumption
  <2> QED
    BY <2>1, QueueTurns DEF LoopsAgree
<1>2. BInv => QueueIsTheLoops
  BY <1>1 DEF BInv, Directory, QueueIsTheLoops
<1> QED
  BY <1>2, BrokerInvariantHolds, PTL
-----------------------------------------------------------------------------
(***************************************************************************)
(* A name is read as what it was written for                               *)
(***************************************************************************)

(* The files whose numbers a uint32_t holds *)
Nameable ==
  {f \in [runNumber : 0 .. Word - 1, lumiSection : 0 .. Word - 1, index : 0 .. Word - 1,
          type : {"INDEX", "EOLS", "EOR"}] : f.type # "INDEX" => f.index = 0}

LEMMA FitsAWord ==
  ASSUME NEW n \in 0 .. Word - 1
  PROVE  n % Word = n
<1>1. Word \in Nat /\ Word > 0 /\ n \in Nat /\ n < Word
  BY NamesAssumption
<1> QED
  BY <1>1

(* Whatever a number needs, it is written with some digits if its width    *)
(* asks for some.                                                          *)
LEMMA WrittenFacts ==
  ASSUME NEW value, NEW width
  PROVE  /\ Written(value, width).value = value
         /\ width \in Nat \ {0} => Written(value, width) # NoNumber
<1> DEFINE needed == CHOOSE d \in 1 .. value + 1 :
                       value < 10 ^ d /\ (d = 1 \/ value >= 10 ^ (d - 1))
<1>1. Written(value, width)
        = [value |-> value, digits |-> IF needed > width THEN needed ELSE width]
  BY DEF Written
<1> HIDE DEF needed
<1>2. ASSUME width \in Nat \ {0}
      PROVE  (IF needed > width THEN needed ELSE width) # 0
  BY <1>2
<1> QED
  BY <1>1, <1>2 DEF NoNumber

(* The parts of the name that the BU writes *)
LEMMA BUNameParts ==
  ASSUME NEW f \in Nameable
  PROVE  /\ BUName(f).run.value = f.runNumber
         /\ BUName(f).ls.value = f.lumiSection
         /\ BUName(f).tail = ""
         /\ f.type = "INDEX" => /\ BUName(f).word = "index"
                                /\ BUName(f).number.value = f.index
                                /\ BUName(f).number # NoNumber
                                /\ BUName(f).extension = ".raw"
         /\ f.type # "INDEX" => /\ BUName(f).number = NoNumber
                                /\ BUName(f).extension = ".jsn"
         /\ f.type = "EOLS" => BUName(f).word = "EoLS"
         /\ f.type = "EOR" => BUName(f).word = "EoR"
         /\ f.type \in {"INDEX", "EOLS", "EOR"}
BY WrittenFacts, NamesAssumption DEF BUName, fileName, WithExtension, TypeName, Nameable

LEMMA BUNameIsRead ==
  ASSUME NEW f \in Nameable
  PROVE  parseFileName(BUName(f)) = f
<1> DEFINE name == BUName(f)
<1>1. /\ f.runNumber % Word = f.runNumber /\ f.lumiSection % Word = f.lumiSection
      /\ f.index % Word = f.index
      /\ f = [runNumber |-> f.runNumber, lumiSection |-> f.lumiSection,
              index |-> f.index, type |-> f.type]
      /\ f.type # "INDEX" => f.index = 0
  BY FitsAWord DEF Nameable
<1>2. /\ name.run.value = f.runNumber /\ name.ls.value = f.lumiSection
      /\ f.type = "INDEX" => Found(name) = 3 /\ name.number.value = f.index
      /\ f.type # "INDEX" => Found(name) = 2
      /\ f.type = "EOR" => Says(name, "EoR")
      /\ f.type = "EOLS" => ~Says(name, "EoR")
      /\ f.type \in {"INDEX", "EOLS", "EOR"}
  BY BUNameParts DEF Found, Says
<1> HIDE DEF name
<1>3. /\ parseFileName(name).type = f.type
      /\ parseFileName(name).index = f.index
      /\ parseFileName(name).runNumber = f.runNumber
      /\ parseFileName(name).lumiSection = f.lumiSection
  BY <1>1, <1>2 DEF parseFileName
<1>4. parseFileName(name)
        = [runNumber   |-> parseFileName(name).runNumber,
           lumiSection |-> parseFileName(name).lumiSection,
           index       |-> parseFileName(name).index,
           type        |-> parseFileName(name).type]
  BY DEF parseFileName
<1> QED
  BY <1>1, <1>3, <1>4 DEF name

LEMMA BUNameIsListed ==
  ASSUME NEW f \in Nameable
  PROVE  Matches(BUName(f)) /\ Listable(BUName(f))
<1>1. Matches(BUName(f)) /\ Readable(BUName(f))
  BY BUNameParts DEF Matches, Readable, Found, Says
<1>2. BUName(f) \in {WithExtension(fileName(f), ".jsn"), WithExtension(fileName(f), ".raw")}
  BY DEF BUName
<1> QED
  BY <1>1, <1>2, BUNameIsRead DEF Listable

LEMMA ListedIndexIsFound ==
  ASSUME NEW name \in Names, Listable(name), Found(name) = 3
  PROVE  RenamedName(parseFileName(name)) = name
<1> DEFINE same == fileName(parseFileName(name))
<1>1. Matches(name) /\ name \in {WithExtension(same, ".jsn"), WithExtension(same, ".raw")}
  BY DEF Listable
<1>2. name.extension = ".raw"
  <2>1. name.word = "index"
    BY DEF Found
  <2>2. name.word \notin {"EoLS", "EoR"}
    BY <2>1
  <2> QED
    BY <1>1, <2>2 DEF Matches
<1>3. WithExtension(same, ".jsn").extension = ".jsn"
  BY DEF WithExtension, fileName
<1>4. name = WithExtension(same, ".raw")
  BY <1>1, <1>2, <1>3
<1> QED
  BY <1>4 DEF RenamedName

(* The rename asks for a name that is written anew from the numbers read   *)
(* (main.cc:171).  Whatever these are and however they were written, it is *)
(* the name of the file that was listed or reported.                       *)
THEOREM RenamedAsRead == Spec => []NamesReadBack
<1>1. ListedAreFound
  BY ListedIndexIsFound DEF ListedAreFound
<1>2. WrittenAreRead
  <2>1. NamedFiles \subseteq Nameable
    BY NamesAssumption DEF NamedFiles, Nameable
  <2> QED
    BY <2>1, BUNameIsRead, BUNameIsListed DEF WrittenAreRead
<1>3. ASSUME TypeOK, NEW f \in dir, ~IsMarker(f)
      PROVE  /\ Matches(BUName(OfRun(f)))
             /\ RenamedName(parseFileName(BUName(OfRun(f)))) = BUName(OfRun(f))
  <2>1. f \in FileInfos
    BY <1>3, FilesFacts DEF TypeOK
  <2>2. /\ f.lumiSection \in 0 .. Word - 1 /\ f.index \in 0 .. Word - 1
        /\ runNumber \in 0 .. Word - 1 /\ f.type = "INDEX"
    <3>1. f.type = "INDEX"
      BY <1>3, <2>1, FileInfoFields DEF IsMarker, IsEoLS, IsEoR, FileType
    <3>2. f.lumiSection \in 0 .. MaxLumiSection /\ f.index \in 0 .. IndexSpan - 1
      BY <2>1, FileInfoFields
    <3> QED
      BY <3>1, <3>2, NamesAssumption, WidthAssumption
  <2>3. OfRun(f) \in Nameable /\ OfRun(f).type = "INDEX"
    BY <2>2 DEF OfRun, Nameable
  <2>4. RenamedName(OfRun(f)) = BUName(OfRun(f))
    BY <2>3 DEF RenamedName, BUName
  <2> QED
    BY <2>3, <2>4, BUNameIsListed, BUNameIsRead
<1>4. TypeOK => NamesReadBack
  BY <1>1, <1>2, <1>3 DEF NamesReadBack
<1> QED
  BY <1>4, BrokerTypeCorrect, PTL
=============================================================================
