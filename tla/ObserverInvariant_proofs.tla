---------------------- MODULE ObserverInvariant_proofs ----------------------
(***************************************************************************)
(* The safety properties of RunDirectoryObserver, for every set of files   *)
(* that are moved into the run directory, every kernel queue length (also  *)
(* one that drops events), buffer size and set of stopls values.           *)
(*                                                                         *)
(* IInv is shown to hold initially and to be kept by every step; each      *)
(* property follows from it.  When the kernel's event queue has room for   *)
(* all of the files, the observer implements FileFlow, and no complete     *)
(* file is ever out of sight.                                              *)
(***************************************************************************)
EXTENDS ObserverInvariant, RunDirectoryObserver_proofs, FileInfo_proofs, FiniteSetTheorems

(* What the order of two files of the run says of them.                    *)
LEMMA FileOrder ==
  ASSUME NEW f \in Files, NEW g \in Files
  PROVE  /\ Score(f) \in Int
         /\ Before(f, g) <=> Score(f) < Score(g)
         /\ f # g => Score(f) # Score(g)
         /\ IsEoR(g) /\ f # g => Score(f) < Score(g)
         /\ ~IsEoR(f) /\ IsEoLS(g) /\ f # g /\ f.lumiSection <= g.lumiSection
              => Score(f) < Score(g)
<1>1. f \in FileInfos /\ g \in FileInfos
  BY FilesAssumption
<1>2. IsEoR(f) /\ IsEoR(g) => f = g
  BY FilesAssumption
<1> QED
  BY <1>1, <1>2, ScoreOrder, ScoreInjective, MarkerOrder

(* Copies are counted in natural numbers.                                  *)
LEMMA Counts ==
  ASSUME TypeOK, NEW f \in Files
  PROVE  files[f] \in Nat /\ queue[f] \in Nat /\ consumed[f] \in Nat
BY DEF TypeOK, IsBag

LEMMA BagCounts ==
  ASSUME NEW b, IsBag(b), NEW f \in Files, NEW g \in Files
  PROVE  /\ With(b, f)[g] = IF g = f THEN b[g] + 1 ELSE b[g]
         /\ Without(b, f)[g] = IF g = f THEN b[g] - 1 ELSE b[g]
         /\ PushBackIfNew(b, f)[g] = IF g = f /\ b[g] = 0 THEN 1 ELSE b[g]
BY DEF IsBag, With, Without, PushBackIfNew

-----------------------------------------------------------------------------
(***************************************************************************)
(* Initially, and under the steps of the starter                           *)
(***************************************************************************)

LEMMA InitIInv ==
  ASSUME InPlace = {}, Early = {}, Init
  PROVE  IInv
<1> USE DEF Init, DirInit
<1>1. TypeOK
  BY InitType
<1>2. NoConsistencyFailure
  BY DEF NoConsistencyFailure
<1>3. \A f \in Files : files[f] = 0 /\ queue[f] = 0 /\ consumed[f] = 0
  BY DEF NoFiles
<1>4. Announced = {} /\ Len(events) = 0
  BY NoEvents DEF Announced
<1>5. Phases
  BY <1>3 DEF Phases, Held, Unwatched, Starting
<1>6. Directory /\ Once /\ Order /\ Frontier /\ Kept
  BY <1>3, <1>4 DEF Directory, Once, Order, Frontier, Kept, Placed, Settled, Listed
<1>7. Events
  BY <1>4 DEF Events
<1>8. Meaning
  BY <1>3 DEF Meaning
<1> QED
  BY <1>1, <1>2, <1>5, <1>6, <1>7, <1>8 DEF IInv

LEMMA StutterIInv == IInv /\ UNCHANGED vars => IInv'
<1> SUFFICES ASSUME IInv, UNCHANGED vars PROVE IInv'
  OBVIOUS
<1>1. TypeOK'
  BY NextType DEF IInv
<1> QED
  BY <1>1 DEF IInv, vars, dirVars, runnerVars, fuVars, popVars, NoConsistencyFailure, Phases,
      Directory, Events, Once, Order, Frontier, Meaning, Kept, Placed,
      Outstanding, Listed, Announced, Held, Starting, Unwatched, Settled, Up

LEMMA StarterIInv ==
  ASSUME IInv, Starter
  PROVE  IInv'
<1> USE DEF dirVars, runnerVars, fuVars, popVars
<1>1. TypeOK'
  BY StarterType DEF IInv
<1>2. CASE StartThread
  BY <1>1, <1>2
  DEF StartThread, IInv, NoConsistencyFailure, Phases,
      Directory, Events, Once, Order, Frontier, Meaning, Kept, Placed,
      Outstanding, Listed, Announced, Held, Starting, Unwatched, Settled, Up
<1>3. CASE StartSetsRunState
  BY <1>1, <1>3
  DEF StartSetsRunState, IInv, NoConsistencyFailure, Phases,
      Directory, Events, Once, Order, Frontier, Meaning, Kept, Placed,
      Outstanding, Listed, Announced, Held, Starting, Unwatched, Settled, Up
<1>4. CASE StartSetsFUState
  BY <1>1, <1>4
  DEF StartSetsFUState, IInv, NoConsistencyFailure, Phases,
      Directory, Events, Once, Order, Frontier, Meaning, Kept, Placed,
      Outstanding, Listed, Announced, Held, Starting, Unwatched, Settled, Up
<1> QED
  BY <1>2, <1>3, <1>4 DEF Starter

-----------------------------------------------------------------------------
(***************************************************************************)
(* Under the steps of the runner                                           *)
(***************************************************************************)

(* Steps of the runner that move no file. *)
RunnerOnly ==
  \/ AddWatch \/ AddWatchFails \/ FailFUState \/ SetErrorMessage \/ RunnerThrows
  \/ DrainRead \/ DrainDone \/ OptimizeDone
  \/ CheckQueue \/ SetFUState \/ ReadEvents

LEMMA RunnerOnlyIInv ==
  ASSUME IInv, RunnerOnly
  PROVE  IInv'
<1> USE DEF dirVars, runnerVars, fuVars, popVars
<1>1. TypeOK'
  BY RunnerType DEF IInv, RunnerOnly, InotifyRunner, RunnerWorks
<1>2. CASE AddWatch
  BY <1>1, <1>2
  DEF AddWatch, InstallWatch, IInv, NoConsistencyFailure, Phases,
      Directory, Events, Once, Order, Frontier, Meaning, Kept, Placed,
      Outstanding, Listed, Announced, Held, Starting, Unwatched, Settled, Up
<1>3. CASE AddWatchFails
  BY <1>1, <1>3
  DEF AddWatchFails, WatchError, IInv, NoConsistencyFailure, Phases,
      Directory, Events, Once, Order, Frontier, Meaning, Kept, Placed,
      Outstanding, Listed, Announced, Held, Starting, Unwatched, Settled, Up
<1>4. CASE FailFUState \/ SetErrorMessage
  BY <1>1, <1>4
  DEF FailFUState, SetErrorMessage, IInv, NoConsistencyFailure, Phases,
      Directory, Events, Once, Order, Frontier, Meaning, Kept, Placed,
      Outstanding, Listed, Announced, Held, Starting, Unwatched, Settled, Up
<1>5. CASE RunnerThrows
  BY <1>1, <1>5
  DEF RunnerThrows, IInv, NoConsistencyFailure, Phases,
      Directory, Events, Once, Order, Frontier, Meaning, Kept, Placed,
      Outstanding, Listed, Announced, Held, Starting, Unwatched, Settled, Up
<1>6. CASE DrainRead
  BY <1>1, <1>6
  DEF DrainRead, Read, IInv, NoConsistencyFailure, Phases,
      Directory, Events, Once, Order, Frontier, Meaning, Kept, Placed,
      Outstanding, Listed, Announced, Held, Starting, Unwatched, Settled, Up
<1>7. CASE DrainDone
  BY <1>1, <1>7
  DEF DrainDone, HasEvent, IInv, NoConsistencyFailure, Phases,
      Directory, Events, Once, Order, Frontier, Meaning, Kept, Placed,
      Outstanding, Listed, Announced, Held, Starting, Unwatched, Settled, Up
<1>8. CASE OptimizeDone
  BY <1>1, <1>8
  DEF OptimizeDone, IInv, NoConsistencyFailure, Phases,
      Directory, Events, Once, Order, Frontier, Meaning, Kept, Placed,
      Outstanding, Listed, Announced, Held, Starting, Unwatched, Settled, Up
<1>9. CASE CheckQueue
  BY <1>1, <1>9
  DEF CheckQueue, StateToSet, IInv, NoConsistencyFailure, Phases,
      Directory, Events, Once, Order, Frontier, Meaning, Kept, Placed,
      Outstanding, Listed, Announced, Held, Starting, Unwatched, Settled, Up
<1>10. CASE SetFUState
  BY <1>1, <1>10
  DEF SetFUState, IInv, NoConsistencyFailure, Phases,
      Directory, Events, Once, Order, Frontier, Meaning, Kept, Placed,
      Outstanding, Listed, Announced, Held, Starting, Unwatched, Settled, Up
<1>11. CASE ReadEvents
  BY <1>1, <1>11
  DEF ReadEvents, Read, IInv, NoConsistencyFailure, Phases,
      Directory, Events, Once, Order, Frontier, Meaning, Kept, Placed,
      Outstanding, Listed, Announced, Held, Starting, Unwatched, Settled, Up
<1> QED
  BY <1>2, <1>3, <1>4, <1>5, <1>6, <1>7, <1>8, <1>9, <1>10, <1>11 DEF RunnerOnly

LEMMA ListIInv ==
  ASSUME IInv, ListBegin \/ ListEnd
  PROVE  IInv'
<1> USE DEF dirVars, runnerVars, fuVars, popVars
<1>1. TypeOK'
  BY RunnerType DEF IInv, InotifyRunner, RunnerWorks, Optimize
<1>2. runner \in Starting \ Unwatched /\ runner' \in Starting \ Unwatched /\ runner' \notin Settled
  BY DEF ListBegin, ListEnd, Starting, Unwatched, Settled
<1>3. /\ UNCHANGED <<dirVars, runLastEoLS, sawIndex, errorSet, queue, fuVars, failed, consumed, runState, starter>>
      /\ runner' \in {"listing", "drain"}
  BY DEF ListBegin, ListEnd
<1>4. ASSUME NEW f \in Files
      PROVE  /\ queue[f] = 0 /\ consumed[f] = 0
             /\ files'[f] \in {0, 1}
             /\ files'[f] = 1 => f \in dir
             /\ f \in dir \ dropped => files'[f] = 1 \/ (runner' = "drain" /\ f \in Announced)
  <2>1. queue[f] = 0 /\ consumed[f] = 0
    BY <1>2, Counts DEF IInv, Phases, Held
  <2>2. CASE ListBegin
    BY <2>1, <2>2 DEF ListBegin
  <2>3. CASE ListEnd
    <3>1. /\ files[f] \in {0, 1} /\ (files[f] = 1 => f \in dir)
          /\ f \in dir \ dropped => files[f] > 0 \/ f \in Announced
      BY <2>1, <2>3, Counts DEF ListEnd, IInv, Once, Directory, Kept, Placed
    <3>2. (files'[f] = 1 /\ f \in dir) \/ files'[f] = files[f]
      BY <2>3 DEF ListEnd
    <3>3. runner' = "drain"
      BY <2>3 DEF ListEnd
    <3> QED
      BY <2>1, <3>1, <3>2, <3>3
  <2> QED
    BY <2>2, <2>3, <2>1
<1>5. \A f \in Files : Placed(f)' = files'[f]
  BY <1>3, <1>4 DEF Placed
<1>6. Announced' = Announced
  BY <1>3 DEF Announced
<1>7. NoConsistencyFailure' /\ Events' /\ Meaning'
  BY <1>3 DEF IInv, NoConsistencyFailure, Events, Meaning
<1>8. Phases'
  BY <1>2, <1>3 DEF IInv, Phases, Starting, Unwatched, Held
<1>9. Directory' /\ Once' /\ Order' /\ Frontier'
  BY <1>2, <1>3, <1>4, <1>5, <1>6 DEF IInv, Directory, Once, Order, Frontier
<1>10. Kept'
  <2>1. dir \subseteq Files
    BY DEF IInv, TypeOK, DirTypeOK
  <2> QED
    BY <1>3, <1>4, <1>5, <1>6, <2>1 DEF Kept
<1> QED
  BY <1>1, <1>7, <1>8, <1>9, <1>10 DEF IInv

(* Taking the first event.                                                 *)
LEMMA TailFacts ==
  ASSUME TypeOK, Events, events # <<>>, NextEvent
  PROVE  /\ Head(events) \in Files
         /\ Announced = Announced' \cup {Head(events)}
         /\ Head(events) \notin Announced'
         /\ IsMarker(Head(events)) =>
              \A g \in Announced' : Score(Head(events)) < Score(g)
         /\ Events'
<1>1. /\ events \in Seq(Files) /\ Len(events) \in Nat \ {0}
      /\ events' = Tail(events) /\ Len(events') = Len(events) - 1
      /\ Head(events) = events[1]
  BY EventOperations DEF TypeOK, DirTypeOK, NextEvent
<1>2. \A i \in 1 .. Len(events') : events'[i] = events[i + 1] /\ i + 1 \in 1 .. Len(events)
  BY <1>1
<1>3. Announced = Announced' \cup {Head(events)}
  <2>1. ASSUME NEW g \in Announced' PROVE g \in Announced
    BY <2>1, <1>2 DEF Announced
  <2>2. Head(events) \in Announced
    BY <1>1 DEF Announced
  <2>3. ASSUME NEW g \in Announced PROVE g \in Announced' \cup {Head(events)}
    <3>1. PICK i \in 1 .. Len(events) : g = events[i]
      BY <2>3 DEF Announced
    <3>2. CASE i = 1
      BY <1>1, <3>1, <3>2
    <3>3. CASE i # 1
      <4>1. i - 1 \in 1 .. Len(events') /\ events'[i - 1] = events[i]
        BY <1>1, <1>2, <3>1, <3>3
      <4> QED
        BY <3>1, <4>1 DEF Announced
    <3> QED
      BY <3>2, <3>3
  <2> QED
    BY <2>1, <2>2, <2>3
<1>4. ASSUME NEW g \in Announced'
      PROVE  /\ Head(events) # g
             /\ IsMarker(Head(events)) => Score(Head(events)) < Score(g)
  <2>1. PICK i \in 1 .. Len(events') : g = events[i + 1] /\ i + 1 \in 1 .. Len(events)
    BY <1>2, <1>4 DEF Announced
  <2>2. 1 \in 1 .. Len(events) /\ 1 < i + 1
    BY <1>1, <2>1
  <2> QED
    BY <1>1, <2>1, <2>2 DEF Events
<1>5. Events'
  BY <1>1, <1>2 DEF Events
<1> QED
  BY <1>1, <1>3, <1>4, <1>5, EventOperations

(* An event the kernel queues, or drops.                                   *)
LEMMA AppendFacts ==
  ASSUME TypeOK, Directory, Events, NEW f \in Files \ dir, Notify(f)
  PROVE  /\ Announced \subseteq Announced'
         /\ Announced' \subseteq Announced \cup {f}
         /\ dropped \subseteq dropped'
         /\ watched => f \in Announced' \/ f \in dropped'
         /\ ~watched => events' = events
         /\ watched' = watched
         /\ Events'
<1>1. \/ events' = events
      \/ events' = Append(events, f)
  BY DEF Notify
<1>2. events \in Seq(Files) /\ Len(events) \in Nat
  BY DEF TypeOK, DirTypeOK
<1>3. CASE events' = events
  <2>1. Announced' = Announced /\ Events'
    BY <1>3 DEF Announced, Events
  <2>2. ASSUME watched PROVE f \in dropped' \/ f \in Announced'
    <3>1. Len(events) - batch >= EventLimit \/ events' = Append(events, f)
      BY <2>2 DEF Notify
    <3>2. Append(events, f) # events
      <4>1. Len(Append(events, f)) = Len(events) + 1
        BY <1>2
      <4> QED
        BY <1>2, <4>1
    <3> QED
      BY <2>2, <1>3, <3>1, <3>2 DEF Notify
  <2> QED
    BY <2>1, <2>2, <1>3 DEF Notify
<1>4. CASE events' = Append(events, f)
  <2>1. /\ Len(events') = Len(events) + 1
        /\ events'[Len(events) + 1] = f
        /\ \A i \in 1 .. Len(events) : events'[i] = events[i]
    BY <1>2, <1>4
  <2>2. Announced \subseteq Announced' /\ f \in Announced'
    BY <1>2, <2>1 DEF Announced
  <2>3. Announced' \subseteq Announced \cup {f}
    BY <1>2, <2>1 DEF Announced
  <2>4. ASSUME NEW i \in 1 .. Len(events)
        PROVE  events[i] # f /\ (IsMarker(events[i]) => Score(events[i]) < Score(f))
    <3>1. events[i] \in Files /\ events[i] \in dir
      BY <1>2, <2>4 DEF Directory, Announced
    <3> QED
      BY <3>1, FileOrder DEF Directory
  <2>5. Events'
    <3> SUFFICES ASSUME NEW i \in 1 .. Len(events'), NEW j \in 1 .. Len(events'), i < j
                 PROVE  /\ events'[i] # events'[j]
                        /\ IsMarker(events'[i]) => Score(events'[i]) < Score(events'[j])
      BY DEF Events
    <3>1. i \in 1 .. Len(events)
      BY <1>2, <2>1
    <3>2. CASE j = Len(events) + 1
      BY <2>1, <2>4, <3>1, <3>2
    <3>3. CASE j # Len(events) + 1
      <4>1. j \in 1 .. Len(events)
        BY <1>2, <2>1, <3>3
      <4> QED
        BY <2>1, <3>1, <4>1 DEF Events
    <3> QED
      BY <3>2, <3>3
  <2>6. ~watched => events' = events
    BY DEF Notify
  <2> QED
    BY <2>2, <2>3, <2>5, <2>6 DEF Notify
<1> QED
  BY <1>1, <1>3, <1>4

-----------------------------------------------------------------------------
(***************************************************************************)
(* Under the steps of the BU                                               *)
(***************************************************************************)

LEMMA BUIInv ==
  ASSUME InPlace = {}, Early = {}, IInv, BU
  PROVE  IInv'
<1> USE DEF runnerVars, fuVars, popVars
<1>1. TypeOK'
  BY BUType DEF IInv
<1>2. UNCHANGED <<starter, runnerVars, queue, fuVars, popVars, failed, consumed>>
  BY DEF BU
<1>3. CASE BUMakesDirectory
  BY <1>1, <1>2, <1>3 DEF BUMakesDirectory, IInv, NoConsistencyFailure, Phases,
     Directory, Events, Once, Order, Frontier, Meaning, Kept, Placed,
     Outstanding, Listed, Announced, Held
<1>4. ASSUME NEW f \in Files, BUMovesIn(f) PROVE IInv'
  <2>1. /\ f \in Files \ dir
        /\ dir' = dir \cup {f}
        /\ UNCHANGED open
        /\ Notify(f)
    BY <1>4 DEF BUMovesIn, Writable
  <2>2. /\ Announced \subseteq Announced'
        /\ Announced' \subseteq Announced \cup {f}
        /\ dropped \subseteq dropped'
        /\ watched => f \in Announced' \/ f \in dropped'
        /\ ~watched => events' = events
        /\ watched' = watched
        /\ Events'
    BY <2>1, AppendFacts DEF IInv
  <2>3. ASSUME NEW m \in dir, IsMarker(m) PROVE Score(m) < Score(f)
    <3>1. m \in Files
      BY DEF IInv, TypeOK, DirTypeOK
    <3> QED
      BY <2>1, <2>3, <3>1, FileOrder DEF IInv, Directory
  <2>4. \A g \in Files : Placed(g)' = Placed(g)
    BY <1>2 DEF Placed
  <2>5. Placed(f) = 0
    BY <2>1, Counts DEF IInv, Directory, Placed
  <2>6. Directory'
    <3>1. ASSUME NEW g \in Files, IsMarker(f), Score(g) < Score(f) PROVE g \in dir
      BY <1>4, <3>1, FileOrder DEF BUMovesIn, Writable
    <3> QED
      BY <2>1, <2>2, <2>4, <3>1 DEF IInv, Directory
  <2>7. Once'
    BY <1>2, <2>2, <2>4, <2>5 DEF IInv, Once
  <2>8. Order'
    <3>1. ASSUME NEW m \in Files, IsMarker(m), Placed(m) > 0 PROVE Score(m) < Score(f)
      BY <2>3, <3>1 DEF IInv, Directory
    <3> QED
      BY <1>2, <2>2, <2>4, <3>1 DEF IInv, Order
  <2>9. Frontier'
    BY <1>2, <2>1, <2>2 DEF IInv, Frontier, Outstanding
  <2>10. Phases'
    BY <1>2, <2>1, <2>2 DEF IInv, Phases, Held
  <2>11. NoConsistencyFailure' /\ Meaning'
    BY <1>2 DEF IInv, NoConsistencyFailure, Meaning
  <2>12. Kept'
    <3>1. Listed \/ runner = "listing" => watched
      <4>1. ASSUME runner = "stopped", ~errorSet PROVE FALSE
        <5>1. PICK r \in dir : IsEoR(r)
          BY <4>1 DEF IInv, Phases
        <5>2. r \in Files /\ r # f
          BY <2>1 DEF IInv, TypeOK, DirTypeOK
        <5> QED
          BY <2>1, <2>3, <5>1, <5>2, FileOrder DEF IsMarker, IInv, Directory
      <4> QED
        BY <4>1 DEF IInv, Phases, Listed, Unwatched
    <3> QED
      BY <1>2, <2>1, <2>2, <2>4, <3>1 DEF IInv, Kept, Listed, TypeOK, DirTypeOK
  <2> QED
    BY <1>1, <2>2, <2>6, <2>7, <2>8, <2>9, <2>10, <2>11, <2>12 DEF IInv
<1>5. ASSUME NEW f \in Files, BUCreates(f) \/ BUCloses(f) PROVE FALSE
  BY <1>5 DEF BUCreates, BUCloses, IInv, Phases
<1> QED
  BY <1>3, <1>4, <1>5 DEF BU, BUNext

LEMMA DrainEventIInv ==
  ASSUME IInv, DrainEvent
  PROVE  IInv'
<1> DEFINE e == Head(events)
<1>1. TypeOK'
  BY RunnerType DEF IInv, InotifyRunner, RunnerWorks, Optimize
<1>2. /\ runner = "drain"
      /\ files' = PushBackIfNew(files, e)
      /\ UNCHANGED <<dir, open, watched, dropped, starter, runner, runState,
                     runLastEoLS, sawIndex, errorSet, queue, fuState, fuLastEoLS,
                     lastPopped, failed, consumed>>
  BY DEF DrainEvent, NextEvent, fuVars
<1>3. /\ e \in Files
      /\ Announced = Announced' \cup {e}
      /\ Events'
  <2>1. events # <<>> /\ NextEvent
    BY DEF DrainEvent, IInv, TypeOK, DirTypeOK
  <2> QED
    BY <2>1, TailFacts DEF IInv
<1> HIDE DEF e
<1>4. ASSUME NEW f \in Files
      PROVE  /\ queue[f] = 0 /\ consumed[f] = 0
             /\ files[f] \in Nat
             /\ files'[f] = IF f = e /\ files[f] = 0 THEN 1 ELSE files[f]
  BY <1>2, <1>3, Counts, BagCounts DEF IInv, Phases, Held, Starting, TypeOK
<1>5. Directory' /\ Once' /\ Frontier' /\ Order'
  BY <1>2, <1>3, <1>4 DEF IInv, Directory, Once, Frontier, Order, Placed, Settled
<1>6. Phases'
  BY <1>2 DEF IInv, Phases, Starting, Unwatched
<1>7. Kept'
  <2>1. dir \subseteq Files
    BY DEF IInv, TypeOK, DirTypeOK
  <2> QED
    BY <1>2, <1>3, <1>4, <2>1 DEF IInv, Kept, Placed, Listed
<1>8. NoConsistencyFailure' /\ Meaning'
  BY <1>2 DEF IInv, NoConsistencyFailure, Meaning
<1> QED
  BY <1>1, <1>3, <1>5, <1>6, <1>7, <1>8 DEF IInv

(* A marker that is skipped at startup is ahead of all that is to come. *)
LEMMA SkipFacts ==
  ASSUME IInv, NEW f \in Files, OptimizeSkip(f)
  PROVE  /\ files[f] = 1 /\ consumed[f] = 0 /\ f \in dir
         /\ \A g \in Files : Outstanding(g) /\ g # f => Score(f) < Score(g)
<1>1. /\ runner = "optimize" /\ ~sawIndex /\ IsMarker(f)
      /\ files[f] > 0 /\ \A g \in Files : files[g] > 0 => Score(f) <= Score(g)
  BY DEF OptimizeSkip, NextFile, IsLeast, Held
<1>2. \A g \in Files : queue[g] = 0
  BY <1>1, Counts DEF IInv, Phases, Held
<1>3. files[f] = 1 /\ consumed[f] = 0 /\ Placed(f) = 1 /\ f \in dir
  BY <1>1, Counts DEF IInv, Once, Directory, Placed
<1>4. ASSUME NEW g \in Files, Outstanding(g), g # f PROVE Score(f) < Score(g)
  <2>1. CASE files[g] > 0
    BY <1>1, <1>4, <2>1, FileOrder
  <2>2. CASE g \in Announced
    BY <1>1, <1>3, <2>2 DEF IInv, Order, Settled
  <2>3. CASE g \notin dir
    BY <1>1, <1>3, <1>4, <2>3, FileOrder DEF IInv, Directory
  <2> QED
    BY <1>2, <1>4, <2>1, <2>2, <2>3 DEF Outstanding
<1> QED
  BY <1>3, <1>4

LEMMA OptimizeSkipIInv ==
  ASSUME IInv, NEW f \in Files, OptimizeSkip(f)
  PROVE  IInv'
<1>1. TypeOK'
  BY RunnerType DEF IInv, InotifyRunner, RunnerWorks, Optimize, OptimizeSkip
<1>2. /\ runner = "optimize" /\ ~sawIndex /\ IsMarker(f)
      /\ files' = Without(files, f)
      /\ consumed' = With(consumed, f)
      /\ runState' = StateAfter(f)
      /\ runLastEoLS' = LastEoLSAfter(f, runLastEoLS)
      /\ fuLastEoLS' = runLastEoLS'
      /\ UNCHANGED <<dir, open, watched, events, dropped, starter, runner, sawIndex,
                     errorSet, queue, fuState, lastPopped, failed>>
  BY DEF OptimizeSkip, RunStats, dirVars
<1>3. files[f] = 1 /\ consumed[f] = 0 /\ f \in dir
  BY SkipFacts
<1>4. lastPopped = NoFile /\ runLastEoLS = fuLastEoLS
  BY <1>2 DEF IInv, Phases
<1>5. ASSUME NEW g \in Files
      PROVE  /\ files[g] \in Nat /\ consumed[g] \in Nat /\ queue[g] = 0
             /\ files'[g] = IF g = f THEN files[g] - 1 ELSE files[g]
             /\ consumed'[g] = IF g = f THEN consumed[g] + 1 ELSE consumed[g]
  BY <1>2, Counts, BagCounts DEF IInv, Phases, Held, TypeOK
<1>6. Announced' = Announced /\ Events'
  BY <1>2 DEF Announced, Events, IInv
<1>7. \A g \in Files : Placed(g)' = Placed(g)
  BY <1>2, <1>5 DEF Placed
<1>8. Directory' /\ Once'
  BY <1>2, <1>6, <1>7 DEF IInv, Directory, Once
<1>9. Order'
  BY <1>2, <1>5, <1>6, <1>7 DEF IInv, Order
<1>10. Frontier'
  <2>1. ASSUME NEW g \in Files, Outstanding(g)' PROVE Outstanding(g) /\ g # f
    <3>1. f \notin Announced
      BY <1>2, <1>3, <1>5 DEF IInv, Once, Placed, Settled
    <3> QED
      BY <1>2, <1>5, <1>6, <1>3, <2>1, <3>1 DEF Outstanding
  <2> QED
    BY <1>5, <2>1, SkipFacts DEF IInv, Frontier
<1>11. Phases'
  BY <1>2, <1>4, <1>5 DEF IInv, Phases, Starting, Unwatched, Held
<1>12. Meaning'
  <2>1. \/ fuLastEoLS' = 0
        \/ \E m \in Files : IsEoLS(m) /\ consumed'[m] > 0 /\ m.lumiSection = fuLastEoLS'
    <3>1. CASE IsEoLS(f)
      BY <1>2, <1>5, <1>3, <3>1 DEF LastEoLSAfter
    <3>2. CASE ~IsEoLS(f)
      BY <1>2, <1>4, <1>5, <3>2 DEF LastEoLSAfter, IInv, Meaning
    <3> QED
      BY <3>1, <3>2
  <2>2. runState' = "EOR" => \E r \in Files : IsEoR(r) /\ consumed'[r] > 0
    BY <1>2, <1>5, <1>3 DEF StateAfter
  <2>3. fuState' = "EOR" => \E r \in Files : IsEoR(r) /\ consumed'[r] > 0
    BY <1>2, <1>5 DEF IInv, Meaning
  <2> QED
    BY <1>2, <1>4, <2>1, <2>2, <2>3 DEF Meaning
<1>13. Kept'
  <2>1. dir \subseteq Files
    BY DEF IInv, TypeOK, DirTypeOK
  <2> QED
    BY <1>2, <1>6, <1>7, <2>1 DEF IInv, Kept, Listed
<1>14. NoConsistencyFailure'
  BY <1>2 DEF IInv, NoConsistencyFailure
<1> QED
  BY <1>1, <1>6, <1>8, <1>9, <1>10, <1>11, <1>12, <1>13, <1>14 DEF IInv

LEMMA OptimizePushIInv ==
  ASSUME IInv, NEW f \in Files, OptimizePush(f)
  PROVE  IInv'
<1>1. TypeOK'
  BY RunnerType DEF IInv, InotifyRunner, RunnerWorks, Optimize, OptimizePush
<1>2. /\ runner = "optimize" /\ sawIndex'
      /\ files' = Without(files, f)
      /\ queue' = With(queue, f)
      /\ runState' = StateAfter(f)
      /\ UNCHANGED <<dir, open, watched, events, dropped, starter, runner,
                     errorSet, fuState, fuLastEoLS, lastPopped, failed, consumed>>
  BY DEF OptimizePush, RunStats, Push, dirVars, fuVars
<1>3. files[f] > 0 /\ \A g \in Files : files[g] > 0 => Score(f) <= Score(g)
  BY DEF OptimizePush, NextFile, IsLeast, Held
<1>4. ASSUME NEW g \in Files
      PROVE  /\ files[g] \in Nat /\ queue[g] \in Nat /\ consumed[g] \in Nat
             /\ files'[g] = IF g = f THEN files[g] - 1 ELSE files[g]
             /\ queue'[g] = IF g = f THEN queue[g] + 1 ELSE queue[g]
  BY <1>2, Counts, BagCounts DEF IInv, TypeOK
<1>5. Announced' = Announced /\ Events'
  <2>1. Announced' = Announced
    BY <1>2 DEF Announced
  <2>2. Events
    BY DEF IInv
  <2> QED
    BY <1>2, <2>1, <2>2 DEF Events
<1>6. \A g \in Files : Placed(g)' = Placed(g)
  BY <1>2, <1>4 DEF Placed
<1>7. files[f] = 1 /\ queue[f] = 0 /\ consumed[f] = 0
  BY <1>3, <1>4 DEF IInv, Once, Placed
<1>8. Directory' /\ Once'
  BY <1>2, <1>5, <1>6 DEF IInv, Directory, Once
<1>9. Order'
  <2>1. ASSUME NEW h \in Files, NEW g \in Files, queue'[h] > 0, files'[g] > 0
        PROVE  Score(h) < Score(g)
    <3>1. g # f /\ files[g] > 0
      BY <1>4, <1>7, <2>1
    <3>2. CASE h = f
      BY <1>3, <3>1, <3>2, FileOrder
    <3>3. CASE h # f
      BY <1>2, <1>4, <2>1, <3>1, <3>3 DEF IInv, Order
    <3> QED
      BY <3>2, <3>3
  <2> QED
    BY <1>2, <1>5, <1>6, <2>1 DEF IInv, Order
<1>10. Frontier'
  BY <1>2, <1>3, <1>4, <1>5 DEF IInv, Frontier, Outstanding
<1>11. Phases'
  BY <1>2, <1>4 DEF IInv, Phases, Starting, Unwatched, Held
<1>12. Meaning'
  BY <1>2, <1>4, <1>7 DEF IInv, Meaning, StateAfter
<1>13. Kept'
  <2>1. dir \subseteq Files
    BY DEF IInv, TypeOK, DirTypeOK
  <2> QED
    BY <1>2, <1>5, <1>6, <2>1 DEF IInv, Kept, Listed
<1>14. NoConsistencyFailure'
  BY <1>2 DEF IInv, NoConsistencyFailure
<1> QED
  BY <1>1, <1>5, <1>8, <1>9, <1>10, <1>11, <1>12, <1>13, <1>14 DEF IInv

LEMMA ProcessEventIInv ==
  ASSUME IInv, ProcessEvent
  PROVE  IInv'
<1> DEFINE e == Head(events)
<1>1. TypeOK'
  BY RunnerType DEF IInv, InotifyRunner, RunnerWorks, Optimize
<1>2. /\ runner = "batch"
      /\ queue' = With(queue, e)
      /\ runState' = StateAfter(e)
      /\ UNCHANGED <<dir, open, watched, dropped, starter, runner, files, sawIndex,
                     errorSet, fuState, fuLastEoLS, lastPopped, failed, consumed>>
  BY DEF ProcessEvent, RunStats, Push, NextEvent, fuVars
<1>3. /\ e \in Files
      /\ Announced = Announced' \cup {e}
      /\ e \notin Announced'
      /\ IsMarker(e) => \A g \in Announced' : Score(e) < Score(g)
      /\ Events'
  <2>1. events # <<>> /\ NextEvent
    BY DEF ProcessEvent, IInv, TypeOK, DirTypeOK
  <2> QED
    BY <2>1, TailFacts DEF IInv
<1> HIDE DEF e
<1>4. ASSUME NEW f \in Files
      PROVE  /\ files[f] = 0 /\ queue[f] \in Nat /\ consumed[f] \in Nat
             /\ queue'[f] = IF f = e THEN queue[f] + 1 ELSE queue[f]
  BY <1>2, <1>3, Counts, BagCounts DEF IInv, Phases, Held, TypeOK
<1>5. queue[e] = 0 /\ consumed[e] = 0
  BY <1>2, <1>3, <1>4 DEF IInv, Once, Placed, Settled
<1>6. ASSUME NEW f \in Files
      PROVE  Placed(f)' = IF f = e THEN 1 ELSE Placed(f)
  BY <1>2, <1>3, <1>4, <1>5 DEF Placed
<1>7. Directory' /\ Once' /\ Order'
  BY <1>2, <1>3, <1>6 DEF IInv, Directory, Once, Order, Settled
<1>8. Frontier'
  BY <1>2, <1>3, <1>4 DEF IInv, Frontier, Outstanding
<1>9. Phases'
  BY <1>2 DEF IInv, Phases, Starting, Unwatched
<1>10. Meaning'
  BY <1>2, <1>3, <1>4, <1>5 DEF IInv, Meaning, StateAfter
<1>11. Kept'
  <2>1. dir \subseteq Files
    BY DEF IInv, TypeOK, DirTypeOK
  <2> QED
    BY <1>2, <1>3, <1>6, <2>1 DEF IInv, Kept, Listed
<1>12. NoConsistencyFailure'
  BY <1>2 DEF IInv, NoConsistencyFailure
<1> QED
  BY <1>1, <1>3, <1>7, <1>8, <1>9, <1>10, <1>11, <1>12 DEF IInv

LEMMA EndBatchIInv ==
  ASSUME IInv, EndBatch
  PROVE  IInv'
<1> USE DEF dirVars, fuVars
<1>1. TypeOK'
  BY RunnerType DEF IInv, InotifyRunner, RunnerWorks, Optimize
<1>2. CASE ~EndSeen
  BY <1>1, <1>2 DEF EndBatch, IInv, NoConsistencyFailure, Phases, Directory, Events,
     Once, Order, Frontier, Meaning, Kept, Placed, Outstanding, Listed, Announced,
     Held, Starting, Unwatched, Settled
<1>3. CASE EndSeen
  <2>1. /\ runner = "batch" /\ runner' = "stopped" /\ ~watched' /\ events' = <<>>
        /\ UNCHANGED <<dir, open, dropped, starter, runState, runLastEoLS, files,
                       sawIndex, errorSet, queue, fuState, fuLastEoLS, lastPopped,
                       failed, consumed>>
    BY <1>3 DEF EndBatch, CloseWatch
  <2>2. PICK r \in Files : IsEoR(r) /\ (queue[r] > 0 \/ consumed[r] > 0)
    BY <1>3 DEF EndSeen, IInv, Meaning
  <2>3. Placed(r) > 0 /\ r \in dir
    BY <2>2, Counts DEF IInv, Directory, Placed
  <2>4. Announced = {}
    <3> SUFFICES ASSUME NEW g \in Announced PROVE FALSE
      OBVIOUS
    <3>1. g \in Files
      BY DEF IInv, TypeOK, DirTypeOK, Directory
    <3>2. Score(r) < Score(g)
      BY <2>1, <2>2, <2>3 DEF IInv, Order, IsMarker, Settled
    <3> QED
      BY <2>2, <3>1, <3>2, FileOrder
  <2>5. Announced' = {} /\ Len(events') = 0
    BY <2>1, NoEvents DEF Announced
  <2>6. Events'
    BY <2>5 DEF Events
  <2>7. Directory' /\ Once' /\ Order' /\ Frontier'
    BY <2>1, <2>5 DEF IInv, Directory, Once, Order, Frontier, Placed, Outstanding
  <2>8. Phases'
    BY <2>1, <2>2, <2>3 DEF IInv, Phases, Starting, Unwatched, Held
  <2>9. Kept'
    BY <2>1, <2>4, <2>5 DEF IInv, Kept, Listed, Placed
  <2>10. NoConsistencyFailure' /\ Meaning'
    BY <2>1 DEF IInv, NoConsistencyFailure, Meaning
  <2> QED
    BY <1>1, <2>6, <2>7, <2>8, <2>9, <2>10 DEF IInv
<1> QED
  BY <1>2, <1>3

-----------------------------------------------------------------------------
(***************************************************************************)
(* Under the steps of popRunFile                                           *)
(***************************************************************************)

(* What the first file of the queue is to an FU. *)
LEMMA TopFacts ==
  ASSUME IInv, NEW f \in Files, Top(f)
  PROVE  /\ queue[f] = 1 /\ consumed[f] = 0 /\ f \in dir
         /\ ~IsLate(f)
         /\ ~OrderBroken(f)
         /\ \A g \in Files : Outstanding(g) /\ g # f /\ IsMarker(f) => Score(f) < Score(g)
<1>1. queue[f] > 0 /\ \A g \in Files : queue[g] > 0 => Score(f) <= Score(g)
  BY DEF Top, IsLeast, Held
<1>2. queue[f] = 1 /\ consumed[f] = 0 /\ f \in dir /\ Outstanding(f)
  BY <1>1, Counts DEF IInv, Once, Directory, Placed, Outstanding
<1>3. runner \in Settled
  BY <1>1 DEF IInv, TypeOK, Phases, Held, Starting, Settled
<1>4. f.lumiSection \in Nat /\ fuLastEoLS \in Nat /\ (~IsEoR(f) => f.lumiSection >= 1)
  BY FileFields, WidthAssumption DEF IInv, TypeOK
<1>5. ~IsLate(f)
  <2> SUFFICES ASSUME ~IsEoR(f), f.lumiSection <= fuLastEoLS PROVE FALSE
    BY DEF IsLate
  <2>1. PICK m \in Files : IsEoLS(m) /\ consumed[m] > 0 /\ m.lumiSection = fuLastEoLS
    BY <1>4 DEF IInv, Meaning
  <2>2. Score(m) < Score(f)
    BY <1>2, <2>1 DEF IInv, Frontier, IsMarker
  <2>3. m # f
    BY <1>2, <2>1
  <2> QED
    BY <2>1, <2>2, <2>3, FileOrder
<1>6. ~OrderBroken(f)
  <2> SUFFICES ASSUME lastPopped # NoFile, lastPopped.lumiSection > f.lumiSection, ~IsEoR(f)
               PROVE FALSE
    BY DEF OrderBroken
  <2>1. lastPopped \in Files /\ consumed[lastPopped] > 0
    BY DEF IInv, Meaning
  <2>2. CASE IsEoR(lastPopped)
    <3>1. Score(lastPopped) < Score(f)
      BY <1>2, <2>1, <2>2 DEF IInv, Frontier, IsMarker
    <3> QED
      BY <2>1, <2>2, <3>1, FileOrder
  <2>3. CASE ~IsEoR(lastPopped)
    <3>1. lastPopped.lumiSection <= fuLastEoLS + 1
      BY <2>3 DEF IInv, Meaning
    <3>2. lastPopped.lumiSection \in Int
      BY <2>1, FileFields
    <3> QED
      BY <1>4, <1>5, <3>1, <3>2 DEF IsLate
  <2> QED
    BY <2>2, <2>3
<1>7. ASSUME NEW g \in Files, Outstanding(g), g # f, IsMarker(f)
      PROVE  Score(f) < Score(g)
  <2>1. CASE files[g] > 0
    <3>1. runner = "optimize"
      BY <1>3, <2>1 DEF IInv, Phases, Held, Settled
    <3> QED
      BY <1>1, <2>1, <3>1 DEF IInv, Order
  <2>2. CASE queue[g] > 0
    BY <1>1, <1>7, <2>2, FileOrder
  <2>3. CASE g \in Announced
    <3>1. Placed(f) > 0
      BY <1>2, Counts DEF Placed, IInv
    <3> QED
      BY <1>3, <1>7, <2>3, <3>1 DEF IInv, Order
  <2>4. CASE g \notin dir
    BY <1>2, <1>7, <2>4, FileOrder DEF IInv, Directory
  <2> QED
    BY <1>7, <2>1, <2>2, <2>3, <2>4 DEF Outstanding
<1> QED
  BY <1>2, <1>5, <1>6, <1>7

(* At most one file sorts last of all: nothing queues behind EoR. *)
LEMMA NothingBehindEoR ==
  ASSUME IInv, NEW f \in Files, Top(f), IsEoR(f)
  PROVE  Held(Without(queue, f)) = {}
<1> SUFFICES ASSUME NEW g \in Held(Without(queue, f)) PROVE FALSE
  OBVIOUS
<1>1. g \in Files /\ Without(queue, f)[g] > 0
  BY DEF Held
<1>2. g # f /\ queue[g] > 0
  BY <1>1, TopFacts, BagCounts DEF IInv, TypeOK
<1>3. Score(f) <= Score(g)
  BY <1>1, <1>2 DEF Top, IsLeast, Held
<1> QED
  BY <1>1, <1>2, <1>3, FileOrder

(* popRunFile takes the first file of the queue.                           *)
LEMMA TakeIInv ==
  ASSUME IInv, TypeOK', NEW f \in Files, Takes(f), FUStats(f),
         UNCHANGED <<dirVars, starter, runnerVars, failed>>,
         runner = "setRunState" => FALSE
  PROVE  IInv'
<1> USE DEF dirVars, runnerVars
<1>1. /\ Top(f) /\ ~MustWait(f)
      /\ queue' = Without(queue, f)
      /\ consumed' = With(consumed, f)
      /\ fuState' = StateAfter(f)
      /\ fuLastEoLS' = LastEoLSAfter(f, fuLastEoLS)
      /\ lastPopped' = f
  BY DEF Takes, FUStats
<1>2. /\ queue[f] = 1 /\ consumed[f] = 0 /\ f \in dir /\ ~IsLate(f)
      /\ \A g \in Files : Outstanding(g) /\ g # f /\ IsMarker(f) => Score(f) < Score(g)
  BY <1>1, TopFacts
<1>3. ASSUME NEW g \in Files
      PROVE  /\ files[g] \in Nat /\ queue[g] \in Nat /\ consumed[g] \in Nat
             /\ queue'[g] = IF g = f THEN queue[g] - 1 ELSE queue[g]
             /\ consumed'[g] = IF g = f THEN consumed[g] + 1 ELSE consumed[g]
  BY <1>1, Counts, BagCounts DEF IInv, TypeOK
<1>4. Announced' = Announced /\ Events'
  <2>1. Announced' = Announced
    BY DEF Announced
  <2>2. Events
    BY DEF IInv
  <2> QED
    BY <2>1, <2>2 DEF Events
<1>5. \A g \in Files : Placed(g)' = Placed(g)
  BY <1>3 DEF Placed
<1>6. Placed(f) = 1 /\ files[f] = 0 /\ runner \in Settled
  <2>1. Placed(f) = 1 /\ files[f] = 0
    BY <1>2, <1>3 DEF IInv, Once, Placed
  <2>2. runner \in Settled
    BY <1>2, <1>3 DEF IInv, TypeOK, Phases, Held, Starting, Settled
  <2> QED
    BY <2>1, <2>2
<1>7. Directory' /\ Once'
  BY <1>4, <1>5 DEF IInv, Directory, Once
<1>8. Order'
  BY <1>3, <1>4, <1>5 DEF IInv, Order
<1>9. Frontier'
  <2>1. ASSUME NEW g \in Files, Outstanding(g)' PROVE Outstanding(g) /\ g # f
    <3>1. f \notin Announced
      BY <1>6 DEF IInv, Once
    <3> QED
      BY <1>2, <1>3, <1>4, <1>6, <2>1, <3>1 DEF Outstanding
  <2> QED
    BY <1>2, <1>3, <2>1 DEF IInv, Frontier
<1>10. Phases'
  BY <1>2, <1>3, <1>6 DEF IInv, Phases, Starting, Unwatched, Held, Settled
<1>11. Meaning'
  <2>1. \/ fuLastEoLS' = 0
        \/ \E m \in Files : IsEoLS(m) /\ consumed'[m] > 0 /\ m.lumiSection = fuLastEoLS'
    <3>1. CASE IsEoLS(f)
      BY <1>1, <1>2, <1>3, <3>1 DEF LastEoLSAfter
    <3>2. CASE ~IsEoLS(f)
      BY <1>1, <1>3, <3>2 DEF LastEoLSAfter, IInv, Meaning
    <3> QED
      BY <3>1, <3>2
  <2>2. consumed'[f] > 0 /\ (~IsEoR(f) => f.lumiSection <= fuLastEoLS' + 1)
    <3>1. f.lumiSection \in Int /\ fuLastEoLS \in Int
      BY FileFields, WidthAssumption DEF IInv, TypeOK
    <3> QED
      BY <1>1, <1>2, <1>3, <3>1 DEF MustWait, LastEoLSAfter
  <2>3. fuState' = "EOR" => IsEoR(f)
    BY <1>1 DEF StateAfter
  <2>4. ASSUME runState' = "EOR"
        PROVE  \E r \in Files : IsEoR(r) /\ (queue'[r] > 0 \/ consumed'[r] > 0)
    BY <1>2, <1>3, <2>4 DEF IInv, Meaning
  <2> QED
    BY <1>1, <2>1, <2>2, <2>3, <2>4 DEF Meaning
<1>12. Kept'
  <2>1. dir \subseteq Files
    BY DEF IInv, TypeOK, DirTypeOK
  <2> QED
    BY <1>4, <1>5, <2>1 DEF IInv, Kept, Listed
<1>13. NoConsistencyFailure'
  BY DEF IInv, NoConsistencyFailure
<1> QED
  BY <1>4, <1>7, <1>8, <1>9, <1>10, <1>11, <1>12, <1>13 DEF IInv

LEMMA PopIInv ==
  ASSUME IInv, PopRunFile
  PROVE  IInv'
<1>1. TypeOK'
  BY PopType DEF IInv
<1>2. ASSUME NEW stop \in StopRequests, PopStops(stop) \/ PopBegin(stop)
      PROVE  IInv'
  BY <1>1, <1>2
  DEF PopStops, PopBegin, dirVars, runnerVars, fuVars, IInv, NoConsistencyFailure,
      Phases, Directory, Events, Once, Order, Frontier, Meaning, Kept, Placed,
      Outstanding, Listed, Announced, Held
<1>3. CASE PopFindsNothing
  BY <1>1, <1>3
  DEF PopFindsNothing, dirVars, runnerVars, fuVars, IInv, NoConsistencyFailure,
      Phases, Directory, Events, Once, Order, Frontier, Meaning, Kept, Placed,
      Outstanding, Listed, Announced, Held
<1>4. ASSUME NEW f \in Files, PopFails(f) PROVE FALSE
  BY <1>4, TopFacts, NothingBehindEoR DEF PopFails, CheckFails
<1>5. ASSUME NEW f \in Files, PopMarker(f) \/ PopIndex(f) PROVE IInv'
  <2>1. /\ Takes(f) /\ FUStats(f)
        /\ UNCHANGED <<dirVars, starter, runnerVars, failed>>
    BY <1>5 DEF PopMarker, PopIndex
  <2>2. runner # "setRunState"
    BY <2>1 DEF Takes, Top, IsLeast, IInv, Phases
  <2> QED
    BY <1>1, <2>1, <2>2, TakeIInv
<1> QED
  BY <1>2, <1>3, <1>4, <1>5 DEF PopRunFile, PopStep, PopTop

-----------------------------------------------------------------------------
(***************************************************************************)
(* The invariant, and what follows from it                                 *)
(***************************************************************************)

LEMMA RunnerIInv ==
  ASSUME IInv, InotifyRunner
  PROVE  IInv'
<1>1. CASE RunnerOnly
  BY <1>1, RunnerOnlyIInv
<1> QED
  BY <1>1, ListIInv, DrainEventIInv, OptimizeSkipIInv, OptimizePushIInv,
     ProcessEventIInv, EndBatchIInv DEF InotifyRunner, RunnerWorks, Optimize, RunnerOnly

LEMMA NextIInv == InPlace = {} /\ Early = {} /\ IInv /\ [Next]_vars => IInv'
BY StutterIInv, BUIInv, StarterIInv, RunnerIInv, PopIInv DEF Next

(* IInv is an invariant of every run whose files are moved into the        *)
(* directory.                                                              *)
THEOREM InvariantHolds ==
  ASSUME InPlace = {}, Early = {}
  PROVE  Spec => []IInv
<1>1. Init => IInv
  BY InitIInv
<1>2. IInv /\ [Next]_vars => IInv'
  BY NextIInv
<1> QED
  BY <1>1, <1>2, PTL DEF Spec

(* No assertion or consistency exception of popRunFile ever fires: however *)
(* the BU, the runner and the FUs interleave, the broker does not abort.   *)
THEOREM ChecksNeverFail ==
  ASSUME InPlace = {}, Early = {}
  PROVE  Spec => []NoConsistencyFailure
<1>1. IInv => NoConsistencyFailure
  BY DEF IInv
<1> QED
  BY <1>1, InvariantHolds, PTL

(* No file is popped or skipped twice, although the listing and inotify    *)
(* may both report it.                                                     *)
THEOREM FilesHandedOutOnce ==
  ASSUME InPlace = {}, Early = {}
  PROVE  Spec => []HandedOutOnce
<1>1. IInv => HandedOutOnce
  <2> SUFFICES ASSUME IInv, NEW f \in Files PROVE consumed[f] <= 1
    BY DEF HandedOutOnce
  <2> QED
    BY Counts DEF IInv, Once, Placed
<1> QED
  BY <1>1, InvariantHolds, PTL

(* A file of a closed lumisection has been consumed.                       *)
LEMMA CompleteLS ==
  ASSUME IInv, NEW f \in Files \ dropped, ~IsEoR(f), f.lumiSection <= fuLastEoLS
  PROVE  consumed[f] >= 1
<1>1. f.lumiSection \in Nat /\ f.lumiSection >= 1 /\ fuLastEoLS \in Nat
  BY FileFields, WidthAssumption DEF IInv, TypeOK
<1>2. PICK m \in Files : IsEoLS(m) /\ consumed[m] > 0 /\ m.lumiSection = fuLastEoLS
  BY <1>1 DEF IInv, Meaning
<1>3. CASE f = m
  BY <1>2, <1>3, Counts DEF IInv
<1>4. CASE f # m
  <2>1. ~(Score(m) < Score(f))
    BY <1>2, <1>4, FileOrder
  <2>2. ~Outstanding(f)
    BY <1>2, <2>1 DEF IInv, Frontier, IsMarker
  <2>3. Listed
    BY <1>1, <1>2, Counts DEF IInv, TypeOK, Phases, Held, Starting, Listed
  <2> QED
    BY <2>2, <2>3, Counts DEF Outstanding, IInv, Kept, Placed
<1> QED
  BY <1>3, <1>4

(* When a reply says lasteols=n, every file of lumisections up to n has    *)
(* been consumed, those whose event the kernel dropped excepted.           *)
THEOREM LumisectionsComplete ==
  ASSUME InPlace = {}, Early = {}
  PROVE  Spec => []EoLSMeansComplete
<1>1. IInv => EoLSMeansComplete
  BY CompleteLS DEF EoLSMeansComplete
<1> QED
  BY <1>1, InvariantHolds, PTL

(* A file of a finished run has been consumed.                             *)
LEMMA CompleteRun ==
  ASSUME IInv, fuState = "EOR", NEW f \in Files \ dropped
  PROVE  consumed[f] >= 1
<1>1. PICK r \in Files : IsEoR(r) /\ consumed[r] > 0
  BY DEF IInv, Meaning
<1>2. CASE f = r
  BY <1>1, <1>2, Counts DEF IInv
<1>3. CASE f # r
  <2>1. ~(Score(r) < Score(f))
    BY <1>1, <1>3, FileOrder
  <2>2. ~Outstanding(f)
    BY <1>1, <2>1 DEF IInv, Frontier, IsMarker
  <2>3. Listed
    BY <1>1, Counts DEF IInv, TypeOK, Phases, Held, Starting, Listed
  <2> QED
    BY <2>2, <2>3, Counts DEF Outstanding, IInv, Kept, Placed
<1> QED
  BY <1>2, <1>3

(* When the state is EOR, every file of the run has been consumed, those   *)
(* whose event the kernel dropped excepted.                                *)
THEOREM RunComplete ==
  ASSUME InPlace = {}, Early = {}
  PROVE  Spec => []EoRMeansDrained
<1>1. IInv => EoRMeansDrained
  BY CompleteRun DEF EoRMeansDrained
<1> QED
  BY <1>1, InvariantHolds, PTL

-----------------------------------------------------------------------------
(***************************************************************************)
(* The refinement of FileFlow                                              *)
(***************************************************************************)

(* The hypotheses on the run and on the kernel. *)
RoomForAll == IsFiniteSet(Files) /\ Cardinality(Files) <= EventLimit

(* Nothing is dropped. *)
NoDrop == dropped = {}

LEMMA Interval ==
  ASSUME NEW n \in Nat
  PROVE  IsFiniteSet(1 .. n) /\ Cardinality(1 .. n) = n
BY FS_Interval

LEMMA FiniteSubset ==
  ASSUME NEW S, IsFiniteSet(S), NEW T \in SUBSET S
  PROVE  /\ IsFiniteSet(T) /\ Cardinality(T) \in Nat
         /\ T # {} => Cardinality(T) > 0
<1>1. IsFiniteSet(T)
  BY FS_Subset
<1>2. Cardinality(T) \in Nat
  BY <1>1, FS_CardinalityType
<1>3. Cardinality(T) = 0 <=> T = {}
  BY <1>1, FS_EmptySet
<1> QED
  BY <1>1, <1>2, <1>3

(* Distinct events are at most as many as the files they can name.         *)
LEMMA EventsFit ==
  ASSUME IInv, RoomForAll, NEW f \in Files \ dir
  PROVE  Len(events) < EventLimit
<1> DEFINE n == Len(events)
<1>1. events \in Seq(Files) /\ n \in Nat /\ EventLimit \in Nat
  BY FilesAssumption DEF IInv, TypeOK, DirTypeOK
<1>2. events \in Injection(1 .. n, Files \ {f})
  <2>1. \A i \in 1 .. n : events[i] \in Files \ {f}
    BY <1>1 DEF IInv, Directory, Announced
  <2>2. \A i, j \in 1 .. n : events[i] = events[j] => i = j
    <3> SUFFICES ASSUME NEW i \in 1 .. n, NEW j \in 1 .. n, events[i] = events[j], i # j
                 PROVE  FALSE
      OBVIOUS
    <3>1. i < j \/ j < i
      OBVIOUS
    <3> QED
      BY <3>1 DEF IInv, Events
  <2>3. events = [i \in 1 .. n |-> events[i]]
    BY <1>1
  <2> QED
    <3>1. events \in [1 .. n -> Files \ {f}]
      BY <2>1, <2>3
    <3>2. IsInjective(events)
      BY <2>2, <3>1 DEF IsInjective
    <3> QED
      BY <3>1, <3>2 DEF Injection
<1>3. IsFiniteSet(Files \ {f}) /\ Cardinality(Files \ {f}) = Cardinality(Files) - 1
  BY FS_RemoveElement DEF RoomForAll
<1>4. Cardinality(1 .. n) <= Cardinality(Files \ {f})
  <2> DEFINE T == Files \ {f}
             I == 1 .. n
  <2>1. events \in Injection(I, T) /\ IsFiniteSet(T)
    BY <1>2, <1>3
  <2> HIDE DEF I, T, n
  <2>2. Cardinality(I) <= Cardinality(T)
    BY <2>1, FS_Injection
  <2> QED
    BY <2>2 DEF I, T
<1>5. Cardinality(1 .. n) = n
  BY <1>1, Interval
<1>6. Cardinality(Files) \in Nat
  BY FS_CardinalityType DEF RoomForAll
<1> QED
  BY <1>1, <1>3, <1>4, <1>5, <1>6 DEF RoomForAll

LEMMA NextNoDrop ==
  ASSUME InPlace = {}, Early = {}, RoomForAll, IInv, NoDrop, [Next]_vars
  PROVE  NoDrop'
<1>1. ASSUME NEW f \in Files, BUMovesIn(f) PROVE NoDrop'
  <2>1. Len(events) < EventLimit /\ batch \in 0 .. Len(events)
    BY <1>1, EventsFit DEF BUMovesIn, Writable, IInv, TypeOK, DirTypeOK
  <2>2. ~(Len(events) - batch >= EventLimit)
    BY <2>1, FilesAssumption DEF IInv, TypeOK, DirTypeOK
  <2> QED
    BY <1>1, <2>2 DEF BUMovesIn, Notify, NoDrop
<1>2. ASSUME NEW f \in Files, BUCreates(f) \/ BUCloses(f) PROVE FALSE
  BY <1>2 DEF BUCreates, BUCloses, IInv, Phases
<1>3. CASE BUMakesDirectory
  BY <1>3 DEF BUMakesDirectory, NoDrop
<1>4. CASE Starter \/ PopRunFile \/ UNCHANGED vars
  BY <1>4
  DEF Starter, StartThread, StartSetsRunState, StartSetsFUState, PopRunFile, PopStep, PopTop,
      PopStops, PopBegin, PopFindsNothing, PopFails, PopMarker, PopIndex,
      vars, dirVars, NoDrop
<1>5. CASE InotifyRunner
  BY <1>5
  DEF InotifyRunner, RunnerWorks, Optimize, RunnerThrows, AddWatch, InstallWatch, AddWatchFails,
      FailFUState, SetErrorMessage, ListBegin, ListEnd, DrainRead, DrainEvent, DrainDone, Read,
      NextEvent, OptimizeSkip, OptimizePush, OptimizeDone, CheckQueue, SetFUState,
      ReadEvents, ProcessEvent, EndBatch, CloseWatch, dirVars, NoDrop
<1> QED
  BY <1>1, <1>2, <1>3, <1>4, <1>5 DEF Next, BU, BUNext

-----------------------------------------------------------------------------
(***************************************************************************)
(* Steps that consume a file                                               *)
(***************************************************************************)

(* A file neither outstanding nor dropped has been consumed. *)
LEMMA NotOutstanding ==
  ASSUME IInv, NoDrop, runner \in Settled, ~errorSet,
         NEW g \in Files, ~Outstanding(g)
  PROVE  g \in Held(consumed)
BY Counts DEF Outstanding, NoDrop, IInv, Kept, Placed, Held, Listed, Settled

LEMMA HeldWith ==
  ASSUME NEW b, IsBag(b), NEW f \in Files
  PROVE  Held(With(b, f)) = Held(b) \cup {f}
BY BagCounts DEF Held, IsBag

LEMMA SkipConsumes ==
  ASSUME IInv, NoDrop, NEW f \in Files, OptimizeSkip(f)
  PROVE  Flow!Consume(f)
<1>1. /\ runner = "optimize" /\ runner \in Settled /\ ~errorSet /\ IsMarker(f)
      /\ runLastEoLS = fuLastEoLS
      /\ consumed' = With(consumed, f)
      /\ fuLastEoLS' = LastEoLSAfter(f, runLastEoLS)
      /\ UNCHANGED <<dir, open>>
  BY DEF OptimizeSkip, RunStats, dirVars, IInv, Phases, Settled
<1>2. /\ f \in dir \ open /\ consumed[f] = 0
      /\ \A g \in Files : Outstanding(g) /\ g # f => Score(f) < Score(g)
  BY SkipFacts DEF IInv, Phases
<1>3. ASSUME NEW g \in Files, Before(g, f) PROVE g \in Held(consumed)
  <2>1. Score(g) < Score(f) /\ Score(g) \in Int /\ Score(f) \in Int
    BY <1>3, FileOrder
  <2>2. ~Outstanding(g)
    BY <1>2, <2>1
  <2> QED
    BY <1>1, <2>2, NotOutstanding
<1>4. Held(consumed)' = Held(consumed) \cup {f}
  BY <1>1, HeldWith DEF IInv, TypeOK, Held
<1> QED
  BY <1>1, <1>2, <1>3, <1>4
  DEF Flow!Consume, Flow!Predecessors, Flow!Before, Flow!IsMarker, Flow!IsEoLS,
      Flow!IsEoR, Before, IsMarker, IsEoLS, IsEoR, LastEoLSAfter, Held

LEMMA TakeConsumes ==
  ASSUME IInv, NoDrop, NEW f \in Files, Takes(f), FUStats(f), UNCHANGED dirVars
  PROVE  Flow!Consume(f)
<1>1. /\ Top(f) /\ ~MustWait(f)
      /\ consumed' = With(consumed, f)
      /\ fuLastEoLS' = LastEoLSAfter(f, fuLastEoLS)
      /\ UNCHANGED <<dir, open>>
  BY DEF Takes, FUStats, dirVars
<1>2. /\ f \in dir \ open /\ queue[f] = 1 /\ consumed[f] = 0
      /\ \A g \in Files : Outstanding(g) /\ g # f /\ IsMarker(f) => Score(f) < Score(g)
  BY <1>1, TopFacts DEF IInv, Phases
<1>3. runner \in Settled /\ ~errorSet
  BY <1>2 DEF IInv, TypeOK, Phases, Held, Starting, Settled
<1>4. ASSUME NEW g \in Files, Before(g, f), IsMarker(f) PROVE g \in Held(consumed)
  <2>1. Score(g) < Score(f) /\ Score(g) \in Int /\ Score(f) \in Int
    BY <1>4, FileOrder
  <2>2. ~Outstanding(g)
    BY <1>2, <1>4, <2>1
  <2> QED
    BY <1>3, <2>2, NotOutstanding
<1>5. ASSUME NEW g \in Files, Before(g, f), IsMarker(g), ~IsMarker(f)
      PROVE  g \in Held(consumed)
  <2>1. ~IsEoR(g) /\ ~IsEoR(f) /\ ~IsEoLS(f) /\ IsEoLS(g)
    BY <1>5 DEF Before, IsMarker
  <2>2. g.lumiSection < f.lumiSection
    BY <1>5, <2>1 DEF Before
  <2>3. g.lumiSection <= fuLastEoLS
    BY <1>1, <2>1, <2>2, FileFields, WidthAssumption DEF MustWait, IInv, TypeOK
  <2>4. consumed[g] >= 1
    BY <2>1, <2>3, CompleteLS DEF NoDrop
  <2> QED
    BY <2>4, Counts DEF Held, IInv
<1>6. Held(consumed)' = Held(consumed) \cup {f}
  BY <1>1, HeldWith DEF IInv, TypeOK, Held
<1> QED
  BY <1>1, <1>2, <1>4, <1>5, <1>6
  DEF Flow!Consume, Flow!Predecessors, Flow!Before, Flow!IsMarker, Flow!IsEoLS,
      Flow!IsEoR, Before, IsMarker, IsEoLS, IsEoR, LastEoLSAfter, Held

-----------------------------------------------------------------------------
(***************************************************************************)
(* Every step is a step of the flow, or none                               *)
(***************************************************************************)

LEMMA FlowInit == Init => Flow!Init
BY DEF Init, DirInit, Flow!Init, NoFiles, Held

LEMMA FlowStep ==
  ASSUME InPlace = {}, Early = {}, IInv, NoDrop, [Next]_vars
  PROVE  [Flow!Next]_(Flow!flowVars)
<1>1. ASSUME NEW f \in Files, BUMovesIn(f), UNCHANGED <<consumed, fuLastEoLS>>
      PROVE  Flow!Publish(f)
  BY <1>1 DEF BUMovesIn, Writable, Flow!Publish, IInv, Phases, Held
<1>2. ASSUME NEW f \in Files, BUCreates(f) \/ BUCloses(f) PROVE FALSE
  BY <1>2 DEF BUCreates, BUCloses, IInv, Phases
<1>3. CASE BU
  BY <1>1, <1>2, <1>3
  DEF BU, BUNext, BUMakesDirectory, fuVars, Flow!Next, Flow!flowVars, Held
<1>4. ASSUME NEW f \in Files, OptimizeSkip(f) PROVE Flow!Next
  BY <1>4, SkipConsumes DEF Flow!Next
<1>5. ASSUME NEW f \in Files, PopMarker(f) \/ PopIndex(f) PROVE Flow!Next
  BY <1>5, TakeConsumes DEF PopMarker, PopIndex, Flow!Next
<1>6. CASE Starter \/ UNCHANGED vars
  BY <1>6
  DEF Starter, StartThread, StartSetsRunState, StartSetsFUState,
      vars, fuVars, dirVars, Flow!flowVars, Held
<1>7. CASE InotifyRunner
  BY <1>4, <1>7
  DEF InotifyRunner, RunnerWorks, Optimize, RunnerThrows, AddWatch, InstallWatch, AddWatchFails,
      FailFUState, SetErrorMessage, ListBegin, ListEnd, DrainRead, DrainEvent, DrainDone, Read,
      NextEvent, OptimizePush, OptimizeDone, CheckQueue, SetFUState,
      ReadEvents, ProcessEvent, EndBatch, CloseWatch, fuVars, dirVars, Flow!flowVars, Held
<1>8. CASE PopRunFile
  BY <1>5, <1>8
    DEF PopRunFile, PopStep, PopTop, PopStops, PopBegin, PopFindsNothing, PopFails,
        fuVars, dirVars, Flow!flowVars, Held
<1> QED
  BY <1>3, <1>6, <1>7, <1>8 DEF Next

(* The observer implements the flow of files it promises: it hands out     *)
(* only complete files, each once, no file before the EoLS of an earlier   *)
(* lumisection, and passes no marker before all that it closes.            *)
THEOREM RefinesFileFlow ==
  ASSUME InPlace = {}, Early = {}, RoomForAll
  PROVE  Spec => ImplementsFileFlow
<1>1. Init => NoDrop /\ Flow!Init
  BY FlowInit DEF Init, DirInit, NoDrop
<1>2. IInv /\ NoDrop /\ [Next]_vars => NoDrop'
  BY NextNoDrop
<1>3. IInv /\ NoDrop /\ [Next]_vars => [Flow!Next]_(Flow!flowVars)
  BY FlowStep
<1> QED
  BY <1>1, <1>2, <1>3, InvariantHolds, PTL DEF Spec, ImplementsFileFlow, Flow!Spec

-----------------------------------------------------------------------------
(* From the listing on, a complete file is in the runner's vector, in the  *)
(* queue, announced by inotify, or consumed, unless the kernel dropped its *)
(* event: nothing falls between the listing and the watch.                 *)
THEOREM NoFileLost ==
  ASSUME InPlace = {}, Early = {}
  PROVE  Spec => []NothingLost
<1>1. IInv => NothingLost
  <2> SUFFICES ASSUME IInv, Listed, NEW f \in dir \ dropped PROVE Copies(f) >= 1
    BY DEF NothingLost
  <2>1. f \in Files /\ Len(events) \in Nat
    BY DEF IInv, TypeOK, DirTypeOK
  <2>2. Reported(f) \in SUBSET (1 .. Len(events)) /\ IsFiniteSet(1 .. Len(events))
    BY <2>1, Interval DEF Reported
  <2>3. IsFiniteSet(Reported(f)) /\ Cardinality(Reported(f)) \in Nat
    BY <2>2, FiniteSubset
  <2>4. ASSUME f \in Announced PROVE Cardinality(Reported(f)) > 0
    <3>1. Reported(f) # {}
      BY <2>4 DEF Announced, Reported
    <3> QED
      BY <2>2, <3>1, FiniteSubset
  <2>5. Placed(f) > 0 \/ f \in Announced
    BY DEF IInv, Kept
  <2> QED
    BY <2>1, <2>3, <2>4, <2>5, Counts DEF Copies, Placed, IInv
<1> QED
  BY <1>1, InvariantHolds, PTL
=============================================================================
