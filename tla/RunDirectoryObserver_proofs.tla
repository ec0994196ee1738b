--------------------- MODULE RunDirectoryObserver_proofs ---------------------
(***************************************************************************)
(* Theorems about RunDirectoryObserver and the counters that               *)
(* ObserverStatistics adds to it, for every set of files, kernel queue     *)
(* length, buffer size and stopls values.                                  *)
(***************************************************************************)
EXTENDS ObserverInvariant, ObserverStatistics, FileInfo_proofs, TLAPS

-----------------------------------------------------------------------------
(***************************************************************************)
(* Files and bags                                                          *)
(***************************************************************************)

LEMMA FileFields ==
  ASSUME NEW f \in Files
  PROVE  /\ f.lumiSection \in 0 .. MaxLumiSection
         /\ f.index \in 0 .. IndexSpan - 1
         /\ f.type \in FileType
         /\ ~IsEoR(f) => f.lumiSection >= 1
BY FilesAssumption DEF FileInfos, FileType

LEMMA StateAfterType == \A f : StateAfter(f) \in State
BY DEF StateAfter, State

LEMMA LastEoLSAfterType ==
  ASSUME NEW f \in Files, NEW last \in 0 .. MaxLumiSection
  PROVE  LastEoLSAfter(f, last) \in 0 .. MaxLumiSection
BY FileFields DEF LastEoLSAfter

LEMMA BagOperations ==
  ASSUME NEW b, IsBag(b), NEW f \in Files
  PROVE  /\ IsBag(With(b, f))
         /\ IsBag(PushBackIfNew(b, f))
         /\ f \in Held(b) => IsBag(Without(b, f))
BY DEF IsBag, With, Without, Held, PushBackIfNew

(* What taking the first of a sequence of events leaves. *)
LEMMA EventOperations ==
  ASSUME NEW s \in Seq(Files), s # <<>>
  PROVE  /\ Head(s) \in Files
         /\ Tail(s) \in Seq(Files)
         /\ Len(Tail(s)) = Len(s) - 1
         /\ Len(s) \in Nat \ {0}
OBVIOUS

LEMMA NoEvents == <<>> \in Seq(Files) /\ Len(<<>>) = 0
OBVIOUS

LEMMA ReplyType ==
  ASSUME NEW f \in Files \cup {NoFile}, NEW s \in State,
         NEW last \in Int, NEW stop \in StopRequests \cup {-1}
  PROVE  [file |-> f, state |-> s, lastEoLS |-> last, stop |-> stop]
           \in [file : Files \cup {NoFile}, state : State,
               lastEoLS : Int, stop : StopRequests \cup {-1}]
OBVIOUS

-----------------------------------------------------------------------------
(***************************************************************************)
(* Type correctness                                                        *)
(***************************************************************************)

LEMMA InitType == Init => TypeOK
<1> SUFFICES ASSUME Init PROVE TypeOK
  OBVIOUS
<1>1. DirTypeOK
  <2>1. watched \in BOOLEAN
    BY DEF Init, DirInit
  <2> QED
    BY <2>1, NoEvents DEF Init, DirInit, DirTypeOK
<1>2. IsBag(NoFiles)
  BY DEF IsBag, NoFiles
<1>3. NoReply \in [file : Files \cup {NoFile}, state : State,
                   lastEoLS : Int, stop : StopRequests \cup {-1}]
  BY ReplyType DEF NoReply, State
<1>4. 0 \in 0 .. MaxLumiSection
  BY WidthAssumption
<1> QED
  BY <1>1, <1>2, <1>3, <1>4 DEF Init, TypeOK, State

LEMMA BUType == TypeOK /\ BU => TypeOK'
<1> SUFFICES ASSUME TypeOK, BU PROVE TypeOK'
  OBVIOUS
<1>1. DirTypeOK'
  <2>1. CASE BUMakesDirectory
    BY <2>1 DEF BUMakesDirectory, TypeOK, DirTypeOK
  <2>2. ASSUME NEW f \in Files, BUMovesIn(f) PROVE DirTypeOK'
    BY <2>2 DEF BUMovesIn, Notify, Writable, TypeOK, DirTypeOK
  <2>3. ASSUME NEW f \in Files, BUCreates(f) PROVE DirTypeOK'
    BY <2>3 DEF BUCreates, Writable, TypeOK, DirTypeOK
  <2>4. ASSUME NEW f \in Files, BUCloses(f) PROVE DirTypeOK'
    BY <2>4 DEF BUCloses, Notify, TypeOK, DirTypeOK
  <2> QED
    BY <2>1, <2>2, <2>3, <2>4 DEF BU, BUNext
<1> QED
  BY <1>1 DEF BU, TypeOK, runnerVars, fuVars, popVars

LEMMA StarterType == TypeOK /\ Starter => TypeOK'
BY DEF Starter, StartThread, StartSetsRunState, StartSetsFUState, TypeOK,
       DirTypeOK, dirVars, runnerVars, fuVars, popVars, State

LEMMA RunnerType == TypeOK /\ InotifyRunner => TypeOK'
<1> SUFFICES ASSUME TypeOK, InotifyRunner PROVE TypeOK'
  OBVIOUS
<1> USE DEF dirVars, runnerVars, fuVars, popVars
<1>1. CASE AddWatch
  BY <1>1 DEF AddWatch, InstallWatch, TypeOK, DirTypeOK
<1>2. CASE AddWatchFails
  BY <1>2 DEF AddWatchFails, WatchError, TypeOK, DirTypeOK, State
<1>3. CASE SetErrorMessage
  BY <1>3 DEF SetErrorMessage, TypeOK, DirTypeOK
<1>18. CASE FailFUState
  BY <1>18 DEF FailFUState, TypeOK, DirTypeOK, State
<1>4. CASE RunnerThrows
  BY <1>4 DEF RunnerThrows, TypeOK, DirTypeOK
<1>5. CASE ListBegin
  BY <1>5 DEF ListBegin, TypeOK, DirTypeOK, IsBag
<1>6. CASE ListEnd
  BY <1>6 DEF ListEnd, TypeOK, DirTypeOK, IsBag
<1>7. CASE DrainRead
  BY <1>7, RequestsAssumption DEF DrainRead, Read, HasEvent, TypeOK, DirTypeOK
<1>8. CASE DrainEvent
  <2>1. events # <<>>
    BY <1>8 DEF DrainEvent, TypeOK, DirTypeOK
  <2>2. DirTypeOK'
    BY <1>8, <2>1, EventOperations DEF DrainEvent, NextEvent, TypeOK, DirTypeOK
  <2>3. IsBag(files')
    BY <1>8, <2>1, EventOperations, BagOperations
    DEF DrainEvent, TypeOK, DirTypeOK
  <2> QED
    BY <1>8, <2>2, <2>3 DEF DrainEvent, TypeOK, NextEvent, IsBag
<1>9. CASE DrainDone
  BY <1>9 DEF DrainDone, TypeOK, DirTypeOK
<1>10. ASSUME NEW f \in Files, OptimizeSkip(f) PROVE TypeOK'
  <2>1. f \in Held(files)
    BY <1>10 DEF OptimizeSkip, NextFile, IsLeast
  <2>2. IsBag(files') /\ IsBag(consumed')
    BY <1>10, <2>1, BagOperations DEF OptimizeSkip, TypeOK
  <2>3. /\ runState' \in State
        /\ runLastEoLS' \in 0 .. MaxLumiSection
        /\ fuLastEoLS' \in 0 .. MaxLumiSection
    BY <1>10, StateAfterType, LastEoLSAfterType DEF OptimizeSkip, RunStats, TypeOK
  <2> QED
    BY <1>10, <2>2, <2>3 DEF OptimizeSkip, TypeOK, DirTypeOK
<1>11. ASSUME NEW f \in Files, OptimizePush(f) PROVE TypeOK'
  <2>1. f \in Held(files)
    BY <1>11 DEF OptimizePush, NextFile, IsLeast
  <2>2. IsBag(files') /\ IsBag(queue')
    BY <1>11, <2>1, BagOperations DEF OptimizePush, Push, TypeOK
  <2>3. /\ runState' \in State
        /\ runLastEoLS' \in 0 .. MaxLumiSection
    BY <1>11, StateAfterType, LastEoLSAfterType DEF OptimizePush, RunStats, TypeOK
  <2> QED
    BY <1>11, <2>2, <2>3 DEF OptimizePush, Push, TypeOK, DirTypeOK
<1>12. CASE OptimizeDone
  BY <1>12 DEF OptimizeDone, TypeOK, DirTypeOK
<1>13. CASE CheckQueue
  BY <1>13 DEF CheckQueue, StateToSet, TypeOK, DirTypeOK
<1>14. CASE SetFUState
  BY <1>14 DEF SetFUState, TypeOK, DirTypeOK, State
<1>15. CASE ReadEvents
  BY <1>15, RequestsAssumption DEF ReadEvents, Read, HasEvent, TypeOK, DirTypeOK
<1>16. CASE ProcessEvent
  <2>1. events # <<>>
    BY <1>16 DEF ProcessEvent, TypeOK, DirTypeOK
  <2>2. DirTypeOK'
    BY <1>16, <2>1, EventOperations DEF ProcessEvent, NextEvent, TypeOK, DirTypeOK
  <2>3. IsBag(queue')
    BY <1>16, <2>1, EventOperations, BagOperations
    DEF ProcessEvent, Push, TypeOK, DirTypeOK
  <2>4. /\ runState' \in State
        /\ runLastEoLS' \in 0 .. MaxLumiSection
    BY <1>16, <2>1, EventOperations, StateAfterType, LastEoLSAfterType
    DEF ProcessEvent, RunStats, TypeOK, DirTypeOK
  <2> QED
    BY <1>16, <2>2, <2>3, <2>4 DEF ProcessEvent, TypeOK, IsBag
<1>17. CASE EndBatch
  <2>1. DirTypeOK'
    <3>1. CASE EndSeen
      <4>1. watched' \in BOOLEAN
        BY <1>17, <3>1 DEF EndBatch, CloseWatch
      <4> QED
        BY <1>17, <3>1, <4>1, NoEvents DEF EndBatch, CloseWatch, TypeOK, DirTypeOK
    <3>2. CASE ~EndSeen
      BY <1>17, <3>2 DEF EndBatch, TypeOK, DirTypeOK
    <3> QED
      BY <3>1, <3>2
  <2> QED
    BY <1>17, <2>1 DEF EndBatch, TypeOK
<1> QED
  BY <1>1, <1>2, <1>3, <1>4, <1>5, <1>6, <1>7, <1>8, <1>9, <1>10, <1>11,
     <1>12, <1>13, <1>14, <1>15, <1>16, <1>17, <1>18
  DEF InotifyRunner, RunnerWorks, Optimize

LEMMA PopType == TypeOK /\ PopRunFile => TypeOK'
<1> SUFFICES ASSUME TypeOK, PopRunFile PROVE TypeOK'
  OBVIOUS
<1> USE DEF dirVars, runnerVars, fuVars, popVars
<1>1. ASSUME NEW stop \in StopRequests, PopStops(stop) PROVE TypeOK'
  BY <1>1, RequestsAssumption DEF PopStops, Reply, TypeOK, DirTypeOK, State
<1>2. ASSUME NEW stop \in StopRequests, PopBegin(stop) PROVE TypeOK'
  BY <1>2 DEF PopBegin, NoReply, TypeOK, DirTypeOK, State
<1>3. CASE PopFindsNothing
  <2>1. fuLastEoLS \in Int
    BY WidthAssumption DEF TypeOK
  <2>2. reply' \in [file : Files \cup {NoFile}, state : State,
                   lastEoLS : Int, stop : StopRequests \cup {-1}]
    BY <1>3, <2>1, ReplyType DEF PopFindsNothing, PopReturns, Reply, TypeOK
  <2>3. popping' \in BOOLEAN
    BY <1>3 DEF PopFindsNothing, PopReturns
  <2> QED
    BY <1>3, <2>2, <2>3 DEF PopFindsNothing, PopReturns, TypeOK, DirTypeOK
<1>4. ASSUME NEW f \in Files, PopFails(f) PROVE TypeOK'
  BY <1>4 DEF PopFails, TypeOK, DirTypeOK
<1>5. ASSUME NEW f \in Files, Takes(f) PROVE IsBag(queue')
  BY <1>5, BagOperations DEF Takes, Top, IsLeast, TypeOK
<1>6. ASSUME NEW f \in Files, FUStats(f)
      PROVE  /\ fuState' \in State
             /\ fuLastEoLS' \in 0 .. MaxLumiSection
             /\ lastPopped' \in Files
             /\ IsBag(consumed')
  BY <1>6, StateAfterType, LastEoLSAfterType, BagOperations DEF FUStats, TypeOK
<1>8. ASSUME NEW f \in Files, PopMarker(f) PROVE TypeOK'
  BY <1>8, <1>5, <1>6 DEF PopMarker, TypeOK, DirTypeOK
<1>9. ASSUME NEW f \in Files, PopIndex(f) PROVE TypeOK'
  <2>1. fuLastEoLS' \in Int
    BY <1>9, <1>6, WidthAssumption DEF PopIndex
  <2>2. reply' \in [file : Files \cup {NoFile}, state : State,
                   lastEoLS : Int, stop : StopRequests \cup {-1}]
    BY <1>9, <1>6, <2>1, ReplyType DEF PopIndex, PopReturns, Reply, TypeOK
  <2>3. popping' \in BOOLEAN
    BY <1>9 DEF PopIndex, PopReturns
  <2> QED
    BY <1>9, <1>5, <1>6, <2>2, <2>3 DEF PopIndex, PopReturns, TypeOK, DirTypeOK
<1> QED
  BY <1>1, <1>2, <1>3, <1>4, <1>8, <1>9 DEF PopRunFile, PopStep, PopTop

LEMMA NextType == TypeOK /\ [Next]_vars => TypeOK'
<1>1. TypeOK /\ UNCHANGED vars => TypeOK'
  BY DEF vars, dirVars, runnerVars, fuVars, popVars, TypeOK, DirTypeOK
<1> QED
  BY <1>1, BUType, StarterType, RunnerType, PopType DEF Next

(* Every variable keeps its type; in particular no file is taken from the  *)
(* queue or the vector that was not in it (a bag never goes negative).     *)
THEOREM TypeCorrect == Spec => []TypeOK
BY InitType, NextType, PTL DEF Spec
-----------------------------------------------------------------------------
(***************************************************************************)
(* Late files                                                              *)
(***************************************************************************)

(* The runner has not taken a file yet. *)
NoneTaken ==
  runner \in {"none", "watch", "ERROR", "NORUN", "explain", "list", "listing", "drain"}

(* The runner is still at its startup files and has queued none of them,   *)
(* so that no FU can have popped any.                                      *)
Skipping ==
  /\ NoneTaken \/ runner = "optimize"
  /\ ~sawIndex

(* fuLastEoLS is no smaller than any EoLS consumed, which also holds when  *)
(* the runner copies its own last EoLS to it for a marker that it skips:   *)
(* the markers are skipped in the order of their lumisections.             *)
LateInv ==
  /\ TypeOK
  /\ starter = "new" => runner = "none"
  /\ NoneTaken =>
       consumed = NoFiles /\ ~sawIndex
  /\ Skipping => queue = NoFiles /\ fuLastEoLS = runLastEoLS
  /\ \A m \in Files : IsEoLS(m) /\ consumed[m] > 0 =>
       /\ m.lumiSection <= fuLastEoLS
       /\ Skipping => \A f \in Held(files) : IsEoLS(f) => m.lumiSection <= f.lumiSection

(* Of two EoLS the one that comes first has the smaller lumisection. *)
LEMMA EoLSOrder ==
  ASSUME NEW f \in Files, NEW g \in Files, IsEoLS(f), IsEoLS(g), Score(f) <= Score(g)
  PROVE  f.lumiSection <= g.lumiSection
<1>1. f \in FileInfos /\ g \in FileInfos /\ ~IsEoR(f) /\ ~IsEoR(g)
  BY FilesAssumption DEF IsEoLS, IsEoR
<1>2. Score(f) \in Int /\ Score(g) \in Int
  BY <1>1, ScoreOrder
<1>3. f.lumiSection \in Int /\ g.lumiSection \in Int
  BY FileFields
<1> QED
  BY <1>1, <1>2, <1>3, MarkerOrder

LEMMA InitLate == Init => LateInv
BY InitType DEF Init, LateInv, Skipping, NoneTaken, NoFiles

(* A step that consumes nothing and tells FUs nothing. *)
LEMMA QuietLate ==
  ASSUME LateInv, Next,
         UNCHANGED <<consumed, fuLastEoLS, sawIndex>>,
         starter' = "new" => runner' = "none",
         \/ UNCHANGED <<runner, queue, files, runLastEoLS>>
         \/ ~Skipping' /\ ~NoneTaken'
         \/ /\ NoneTaken
            /\ UNCHANGED <<queue, runLastEoLS>>
  PROVE  LateInv'
<1>1. TypeOK'
  BY NextType DEF LateInv
<1>2. CASE UNCHANGED <<runner, queue, files, runLastEoLS>>
  BY <1>1, <1>2 DEF LateInv, Skipping, NoneTaken
<1>3. CASE ~Skipping' /\ ~NoneTaken'
  BY <1>1, <1>3 DEF LateInv, Skipping, NoneTaken
<1>4. CASE /\ NoneTaken
           /\ UNCHANGED <<queue, runLastEoLS>>
  BY <1>1, <1>4 DEF LateInv, Skipping, NoneTaken, NoFiles
<1> QED
  BY <1>2, <1>3, <1>4
LEMMA SkipLate ==
  ASSUME LateInv, NEW g \in Files, OptimizeSkip(g)
  PROVE  LateInv'
<1>1. TypeOK'
  BY NextType DEF LateInv, Next, InotifyRunner, RunnerWorks, Optimize, OptimizeSkip
<1>2. /\ runner = "optimize" /\ Skipping /\ Skipping' /\ NextFile(g)
      /\ files' = Without(files, g) /\ consumed' = With(consumed, g)
      /\ runLastEoLS' = LastEoLSAfter(g, runLastEoLS) /\ fuLastEoLS' = runLastEoLS'
      /\ UNCHANGED <<starter, runner, queue>>
  BY DEF OptimizeSkip, RunStats, Skipping, NoneTaken
<1>3. IsBag(files) /\ IsBag(consumed) /\ files[g] > 0 /\ Held(files') \subseteq Held(files)
  BY <1>2 DEF LateInv, TypeOK, NextFile, IsLeast, Held, Without, IsBag
<1>4. ASSUME NEW m \in Files, IsEoLS(m), consumed'[m] > 0
      PROVE  /\ m.lumiSection <= fuLastEoLS'
             /\ \A f \in Held(files') : IsEoLS(f) => m.lumiSection <= f.lumiSection
  <2>1. m.lumiSection \in Int /\ g.lumiSection \in Int /\ fuLastEoLS \in Int
    BY FileFields, WidthAssumption DEF LateInv, TypeOK
  <2>2. CASE consumed[m] > 0
    <3>1. m.lumiSection <= fuLastEoLS /\ \A f \in Held(files) : IsEoLS(f) => m.lumiSection <= f.lumiSection
      BY <1>2, <1>4, <2>2 DEF LateInv
    <3>2. fuLastEoLS' = IF IsEoLS(g) THEN g.lumiSection ELSE fuLastEoLS
      BY <1>2 DEF LastEoLSAfter, LateInv
    <3>3. g \in Held(files)
      BY <1>3 DEF Held
    <3> QED
      BY <1>3, <2>1, <3>1, <3>2, <3>3
  <2>3. CASE ~(consumed[m] > 0)
    <3>1. m = g
      BY <1>2, <1>3, <1>4, <2>3 DEF With, IsBag
    <3>2. fuLastEoLS' = g.lumiSection
      BY <1>2, <1>4, <3>1 DEF LastEoLSAfter
    <3>3. \A f \in Held(files') : IsEoLS(f) => g.lumiSection <= f.lumiSection
      BY <1>2, <1>3, <1>4, <3>1, EoLSOrder DEF NextFile, IsLeast, Held
    <3> QED
      BY <2>1, <3>1, <3>2, <3>3
  <2> QED
    BY <2>2, <2>3
<1> QED
  BY <1>1, <1>2, <1>4 DEF LateInv, NoneTaken

LEMMA PushLate ==
  ASSUME LateInv, NEW g \in Files, OptimizePush(g)
  PROVE  LateInv'
<1>1. TypeOK'
  BY NextType DEF LateInv, Next, InotifyRunner, RunnerWorks, Optimize, OptimizePush
<1>2. ~Skipping' /\ runner' = "optimize" /\ UNCHANGED <<starter, runner, consumed, fuLastEoLS>>
  BY DEF OptimizePush, Skipping, NoneTaken, fuVars
<1> QED
  BY <1>1, <1>2 DEF LateInv, NoneTaken

(* What a pop takes is of a lumisection that no consumed EoLS has closed.  *)
LEMMA TakeLate ==
  ASSUME LateInv, NEW g \in Files, PopMarker(g) \/ PopIndex(g)
  PROVE  /\ \A m \in Files : IsEoLS(m) /\ consumed[m] > 0 /\ ~IsEoR(g) =>
              m.lumiSection < g.lumiSection
         /\ LateInv'
<1>1. TypeOK'
  <2>1. ~CheckFails(g)
    BY DEF PopMarker, PopIndex, Takes, CheckFails, IsMarker
  <2>2. PopTop(g)
    BY <2>1 DEF PopTop
  <2> QED
    BY <2>2, NextType DEF LateInv, Next, PopRunFile, PopStep
<1>2. /\ Takes(g) /\ FUStats(g)
      /\ UNCHANGED <<starter, runner, sawIndex, files, runLastEoLS>>
  BY DEF PopMarker, PopIndex, runnerVars
<1>3. queue[g] > 0 /\ ~IsLate(g)
  BY <1>2 DEF Takes, Top, IsLeast, Held
<1>4. ~Skipping
  BY <1>3 DEF LateInv, NoFiles
<1>5. /\ fuLastEoLS \in Int /\ g.lumiSection \in Int
      /\ \A m \in Files : m.lumiSection \in Int
  BY FileFields, WidthAssumption DEF LateInv, TypeOK
<1>6. \A m \in Files : IsEoLS(m) /\ consumed[m] > 0 /\ ~IsEoR(g) =>
        m.lumiSection < g.lumiSection
  BY <1>3, <1>5 DEF LateInv, IsLate
<1>7. ASSUME NEW m \in Files, IsEoLS(m), consumed'[m] > 0
      PROVE  m.lumiSection <= fuLastEoLS'
  <2>1. fuLastEoLS' = IF IsEoLS(g) THEN g.lumiSection ELSE fuLastEoLS
    BY <1>2 DEF FUStats, LastEoLSAfter
  <2>2. m = g \/ consumed[m] > 0
    BY <1>2, <1>7 DEF FUStats, With, LateInv, TypeOK, IsBag
  <2>3. IsEoLS(g) => ~IsEoR(g)
    BY DEF IsEoLS, IsEoR
  <2> QED
    BY <1>5, <1>6, <1>7, <2>1, <2>2, <2>3 DEF LateInv
<1>8. /\ NoneTaken => sawIndex
      /\ ~Skipping'
  BY <1>2, <1>4 DEF Skipping, NoneTaken
<1> QED
  BY <1>1, <1>2, <1>6, <1>7, <1>8 DEF LateInv, NoneTaken

LEMMA NextLate == LateInv /\ [Next]_vars => LateInv'
<1> SUFFICES ASSUME LateInv, [Next]_vars PROVE LateInv'
  OBVIOUS
<1> USE DEF dirVars, runnerVars, fuVars, popVars
<1>1. CASE UNCHANGED vars
  BY <1>1, NextType DEF vars, LateInv, Skipping, NoneTaken
<1>2. CASE BU
  BY <1>2, QuietLate DEF BU, Next, LateInv
<1>3. CASE Starter
  BY <1>3, QuietLate
  DEF Next, Starter, StartThread, StartSetsRunState, StartSetsFUState, LateInv, NoneTaken
<1>4. CASE InotifyRunner
  <2> USE DEF LateInv, NoneTaken
  <2>1. CASE \/ AddWatch \/ ListBegin \/ ListEnd \/ DrainRead \/ DrainEvent
             \/ DrainDone \/ AddWatchFails \/ FailFUState
    BY <1>4, <2>1, QuietLate
    DEF Next, AddWatch, ListBegin, ListEnd, DrainRead, DrainEvent, DrainDone, AddWatchFails,
        FailFUState
  <2>2. CASE \/ SetErrorMessage \/ OptimizeDone \/ CheckQueue \/ SetFUState
             \/ ReadEvents \/ ProcessEvent \/ EndBatch
    BY <1>4, <2>2, QuietLate
    DEF Next, SetErrorMessage, OptimizeDone, CheckQueue, StateToSet, SetFUState,
        ReadEvents, ProcessEvent, EndBatch, Skipping, NoneTaken
  <2>3. CASE RunnerThrows
    BY <1>4, <2>3, QuietLate DEF Next, RunnerThrows
  <2> QED
    BY <1>4, <2>1, <2>2, <2>3, SkipLate, PushLate DEF InotifyRunner, RunnerWorks, Optimize
<1>5. CASE PopRunFile
  <2>1. CASE PopFindsNothing \/ \E stop \in StopRequests : PopStops(stop) \/ PopBegin(stop)
    BY <1>5, <2>1, QuietLate DEF Next, PopFindsNothing, PopStops, PopBegin, LateInv
  <2>2. ASSUME NEW g \in Files, PopFails(g) PROVE LateInv'
    BY <1>5, <2>2, QuietLate DEF Next, PopFails, LateInv
  <2> QED
    BY <1>5, <2>1, <2>2, TakeLate DEF PopRunFile, PopStep, PopTop
<1> QED
  BY <1>1, <1>2, <1>3, <1>4, <1>5 DEF Next

LEMMA StepNotLate ==
  ASSUME LateInv, [Next]_vars,
         NEW f \in Files, NEW m \in Files,
         ~IsMarker(f), consumed'[f] > consumed[f], IsEoLS(m), consumed[m] > 0
  PROVE  m.lumiSection < f.lumiSection
<1> USE DEF dirVars, runnerVars, fuVars, popVars
<1>1. consumed' # consumed /\ IsBag(consumed)
  BY DEF LateInv, TypeOK, IsBag
<1>2. PICK g \in Files : OptimizeSkip(g) \/ PopMarker(g) \/ PopIndex(g)
  <2>1. ~BU /\ ~Starter /\ ~UNCHANGED vars
    BY <1>1 DEF BU, Starter, StartThread, StartSetsRunState, StartSetsFUState, vars
  <2>2. CASE InotifyRunner
    BY <1>1, <2>2
    DEF InotifyRunner, RunnerWorks, RunnerThrows, AddWatch, AddWatchFails,
        FailFUState, SetErrorMessage, ListBegin, ListEnd, DrainRead, DrainEvent, DrainDone,
        Optimize, OptimizePush, OptimizeDone, CheckQueue, SetFUState,
        ReadEvents, ProcessEvent, EndBatch
  <2>3. CASE PopRunFile
    BY <1>1, <2>3
    DEF PopRunFile, PopStep, PopTop, PopStops, PopBegin, PopFindsNothing, PopFails
  <2> QED
    BY <2>1, <2>2, <2>3 DEF Next
<1>3. consumed' = With(consumed, g)
  BY <1>2 DEF OptimizeSkip, PopMarker, PopIndex, FUStats
<1>4. f = g
  BY <1>1, <1>3 DEF With, IsBag
<1>5. PopIndex(f) /\ ~IsEoR(f)
  BY <1>2, <1>4 DEF OptimizeSkip, PopMarker, IsMarker
<1> QED
  BY <1>5, TakeLate

(* Whatever the BU writes, in whatever order, in place or not, and however *)
(* many events the kernel drops: once FUs have been given lasteols=n, or   *)
(* the runner has skipped the EoLS of n, no index file of a lumisection up *)
(* to n is given out.                                                      *)
THEOREM LateFilesStay == Spec => LateFilesNotGiven
<1>1. LateInv /\ [Next]_vars =>
        [\A f, m \in Files :
           ~IsMarker(f) /\ consumed'[f] > consumed[f] /\ IsEoLS(m) /\ consumed[m] > 0
             => m.lumiSection < f.lumiSection]_vars
  BY StepNotLate
<1> QED
  BY <1>1, InitLate, NextLate, PTL DEF Spec, LateFilesNotGiven
-----------------------------------------------------------------------------
(***************************************************************************)
(* Statistics                                                              *)
(***************************************************************************)

FUCounters ==
  [nbRequests : Nat, nbEmptyReplies : Nat, nbWaitsForEoLS : Nat, stopLS : Int]

Serving == IF popping THEN 1 ELSE 0

(* The property with the types of what it counts. *)
RequestsInv ==
  /\ served \in [given : Nat, stopped : Nat]
  /\ "fu" \in DOMAIN stats
  /\ stats.fu \in FUCounters
  /\ stats.fu.nbRequests =
       served.given + stats.fu.nbEmptyReplies + served.stopped + Serving
  /\ stats.fu.nbWaitsForEoLS <= stats.fu.nbEmptyReplies

(* What an empty reply does to the counters. *)
LEMMA EmptyReplyType ==
  ASSUME NEW fu \in FUCounters, NEW a \in Nat, NEW b \in Nat
  PROVE  [fu EXCEPT !.nbEmptyReplies = a, !.nbWaitsForEoLS = b] \in FUCounters
BY DEF FUCounters

LEMMA CountAnEmptyReply ==
  ASSUME NEW fu \in FUCounters, NEW n \in Nat, NEW new,
         new = [fu EXCEPT !.nbEmptyReplies = @ + 1, !.nbWaitsForEoLS = @ + n]
  PROVE  /\ new \in FUCounters
         /\ new.nbRequests = fu.nbRequests
         /\ new.nbEmptyReplies = fu.nbEmptyReplies + 1
         /\ new.nbWaitsForEoLS = fu.nbWaitsForEoLS + n
<1>1. fu.nbEmptyReplies + 1 \in Nat /\ fu.nbWaitsForEoLS + n \in Nat
  BY DEF FUCounters
<1>2. [fu EXCEPT !.nbEmptyReplies = fu.nbEmptyReplies + 1,
                 !.nbWaitsForEoLS = fu.nbWaitsForEoLS + n] \in FUCounters
  BY <1>1, EmptyReplyType
<1>3. new \in FUCounters
  BY <1>2 DEF FUCounters
<1> QED
  BY <1>3 DEF FUCounters

LEMMA InitRequests == SInit => RequestsInv
<1> SUFFICES ASSUME SInit PROVE RequestsInv
  OBVIOUS
<1>1. Serving = 0 /\ served = [given |-> 0, stopped |-> 0]
  BY DEF SInit, Init, Serving
<1>2. /\ "fu" \in DOMAIN stats
      /\ stats.fu = [nbRequests |-> 0, nbEmptyReplies |-> 0, nbWaitsForEoLS |-> 0, stopLS |-> -1]
  BY DEF SInit, NoStatistics
<1> QED
  BY <1>1, <1>2 DEF RequestsInv, FUCounters

(* A step that counts nothing of the requests. *)
LEMMA UnrequestedStep ==
  ASSUME RequestsInv, UNCHANGED <<popping, served>>,
         "fu" \in DOMAIN stats', stats'.fu = stats.fu
  PROVE  RequestsInv'
BY DEF RequestsInv, Serving

LEMMA NextRequests == RequestsInv /\ [SNext]_allVars => RequestsInv'
<1> SUFFICES ASSUME RequestsInv, [SNext]_allVars PROVE RequestsInv'
  OBVIOUS
<1> USE DEF dirVars, runnerVars, fuVars, popVars
<1>1. CASE UNCHANGED allVars
  BY <1>1, UnrequestedStep DEF allVars, vars, RequestsInv
<1>2. CASE Uncounted
  <2>1. UNCHANGED popping
    BY <1>2
    DEF Uncounted, BU, Starter, StartThread, StartSetsRunState, StartSetsFUState,
        RunnerThrows, AddWatch, AddWatchFails, FailFUState, SetErrorMessage, ListBegin,
        DrainRead,
        DrainDone, OptimizeDone, CheckQueue, SetFUState, ReadEvents, EndBatch
  <2> QED
    BY <1>2, <2>1, UnrequestedStep DEF Uncounted, RequestsInv
<1>3. CASE CountListed
  BY <1>3, UnrequestedStep DEF CountListed, ListEnd, RequestsInv
<1>13. CASE CountSeen
  BY <1>13, UnrequestedStep DEF CountSeen, vars, RequestsInv
<1>4. CASE CountDrained
  BY <1>4, UnrequestedStep DEF CountDrained, DrainEvent, RequestsInv
<1>5. CASE CountEvent
  BY <1>5, UnrequestedStep DEF CountEvent, CountPush, ProcessEvent, RequestsInv
<1>6. CASE CountEmpty
  <2>1. Serving = 1 /\ Serving' = 0 /\ UNCHANGED served
    BY <1>6 DEF CountEmpty, PopFindsNothing, PopReturns, Serving
  <2> DEFINE waits == IF Held(queue) = {} THEN 0 ELSE 1
  <2>2. /\ "fu" \in DOMAIN stats'
        /\ stats'.fu = [stats.fu EXCEPT !.nbEmptyReplies = @ + 1, !.nbWaitsForEoLS = @ + waits]
    BY <1>6 DEF CountEmpty, Empty, RequestsInv, FUCounters
  <2>3. waits \in Nat /\ waits <= 1
    OBVIOUS
  <2> HIDE DEF waits
  <2>4. /\ stats'.fu \in FUCounters
        /\ stats'.fu.nbRequests = stats.fu.nbRequests
        /\ stats'.fu.nbEmptyReplies = stats.fu.nbEmptyReplies + 1
        /\ stats'.fu.nbWaitsForEoLS = stats.fu.nbWaitsForEoLS + waits
    <3>1. stats.fu \in FUCounters
      BY DEF RequestsInv
    <3>2. stats'.fu = [stats.fu EXCEPT !.nbEmptyReplies = @ + 1, !.nbWaitsForEoLS = @ + waits]
      BY <2>2
    <3> QED
      BY ONLY <3>1, <3>2, <2>3, CountAnEmptyReply
  <2> QED
    BY <2>1, <2>2, <2>3, <2>4 DEF RequestsInv, FUCounters
<1>7. ASSUME NEW f \in Files, CountSkipped(f) PROVE RequestsInv'
  BY <1>7, UnrequestedStep DEF CountSkipped, OptimizeSkip, RequestsInv
<1>8. ASSUME NEW f \in Files, CountPushed(f) PROVE RequestsInv'
  BY <1>8, UnrequestedStep DEF CountPushed, CountPush, OptimizePush, RequestsInv
<1>9. ASSUME NEW f \in Files, CountMarker(f) PROVE RequestsInv'
  BY <1>9, UnrequestedStep DEF CountMarker, PopMarker, RequestsInv
<1>10. ASSUME NEW f \in Files, CountFailed(f) PROVE RequestsInv'
  BY <1>10, UnrequestedStep DEF CountFailed, PopFails, RequestsInv
<1>11. ASSUME NEW f \in Files, CountGiven(f) PROVE RequestsInv'
  <2>1. Serving = 1 /\ Serving' = 0
    BY <1>11 DEF CountGiven, PopIndex, Takes, PopReturns, Serving
  <2>2. served' = [served EXCEPT !.given = @ + 1] /\ UNCHANGED stats
    BY <1>11 DEF CountGiven
  <2> QED
    BY <2>1, <2>2 DEF RequestsInv, FUCounters
<1>12. ASSUME NEW stop \in StopRequests, Requested(stop) PROVE RequestsInv'
  <2>1. CASE PopBegin(stop) /\ UNCHANGED served
    <3>1. Serving = 0 /\ Serving' = 1
      BY <2>1 DEF PopBegin, LockFree, Serving
    <3>2. ~PopStops(stop)
      BY <2>1 DEF PopBegin, PopStops
    <3>3. stats' = [stats EXCEPT !.fu.nbRequests = @ + 1]
      BY <1>12, <3>2 DEF Requested
    <3>4. /\ "fu" \in DOMAIN stats'
          /\ stats'.fu = [stats.fu EXCEPT !.nbRequests = @ + 1]
      BY <3>3 DEF RequestsInv, FUCounters
    <3> QED
      BY <2>1, <3>1, <3>4 DEF RequestsInv, FUCounters
  <2>2. CASE /\ PopStops(stop)
             /\ stats' = [stats EXCEPT !.fu.nbRequests = @ + 1, !.fu.stopLS = stop]
             /\ served' = [served EXCEPT !.stopped = @ + 1]
    <3>1. Serving' = Serving /\ Serving = 0 /\ stop \in Int
      BY <2>2, RequestsAssumption DEF PopStops, LockFree, Serving
    <3>2. /\ "fu" \in DOMAIN stats'
          /\ stats'.fu = [stats.fu EXCEPT !.nbRequests = @ + 1, !.stopLS = stop]
      BY <2>2 DEF RequestsInv, FUCounters
    <3>3. /\ stats'.fu \in FUCounters
          /\ stats'.fu.nbRequests = stats.fu.nbRequests + 1
          /\ stats'.fu.nbEmptyReplies = stats.fu.nbEmptyReplies
          /\ stats'.fu.nbWaitsForEoLS = stats.fu.nbWaitsForEoLS
      <4> DEFINE counted == [stats.fu EXCEPT !.nbRequests = @ + 1]
      <4>1. /\ counted \in FUCounters
            /\ counted.nbRequests = stats.fu.nbRequests + 1
            /\ counted.nbEmptyReplies = stats.fu.nbEmptyReplies
            /\ counted.nbWaitsForEoLS = stats.fu.nbWaitsForEoLS
        BY DEF RequestsInv, FUCounters
      <4>2. stats'.fu = [counted EXCEPT !.stopLS = stop]
        BY <3>2
      <4>3. stop \in Int
        BY RequestsAssumption
      <4> HIDE DEF counted
      <4> QED
        BY <4>1, <4>2, <4>3 DEF FUCounters
    <3>4. served' \in [given : Nat, stopped : Nat] /\ served'.given = served.given
          /\ served'.stopped = served.stopped + 1
      BY <2>2 DEF RequestsInv
    <3> QED
      BY <3>1, <3>2, <3>3, <3>4 DEF RequestsInv, FUCounters
  <2> QED
    BY <1>12, <2>1, <2>2 DEF Requested
<1> QED
  BY <1>1, <1>2, <1>3, <1>4, <1>5, <1>6, <1>7, <1>8, <1>9, <1>10, <1>11, <1>12, <1>13 DEF SNext

(* In the numbers of /stats every request but the one being served is one  *)
(* that got a file, or none, or was told to stop, and only once.           *)
THEOREM RequestsCounted == SSpec => []RequestsAccountedFor
<1>1. RequestsInv => RequestsAccountedFor
  BY DEF RequestsInv, RequestsAccountedFor, Serving
<1> QED
  BY <1>1, InitRequests, NextRequests, PTL DEF SSpec
-----------------------------------------------------------------------------
(***************************************************************************)
(* The counters of files                                                   *)
(***************************************************************************)

LEMMA CopiesFinite ==
  ASSUME NEW b, IsBag(b)
  PROVE  IsFiniteSet(CopiesOf(b))
<1> DEFINE copies == {{f} \X (1 .. b[f]) : f \in Files}
           ofFile == [f \in Files |-> {f} \X (1 .. b[f])]
<1>1. IsFiniteSet(Files)
  BY FilesAssumption, FileInfosFinite, FS_Subset
<1>2. ofFile \in Surjection(Files, copies)
  <2>1. ofFile \in [Files -> copies]
    OBVIOUS
  <2>2. ASSUME NEW c \in copies PROVE \E f \in Files : ofFile[f] = c
    OBVIOUS
  <2> HIDE DEF copies, ofFile
  <2> QED
    BY <2>1, <2>2 DEF Surjection
<1>3. IsFiniteSet(copies)
  <2> HIDE DEF copies, ofFile
  <2> QED
    BY <1>1, <1>2, FS_Surjection
<1>4. ASSUME NEW c \in copies PROVE IsFiniteSet(c)
  <2>1. PICK f \in Files : c = {f} \X (1 .. b[f])
    OBVIOUS
  <2>2. IsFiniteSet(1 .. b[f])
    BY FS_Interval DEF IsBag
  <2> QED
    BY <2>1, <2>2, FS_Singleton, FS_Product
<1> HIDE DEF copies
<1>5. IsFiniteSet(UNION copies)
  BY <1>3, <1>4, FS_UNION
<1> QED
  BY <1>5 DEF copies, CopiesOf

LEMMA CopiesMember ==
  ASSUME NEW b, IsBag(b), NEW c
  PROVE  c \in CopiesOf(b) <=> \E f \in Files : \E n \in 1 .. b[f] : c = <<f, n>>
BY DEF CopiesOf

(* Pushing, taking and duplicates move a size by one. *)
LEMMA SizeFacts ==
  ASSUME NEW b, IsBag(b)
  PROVE  /\ Size(b) \in Nat
         /\ \A f \in Files : Size(With(b, f)) = Size(b) + 1
         /\ \A f \in Held(b) : Size(b) > 0 /\ Size(Without(b, f)) = Size(b) - 1
<1>1. IsFiniteSet(CopiesOf(b))
  BY CopiesFinite
<1>2. Size(b) \in Nat
  BY <1>1, FS_CardinalityType DEF Size
<1>3. ASSUME NEW f \in Files PROVE Size(With(b, f)) = Size(b) + 1
  <2>1. b[f] \in Nat /\ IsBag(With(b, f))
    BY BagOperations DEF IsBag
  <2>2. <<f, b[f] + 1>> \notin CopiesOf(b)
    BY <2>1, CopiesMember
  <2>3. ASSUME NEW c
        PROVE  c \in CopiesOf(With(b, f)) <=> c \in CopiesOf(b) \/ c = <<f, b[f] + 1>>
    <3>1. \A g \in Files : With(b, f)[g] = IF g = f THEN b[f] + 1 ELSE b[g]
      BY DEF With, IsBag
    <3>2. 1 .. b[f] + 1 = (1 .. b[f]) \cup {b[f] + 1}
      BY <2>1
    <3> QED
      BY <2>1, <3>1, <3>2, CopiesMember
  <2>4. CopiesOf(With(b, f)) = CopiesOf(b) \cup {<<f, b[f] + 1>>}
    BY <2>3
  <2> QED
    BY <1>1, <2>2, <2>4, FS_AddElement DEF Size
<1>4. ASSUME NEW f \in Held(b) PROVE Size(b) > 0 /\ Size(Without(b, f)) = Size(b) - 1
  <2>1. f \in Files /\ b[f] \in Nat \ {0}
    BY DEF IsBag, Held
  <2>2. IsBag(Without(b, f))
    BY <2>1, BagOperations
  <2>4. <<f, b[f]>> \in CopiesOf(b)
    BY <2>1, CopiesMember
  <2>5. ASSUME NEW c
        PROVE  c \in CopiesOf(Without(b, f)) <=> c \in CopiesOf(b) /\ c # <<f, b[f]>>
    <3>1. \A g \in Files : Without(b, f)[g] = IF g = f THEN b[f] - 1 ELSE b[g]
      BY <2>1 DEF Without, IsBag
    <3>2. 1 .. b[f] - 1 = (1 .. b[f]) \ {b[f]}
      BY <2>1
    <3> QED
      BY <2>1, <2>2, <3>1, <3>2, CopiesMember
  <2>6. CopiesOf(Without(b, f)) = CopiesOf(b) \ {<<f, b[f]>>}
    BY <2>5
  <2>7. Size(Without(b, f)) = Size(b) - 1
    BY <1>1, <2>4, <2>6, FS_RemoveElement DEF Size
  <2>8. Size(Without(b, f)) \in Nat
    BY <2>2, CopiesFinite, FS_CardinalityType DEF Size
  <2> QED
    BY <1>2, <2>7, <2>8
<1> QED
  BY <1>2, <1>3, <1>4

LEMMA NoFilesSize == IsBag(NoFiles) /\ Size(NoFiles) = 0
<1>1. IsBag(NoFiles)
  BY DEF IsBag, NoFiles
<1>2. \A f \in Files : 1 .. NoFiles[f] = {}
  BY DEF NoFiles
<1>3. CopiesOf(NoFiles) = {}
  BY <1>2 DEF CopiesOf
<1> QED
  BY <1>1, <1>3, FS_EmptySet DEF Size

StartupCounters ==
  [nbJsnFiles : Nat, nbJsnFilesOptimized : Nat,
   inotify : [nbJsnFiles : Nat, nbJsnFilesDuplicated : Nat]]

Statistics ==
  [startup : StartupCounters, inotify : [nbJsnFiles : Nat],
   nbJsnFilesProcessed : Nat, nbJsnFilesOptimized : Nat, queueSizeMax : Nat,
   fu : FUCounters]

(* The counters of files that the accounts below are kept with *)
SameCounts(t, s) ==
  /\ Found(t) = Found(s) /\ t.startup.nbJsnFiles = s.startup.nbJsnFiles
  /\ t.startup.nbJsnFilesOptimized = s.startup.nbJsnFilesOptimized
  /\ t.nbJsnFilesProcessed = s.nbJsnFilesProcessed
  /\ t.nbJsnFilesOptimized = s.nbJsnFilesOptimized
  /\ t.queueSizeMax = s.queueSizeMax

LEMMA CounterTypes ==
  ASSUME NEW s \in Statistics
  PROVE  /\ Found(s) \in Int /\ s.startup.nbJsnFiles \in Nat
         /\ s.startup.nbJsnFilesOptimized \in Nat
         /\ s.nbJsnFilesProcessed \in Nat /\ s.nbJsnFilesOptimized \in Nat
         /\ s.queueSizeMax \in Nat
         /\ s.fu \in FUCounters
BY DEF Statistics, StartupCounters, Found

(* What the counted steps do to them *)
AfterListing(s, n) == [s EXCEPT !.startup.nbJsnFiles = n]

AfterDraining(s, n) == [s EXCEPT !.startup.inotify.nbJsnFilesDuplicated = @ + n]

LEMMA ListedCounts ==
  ASSUME NEW s \in Statistics, NEW n \in Nat, NEW t, t = AfterListing(s, n)
  PROVE  /\ t \in Statistics
         /\ Found(t) = Found(s) - s.startup.nbJsnFiles + n
         /\ t.startup.nbJsnFilesOptimized = s.startup.nbJsnFilesOptimized
         /\ t.nbJsnFilesProcessed = s.nbJsnFilesProcessed
         /\ t.nbJsnFilesOptimized = s.nbJsnFilesOptimized
         /\ t.queueSizeMax = s.queueSizeMax
BY DEF Statistics, StartupCounters, Found, AfterListing

LEMMA DrainedCounts ==
  ASSUME NEW s \in Statistics, NEW n \in Nat, NEW t, t = AfterDraining(s, n)
  PROVE  /\ t \in Statistics
         /\ Found(t) = Found(s) - n
         /\ t.startup.nbJsnFilesOptimized = s.startup.nbJsnFilesOptimized
         /\ t.nbJsnFilesProcessed = s.nbJsnFilesProcessed
         /\ t.nbJsnFilesOptimized = s.nbJsnFilesOptimized
         /\ t.queueSizeMax = s.queueSizeMax
BY DEF Statistics, StartupCounters, Found, AfterDraining

LEMMA SkippedCounts ==
  ASSUME NEW s \in Statistics, NEW t,
         t = [s EXCEPT !.startup.nbJsnFilesOptimized = @ + 1]
  PROVE  /\ t \in Statistics
         /\ Found(t) = Found(s)
         /\ t.startup.nbJsnFilesOptimized = s.startup.nbJsnFilesOptimized + 1
         /\ t.nbJsnFilesProcessed = s.nbJsnFilesProcessed
         /\ t.nbJsnFilesOptimized = s.nbJsnFilesOptimized
         /\ t.queueSizeMax = s.queueSizeMax
BY DEF Statistics, StartupCounters, Found

LEMMA PushedCounts ==
  ASSUME NEW s \in Statistics, IsBag(queue')
  PROVE  /\ CountPush(s) \in Statistics
         /\ Found(CountPush(s)) = Found(s)
         /\ CountPush(s).startup.nbJsnFilesOptimized = s.startup.nbJsnFilesOptimized
         /\ CountPush(s).nbJsnFilesProcessed = s.nbJsnFilesProcessed + 1
         /\ CountPush(s).nbJsnFilesOptimized = s.nbJsnFilesOptimized
         /\ CountPush(s).queueSizeMax =
              IF Size(queue') > s.queueSizeMax THEN Size(queue') ELSE s.queueSizeMax
<1> DEFINE u == [s EXCEPT !.nbJsnFilesProcessed = @ + 1]
           n == IF Size(queue') > s.queueSizeMax THEN Size(queue') ELSE s.queueSizeMax
<1>1. /\ u \in Statistics
      /\ Found(u) = Found(s)
      /\ u.startup.nbJsnFilesOptimized = s.startup.nbJsnFilesOptimized
      /\ u.nbJsnFilesProcessed = s.nbJsnFilesProcessed + 1
      /\ u.nbJsnFilesOptimized = s.nbJsnFilesOptimized
      /\ u.queueSizeMax = s.queueSizeMax
  BY DEF Statistics, StartupCounters, Found
<1>2. n \in Nat
  <2>1. Size(queue)' \in Nat
    BY SizeFacts
  <2> QED
    BY <2>1, CounterTypes
<1>3. CountPush(s) = [u EXCEPT !.queueSizeMax = n]
  BY DEF CountPush
<1> HIDE DEF u, n
<1>4. /\ CountPush(s) \in Statistics
      /\ Found(CountPush(s)) = Found(u)
      /\ CountPush(s).startup.nbJsnFilesOptimized = u.startup.nbJsnFilesOptimized
      /\ CountPush(s).nbJsnFilesProcessed = u.nbJsnFilesProcessed
      /\ CountPush(s).nbJsnFilesOptimized = u.nbJsnFilesOptimized
      /\ CountPush(s).queueSizeMax = n
  BY <1>1, <1>2, <1>3 DEF Statistics, StartupCounters, Found
<1> QED
  BY <1>1, <1>4 DEF n

LEMMA SeenCounts ==
  ASSUME NEW s \in Statistics, NEW t,
         \/ t = [s EXCEPT !.inotify.nbJsnFiles = @ + 1]
         \/ t = [s EXCEPT !.startup.inotify.nbJsnFiles = @ + 1]
  PROVE  /\ t \in Statistics
         /\ Found(t) = Found(s) + 1
         /\ t.startup.nbJsnFilesOptimized = s.startup.nbJsnFilesOptimized
         /\ t.nbJsnFilesProcessed = s.nbJsnFilesProcessed
         /\ t.nbJsnFilesOptimized = s.nbJsnFilesOptimized
         /\ t.queueSizeMax = s.queueSizeMax
BY DEF Statistics, StartupCounters, Found

LEMMA MarkerCounts ==
  ASSUME NEW s \in Statistics, NEW t, t = [s EXCEPT !.nbJsnFilesOptimized = @ + 1]
  PROVE  /\ t \in Statistics
         /\ Found(t) = Found(s)
         /\ t.startup.nbJsnFiles = s.startup.nbJsnFiles
         /\ t.startup.nbJsnFilesOptimized = s.startup.nbJsnFilesOptimized
         /\ t.nbJsnFilesProcessed = s.nbJsnFilesProcessed
         /\ t.nbJsnFilesOptimized = s.nbJsnFilesOptimized + 1
         /\ t.queueSizeMax = s.queueSizeMax
BY DEF Statistics, StartupCounters, Found

(* The counters of requests are apart. *)
LEMMA RequestCounts ==
  ASSUME NEW s \in Statistics, NEW fu \in FUCounters, NEW t, t = [s EXCEPT !.fu = fu]
  PROVE  t \in Statistics /\ SameCounts(t, s)
BY DEF Statistics, StartupCounters, Found, SameCounts
(* The property with the types of what it counts, and with the counters    *)
(* that are still zero when the vector is filled.                          *)
Unlisted == runner \in {"none", "watch", "ERROR", "NORUN", "explain", "list"}

FilesInv ==
  /\ TypeOK
  /\ stats \in Statistics
  /\ served \in [given : Nat, stopped : Nat]
  /\ starter = "new" => runner = "none"
  /\ Unlisted => files = NoFiles
  /\ Unlisted \/ runner = "listing" =>
       /\ Found(stats) = 0 /\ stats.startup.nbJsnFiles = 0
       /\ stats.startup.nbJsnFilesOptimized = 0
       /\ stats.nbJsnFilesProcessed = 0
  /\ inHand \in BOOLEAN
  /\ Unlisted \/ runner = "listing" => ~inHand
  /\ FilesAccountedFor

LEMMA InitFiles == SInit => FilesInv
<1> SUFFICES ASSUME SInit PROVE FilesInv
  OBVIOUS
<1>1. TypeOK /\ runner = "none" /\ starter = "new" /\ files = NoFiles /\ queue = NoFiles
  BY InitType DEF SInit, Init
<1>2. served = [given |-> 0, stopped |-> 0] /\ stats = NoStatistics /\ inHand = FALSE
  BY DEF SInit
<1>3. /\ stats \in Statistics /\ Found(stats) = 0
      /\ stats.startup.nbJsnFiles = 0 /\ stats.startup.nbJsnFilesOptimized = 0
      /\ stats.nbJsnFilesProcessed = 0 /\ stats.nbJsnFilesOptimized = 0
      /\ stats.queueSizeMax = 0
  BY <1>2 DEF NoStatistics, Statistics, StartupCounters, FUCounters, Found
<1>4. ~inHand /\ InHand = 0 /\ served.given = 0
  BY <1>2 DEF InHand
<1>5. FilesAccountedFor
  BY <1>1, <1>3, <1>4, NoFilesSize DEF FilesAccountedFor
<1>6. served \in [given : Nat, stopped : Nat] /\ inHand \in BOOLEAN
  BY <1>2
<1> QED
  BY <1>1, <1>3, <1>4, <1>5, <1>6 DEF FilesInv

LEMMA SizeTypes ==
  ASSUME TypeOK
  PROVE  /\ Size(files) \in Nat /\ Size(queue) \in Nat
         /\ \A f \in Held(files) : Size(files) > 0
         /\ \A f \in Held(queue) : Size(queue) > 0
BY SizeFacts DEF TypeOK

(* A step that finds, skips, pushes and pops nothing. *)
LEMMA UncountedStep ==
  ASSUME FilesInv, TypeOK', UNCHANGED <<files, queue, inHand>>,
         stats' \in Statistics, SameCounts(stats', stats),
         served' \in [given : Nat, stopped : Nat], served'.given = served.given,
         starter' = "new" => runner' = "none", Unlisted' => Unlisted,
         runner' = "listing" <=> runner = "listing"
  PROVE  FilesInv'
BY DEF FilesInv, FilesAccountedFor, InHand, SameCounts, Unlisted

LEMMA SNextType == TypeOK /\ [SNext]_allVars => TypeOK'
<1> SUFFICES ASSUME TypeOK, [SNext]_allVars PROVE TypeOK'
  OBVIOUS
<1>1. [Next]_vars
  <2>1. CASE Uncounted
    BY <2>1 DEF Uncounted, Next, InotifyRunner, RunnerWorks
  <2>2. CASE CountListed \/ CountSeen \/ CountDrained \/ CountEvent \/ CountEmpty
    BY <2>2 DEF CountListed, CountSeen, CountDrained, CountEvent, CountEmpty, Next, InotifyRunner,
                RunnerWorks, PopRunFile, PopStep
  <2>3. ASSUME NEW f \in Files, CountSkipped(f) \/ CountPushed(f) PROVE Next
    <3>1. Optimize(f)
      BY <2>3 DEF CountSkipped, CountPushed, Optimize, OptimizeSkip, OptimizePush
    <3> QED
      BY <3>1 DEF Next, InotifyRunner, RunnerWorks
  <2>4. ASSUME NEW f \in Files, CountMarker(f) \/ CountGiven(f) \/ CountFailed(f)
        PROVE  Next
    <3>1. PopTop(f)
      BY <2>4 DEF CountMarker, CountGiven, CountFailed, PopTop, PopMarker, PopIndex,
                  PopFails, Takes, CheckFails, IsMarker
    <3> QED
      BY <3>1 DEF Next, PopRunFile, PopStep
  <2>5. ASSUME NEW stop \in StopRequests, Requested(stop) PROVE Next
    BY <2>5 DEF Requested, Next, PopRunFile
  <2>6. CASE UNCHANGED allVars
    BY <2>6 DEF allVars
  <2> QED
    BY <2>1, <2>2, <2>3, <2>4, <2>5, <2>6 DEF SNext
<1> QED
  BY <1>1, NextType

LEMMA NextFiles == FilesInv /\ [SNext]_allVars => FilesInv'
<1> SUFFICES ASSUME FilesInv, [SNext]_allVars PROVE FilesInv'
  OBVIOUS
<1> USE DEF dirVars, runnerVars, fuVars, popVars
<1>1. TypeOK /\ TypeOK' /\ stats \in Statistics /\ served \in [given : Nat, stopped : Nat]
  BY SNextType DEF FilesInv
<1>2. CASE UNCHANGED allVars
  BY <1>1, <1>2, UncountedStep DEF allVars, vars, FilesInv, Unlisted, SameCounts
<1>3. CASE Uncounted
  <2>1. stats' \in Statistics /\ SameCounts(stats', stats) /\ UNCHANGED <<served, inHand>>
    BY <1>1, <1>3 DEF Uncounted, SameCounts
  <2>2. CASE ListBegin
    <3>1. runner = "list" /\ runner' = "listing" /\ UNCHANGED <<queue, starter>>
      BY <2>2 DEF ListBegin
    <3> QED
      BY <1>1, <2>1, <3>1 DEF FilesInv, FilesAccountedFor, InHand, SameCounts, Unlisted
  <2>3. CASE BU \/ Starter
    BY <1>1, <2>1, <2>3, UncountedStep
    DEF BU, Starter, StartThread, StartSetsRunState, StartSetsFUState, FilesInv, Unlisted
  <2>4. CASE \/ RunnerThrows \/ AddWatch \/ AddWatchFails \/ FailFUState
             \/ SetErrorMessage
    BY <1>1, <2>1, <2>4, UncountedStep
    DEF RunnerThrows, AddWatch, AddWatchFails, WatchError, FailFUState, SetErrorMessage,
        FilesInv, Unlisted
  <2>5. CASE \/ DrainRead \/ DrainDone \/ OptimizeDone \/ CheckQueue \/ SetFUState
             \/ ReadEvents \/ EndBatch
    BY <1>1, <2>1, <2>5, UncountedStep
    DEF DrainRead, DrainDone, OptimizeDone, CheckQueue, StateToSet, SetFUState,
        ReadEvents, EndBatch, FilesInv, Unlisted
  <2> QED
    BY <1>3, <2>2, <2>3, <2>4, <2>5 DEF Uncounted
<1>4. CASE CountListed
  <2>1. /\ runner = "listing" /\ runner' = "drain" /\ UNCHANGED <<queue, served, starter, inHand>>
        /\ stats' = AfterListing(stats, Size(files'))
    BY <1>4 DEF CountListed, ListEnd, AfterListing
  <2>2. Size(files') \in Nat
    BY <1>1, SizeFacts DEF TypeOK
  <2>3. /\ stats' \in Statistics
        /\ Found(stats') = Found(stats) - stats.startup.nbJsnFiles + Size(files')
        /\ stats'.startup.nbJsnFilesOptimized = stats.startup.nbJsnFilesOptimized
        /\ stats'.nbJsnFilesProcessed = stats.nbJsnFilesProcessed
        /\ stats'.nbJsnFilesOptimized = stats.nbJsnFilesOptimized
        /\ stats'.queueSizeMax = stats.queueSizeMax
    <3>1. PICK n \in Nat : n = Size(files')
      BY <2>2
    <3>2. stats' = AfterListing(stats, n)
      BY <2>1, <3>1
    <3>3. stats \in Statistics
      BY <1>1
    <3>4. /\ stats' \in Statistics
          /\ Found(stats') = Found(stats) - stats.startup.nbJsnFiles + n
          /\ stats'.startup.nbJsnFilesOptimized = stats.startup.nbJsnFilesOptimized
          /\ stats'.nbJsnFilesProcessed = stats.nbJsnFilesProcessed
          /\ stats'.nbJsnFilesOptimized = stats.nbJsnFilesOptimized
          /\ stats'.queueSizeMax = stats.queueSizeMax
      BY ONLY <3>2, <3>3, ListedCounts
    <3> QED
      BY <3>1, <3>4
  <2> QED
    BY <1>1, <2>1, <2>2, <2>3 DEF FilesInv, FilesAccountedFor, InHand, Unlisted
<1>5. CASE CountDrained
  <2> DEFINE f == Head(events)
  <2>1. /\ runner = "drain" /\ runner' = "drain" /\ UNCHANGED <<queue, served, starter>>
        /\ files' = PushBackIfNew(files, f)
        /\ inHand = TRUE /\ inHand' = FALSE
        /\ f \in Files
    BY <1>1, <1>5, EventOperations DEF CountDrained, DrainEvent, TypeOK, DirTypeOK, FilesInv
  <2>2. /\ Duplicates(f) \in {0, 1}
        /\ Size(files') = Size(files) + 1 - Duplicates(f)
    <3>1. files[f] \in Nat /\ Size(files) \in Nat /\ Size(With(files, f)) = Size(files) + 1
      BY <1>1, <2>1, SizeFacts DEF TypeOK, IsBag
    <3> QED
      BY <2>1, <3>1 DEF Duplicates, PushBackIfNew
  <2>3. stats' = AfterDraining(stats, Duplicates(f))
    BY <1>5 DEF CountDrained, AfterDraining
  <2>4. /\ stats' \in Statistics
        /\ Found(stats') = Found(stats) - Duplicates(f)
        /\ stats'.startup.nbJsnFilesOptimized = stats.startup.nbJsnFilesOptimized
        /\ stats'.nbJsnFilesProcessed = stats.nbJsnFilesProcessed
        /\ stats'.nbJsnFilesOptimized = stats.nbJsnFilesOptimized
        /\ stats'.queueSizeMax = stats.queueSizeMax
    <3>1. PICK n \in Nat : n = Duplicates(f)
      BY <2>2
    <3>2. stats' = AfterDraining(stats, n)
      BY <2>3, <3>1
    <3>3. stats \in Statistics
      BY <1>1
    <3>4. /\ stats' \in Statistics
          /\ Found(stats') = Found(stats) - n
          /\ stats'.startup.nbJsnFilesOptimized = stats.startup.nbJsnFilesOptimized
          /\ stats'.nbJsnFilesProcessed = stats.nbJsnFilesProcessed
          /\ stats'.nbJsnFilesOptimized = stats.nbJsnFilesOptimized
          /\ stats'.queueSizeMax = stats.queueSizeMax
      BY ONLY <3>2, <3>3, DrainedCounts
    <3> QED
      BY <3>1, <3>4
  <2>6. InHand = 1 /\ InHand' = 0 /\ ~inHand' /\ inHand' \in BOOLEAN
    BY <2>1 DEF InHand
  <2>5. Found(stats) \in Int /\ Size(files) \in Nat
    BY <1>1, CounterTypes, SizeTypes
  <2> QED
    BY <1>1, <2>1, <2>2, <2>4, <2>5, <2>6, CounterTypes
    DEF FilesInv, FilesAccountedFor, Unlisted
<1>6. ASSUME NEW f \in Files, CountSkipped(f) PROVE FilesInv'
  <2>1. /\ runner = "optimize" /\ runner' = "optimize" /\ UNCHANGED <<queue, served, starter, inHand>>
        /\ f \in Held(files) /\ files' = Without(files, f)
        /\ stats' = [stats EXCEPT !.startup.nbJsnFilesOptimized = @ + 1]
    BY <1>6 DEF CountSkipped, OptimizeSkip, NextFile, IsLeast
  <2>2. Size(files) \in Nat /\ Size(files') = Size(files) - 1
    BY <1>1, <2>1, SizeFacts DEF TypeOK
  <2> QED
    BY <1>1, <2>1, <2>2, SkippedCounts, CounterTypes DEF FilesInv, FilesAccountedFor, InHand, Unlisted
<1>7. ASSUME NEW f \in Files, CountPushed(f) PROVE FilesInv'
  <2>1. /\ runner = "optimize" /\ runner' = "optimize" /\ UNCHANGED <<served, starter, inHand>>
        /\ f \in Held(files) /\ files' = Without(files, f) /\ queue' = With(queue, f)
        /\ stats' = CountPush(stats)
    BY <1>7 DEF CountPushed, OptimizePush, Push, NextFile, IsLeast
  <2>2. /\ Size(files) \in Nat /\ Size(files') = Size(files) - 1
        /\ Size(queue) \in Nat /\ Size(queue') = Size(queue) + 1
        /\ IsBag(queue')
    BY <1>1, <2>1, SizeFacts DEF TypeOK
  <2> QED
    BY <1>1, <2>1, <2>2, PushedCounts, CounterTypes DEF FilesInv, FilesAccountedFor, InHand, Unlisted
<1>14. CASE CountSeen
  <2>1. /\ runner \in {"drain", "batch"} /\ UNCHANGED <<files, queue, runner, served, starter>>
        /\ inHand = FALSE /\ inHand' = TRUE
    BY <1>14 DEF CountSeen, vars, FilesInv
  <2>2. /\ stats' \in Statistics
        /\ Found(stats') = Found(stats) + 1
        /\ stats'.startup.nbJsnFilesOptimized = stats.startup.nbJsnFilesOptimized
        /\ stats'.nbJsnFilesProcessed = stats.nbJsnFilesProcessed
        /\ stats'.nbJsnFilesOptimized = stats.nbJsnFilesOptimized
        /\ stats'.queueSizeMax = stats.queueSizeMax
    BY <1>1, <1>14, SeenCounts DEF CountSeen
  <2> QED
    BY <1>1, <2>1, <2>2, SizeTypes, CounterTypes
    DEF FilesInv, FilesAccountedFor, InHand, Unlisted
<1>8. CASE CountEvent
  <2> DEFINE f == Head(events)
  <2>1. /\ runner = "batch" /\ runner' = "batch" /\ UNCHANGED <<files, served, starter>>
        /\ inHand = TRUE /\ inHand' = FALSE
        /\ queue' = With(queue, f) /\ f \in Files
        /\ stats' = CountPush(stats)
    BY <1>1, <1>8, EventOperations
    DEF CountEvent, ProcessEvent, Push, TypeOK, DirTypeOK, FilesInv
  <2>2. /\ Size(files) \in Nat
        /\ Size(queue) \in Nat /\ Size(queue') = Size(queue) + 1
        /\ IsBag(queue')
    BY <1>1, <2>1, SizeFacts DEF TypeOK
  <2>3. InHand = 1 /\ InHand' = 0 /\ ~inHand' /\ inHand' \in BOOLEAN
    BY <2>1 DEF InHand
  <2> QED
    BY <1>1, <2>1, <2>2, <2>3, PushedCounts, CounterTypes
    DEF FilesInv, FilesAccountedFor, Unlisted
<1>9. CASE CountEmpty
  <2> DEFINE waits == IF Held(queue) = {} THEN 0 ELSE 1
             fu == [stats.fu EXCEPT !.nbEmptyReplies = @ + 1, !.nbWaitsForEoLS = @ + waits]
  <2>1. UNCHANGED <<files, queue, runner, served, starter, inHand>>
    BY <1>9 DEF CountEmpty, PopFindsNothing
  <2>2. stats' = [stats EXCEPT !.fu = fu]
    BY <1>1, <1>9 DEF CountEmpty, Empty, Statistics, FUCounters
  <2>3. fu \in FUCounters
    <3>1. stats.fu \in FUCounters /\ waits \in Nat
      BY <1>1, CounterTypes
    <3> HIDE DEF waits
    <3> QED
      BY ONLY <3>1, CountAnEmptyReply DEF fu
  <2> HIDE DEF fu
  <2> QED
    BY <1>1, <2>1, <2>2, <2>3, RequestCounts, UncountedStep DEF FilesInv, Unlisted
<1>10. ASSUME NEW f \in Files, CountMarker(f) PROVE FilesInv'
  <2>1. /\ UNCHANGED <<files, runner, served, starter, inHand>>
        /\ f \in Held(queue) /\ queue' = Without(queue, f)
        /\ stats' = [stats EXCEPT !.nbJsnFilesOptimized = @ + 1]
    BY <1>10 DEF CountMarker, PopMarker, Takes, Top, IsLeast
  <2>2. Size(files) \in Nat /\ Size(queue) \in Nat /\ Size(queue') = Size(queue) - 1
    BY <1>1, <2>1, SizeFacts DEF TypeOK
  <2> QED
    BY <1>1, <2>1, <2>2, MarkerCounts, CounterTypes DEF FilesInv, FilesAccountedFor, InHand, Unlisted
<1>11. ASSUME NEW f \in Files, CountGiven(f) PROVE FilesInv'
  <2>1. /\ UNCHANGED <<files, runner, stats, starter, inHand>>
        /\ f \in Held(queue) /\ queue' = Without(queue, f)
        /\ served' = [served EXCEPT !.given = @ + 1]
    BY <1>11 DEF CountGiven, PopIndex, Takes, Top, IsLeast
  <2>2. Size(queue) \in Nat /\ Size(queue') = Size(queue) - 1
    BY <1>1, <2>1, SizeFacts DEF TypeOK
  <2>3. served' \in [given : Nat, stopped : Nat] /\ served'.given = served.given + 1
    BY <1>1, <2>1
  <2>4. FilesAccountedFor'
    <3>1. UNCHANGED <<files, runner, stats, inHand>>
      BY <2>1
    <3>2. FilesAccountedFor
      BY DEF FilesInv
    <3>3. served.given \in Nat
      BY <1>1
    <3> QED
      BY <1>1, <2>2, <2>3, <3>1, <3>2, <3>3, CounterTypes DEF FilesAccountedFor, InHand
  <2> QED
    BY <1>1, <2>1, <2>3, <2>4 DEF FilesInv, Unlisted
<1>12. ASSUME NEW f \in Files, CountFailed(f) PROVE FilesInv'
  BY <1>1, <1>12, UncountedStep DEF CountFailed, PopFails, FilesInv, Unlisted, SameCounts
<1>13. ASSUME NEW stop \in StopRequests, Requested(stop) PROVE FilesInv'
  <2>1. UNCHANGED <<files, queue, runner, starter, inHand>>
    BY <1>13 DEF Requested, PopBegin, PopStops
  <2>2. served' \in [given : Nat, stopped : Nat] /\ served'.given = served.given
    BY <1>1, <1>13 DEF Requested
  <2>3. PICK fu \in FUCounters : stats' = [stats EXCEPT !.fu = fu]
    <3> DEFINE counted == [stats.fu EXCEPT !.nbRequests = @ + 1]
    <3>1. counted \in FUCounters
      BY <1>1, CounterTypes DEF FUCounters
    <3>2. [counted EXCEPT !.stopLS = stop] \in FUCounters
      <4> HIDE DEF counted
      <4> QED
        BY <3>1, RequestsAssumption DEF FUCounters
    <3>3. \/ stats' = [stats EXCEPT !.fu = counted]
          \/ stats' = [stats EXCEPT !.fu = [counted EXCEPT !.stopLS = stop]]
      BY <1>1, <1>13 DEF Requested, Statistics
    <3> HIDE DEF counted
    <3> QED
      BY <3>1, <3>2, <3>3
  <2> QED
    BY <1>1, <2>1, <2>2, <2>3, RequestCounts, UncountedStep DEF FilesInv, Unlisted
<1> QED
  BY <1>2, <1>3, <1>4, <1>5, <1>6, <1>7, <1>8, <1>9, <1>10, <1>11, <1>12, <1>13, <1>14
  DEF SNext

(* In the numbers of /stats every file is counted once on each side,       *)
(* however often it is listed and reported, and the queue never exceeds    *)
(* the size shown for it.                                                  *)
THEOREM FilesCounted == SSpec => []FilesAccountedFor
<1>1. FilesInv => FilesAccountedFor
  BY DEF FilesInv
<1> QED
  BY <1>1, InitFiles, NextFiles, PTL DEF SSpec

=============================================================================
