------------------------ MODULE RunDirectoryObserver ------------------------
(***************************************************************************)
(* bu::RunDirectoryObserver (src/src/bu/RunDirectoryObserver.{h,cc}): one  *)
(* run directory, the detached thread that watches it (the runner), the    *)
(* thread that called start() (the starter), and the FU requests that pop  *)
(* files from the queue between them.                                      *)
(*                                                                         *)
(* runDirectoryObserverLock protects pushFile and popRunFile; everything   *)
(* else here is read and written without it, and the steps are cut there.  *)
(* A process that has failed (an assertion, or an exception that leaves a  *)
(* thread) takes no more steps.                                            *)
(*                                                                         *)
(* Left out: the counters of getStats(), which ObserverStatistics adds, and*)
(* isRunning and stopRequest, whose one user, stopAndWait(), nothing calls.*)
(***************************************************************************)
EXTENDS RunDirectory

CONSTANTS
  ReadBatch,      \* events that fit the buffer of one inotify read
  StopRequests    \* the stopls values FUs send; -1 is a request without one

ASSUME RequestsAssumption ==
  /\ ReadBatch \in Nat \ {0}
  /\ StopRequests \subseteq Int

VARIABLES
  starter,      \* progress of start()
  runner,       \* where the inotify thread is
  runState,     \* stats.run.state
  runLastEoLS,  \* stats.run.lastEoLS
  files,        \* the runner's vector of files found at startup, as a bag
  sawIndex,     \* sawIndexFile of optimizeAndPushFiles
  errorSet,     \* errorMessage has been assigned
  queue,        \* the priority queue, as a bag
  fuState,      \* stats.fu.state
  fuLastEoLS,   \* stats.fu.lastEoLS
  lastPopped,   \* stats.fu.lastPoppedFile
  popping,      \* a popRunFile holds the lock and is in its loop
  popStop,      \* its stopLS
  reply,        \* what the last popRunFile returned
  failed,       \* how the process died, or "no"
  consumed      \* history: files popped, and markers skipped at startup

runnerVars == <<runner, runState, runLastEoLS, files, sawIndex, errorSet>>
fuVars     == <<fuState, fuLastEoLS, lastPopped>>
popVars    == <<popping, popStop, reply>>
vars == <<dirVars, starter, runnerVars, queue, fuVars, popVars, failed, consumed>>

State == {"INIT", "STARTING", "READY", "EOLS", "EOR", "ERROR", "NORUN"}

(* Bags of files, as functions into Nat. *)
NoFiles       == [f \in Files |-> 0]
With(b, f)    == [b EXCEPT ![f] = @ + 1]
Without(b, f) == [b EXCEPT ![f] = @ - 1]
Held(b)       == {f \in Files : b[f] > 0}
IsBag(b)      == b \in [Files -> Nat]

NoReply == [file |-> NoFile, state |-> "INIT", lastEoLS |-> 0, stop |-> -1]

TypeOK ==
  /\ DirTypeOK
  /\ starter \in {"new", "spawned", "stored", "done"}
  /\ runner \in {"none", "watch", "ERROR", "NORUN", "explain", "list",
                 "listing", "drain", "optimize", "check", "setRunState",
                 "setReady", "read", "batch", "stopped"}
  /\ runState \in State
  /\ runLastEoLS \in 0 .. MaxLumiSection
  /\ IsBag(files)
  /\ sawIndex \in BOOLEAN
  /\ errorSet \in BOOLEAN
  /\ IsBag(queue)
  /\ fuState \in State
  /\ fuLastEoLS \in 0 .. MaxLumiSection
  /\ lastPopped \in Files \cup {NoFile}
  /\ popping \in BOOLEAN
  /\ popStop \in StopRequests \cup {-1}
  /\ reply \in [file : Files \cup {NoFile}, state : State,
                lastEoLS : Int, stop : StopRequests \cup {-1}]
  /\ failed \in {"no", "check", "exception"}
  /\ IsBag(consumed)

Init ==
  /\ DirInit
  /\ starter = "new"
  /\ runner = "none"
  /\ runState = "INIT"
  /\ runLastEoLS = 0
  /\ files = NoFiles
  /\ sawIndex = FALSE
  /\ errorSet = FALSE
  /\ queue = NoFiles
  /\ fuState = "INIT"
  /\ fuLastEoLS = 0
  /\ lastPopped = NoFile
  /\ popping = FALSE
  /\ popStop = -1
  /\ reply = NoReply
  /\ failed = "no"
  /\ consumed = NoFiles

Up       == failed = "no"
LockFree == ~popping
Top(f)   == IsLeast(f, Held(queue))

(* updateStats: the state a file puts its reader in, and the last EoLS. *)
StateAfter(f) ==
  IF IsEoLS(f) THEN "EOLS" ELSE IF IsEoR(f) THEN "EOR" ELSE "READY"

LastEoLSAfter(f, last) == IF IsEoLS(f) THEN f.lumiSection ELSE last

-----------------------------------------------------------------------------
(***************************************************************************)
(* start(): the thread runs from its creation, the states are stored later *)
(***************************************************************************)

StartThread ==
  /\ Up
  /\ starter = "new"
  /\ starter' = "spawned"
  /\ runner' = "watch"
  /\ UNCHANGED <<dirVars, runState, runLastEoLS, files, sawIndex, errorSet,
                 queue, fuVars, popVars, failed, consumed>>

StartSetsRunState ==
  /\ Up
  /\ starter = "spawned"
  /\ starter' = "stored"
  /\ runState' = "STARTING"
  /\ UNCHANGED <<dirVars, runner, runLastEoLS, files, sawIndex, errorSet,
                 queue, fuVars, popVars, failed, consumed>>

StartSetsFUState ==
  /\ Up
  /\ starter = "stored"
  /\ starter' = "done"
  /\ fuState' = "STARTING"
  /\ UNCHANGED <<dirVars, runnerVars, queue, fuLastEoLS, lastPopped, popVars,
                 failed, consumed>>

Starter == StartThread \/ StartSetsRunState \/ StartSetsFUState

-----------------------------------------------------------------------------
(***************************************************************************)
(* inotifyRunner(), phase I: watch, list, drain the events raised meanwhile*)
(***************************************************************************)

(* A system call other than add_watch fails: the exception leaves the      *)
(* thread and terminates the process.                                      *)
RunnerThrows ==
  /\ Up
  /\ runner \in {"watch", "list", "listing", "drain", "read"}
  /\ failed' = "exception"
  /\ UNCHANGED <<dirVars, starter, runnerVars, queue, fuVars, popVars, consumed>>

AddWatch ==
  /\ Up
  /\ runner = "watch"
  /\ InstallWatch
  /\ runner' = "list"
  /\ UNCHANGED <<starter, runState, runLastEoLS, files, sawIndex, errorSet,
                 queue, fuVars, popVars, failed, consumed>>

(* ENOENT gives NORUN, any other error ERROR. *)
WatchError == IF dirExists THEN "ERROR" ELSE "NORUN"

AddWatchFails ==
  /\ Up
  /\ runner = "watch"
  /\ runState' = WatchError
  /\ runner' = WatchError
  /\ UNCHANGED <<dirVars, starter, runLastEoLS, files, sawIndex, errorSet,
                 queue, fuVars, popVars, failed, consumed>>

(* The state of the FUs is stored second, and without the lock either. *)
FailFUState ==
  /\ Up
  /\ runner \in {"ERROR", "NORUN"}
  /\ fuState' = runner
  /\ runner' = "explain"
  /\ UNCHANGED <<dirVars, starter, runState, runLastEoLS, files, sawIndex,
                 errorSet, queue, fuLastEoLS, lastPopped, popVars, failed,
                 consumed>>

(* The message follows the states it explains; the thread returns. *)
SetErrorMessage ==
  /\ Up
  /\ runner = "explain"
  /\ errorSet' = TRUE
  /\ runner' = "stopped"
  /\ UNCHANGED <<dirVars, starter, runState, runLastEoLS, files, sawIndex,
                 queue, fuVars, popVars, failed, consumed>>

(* The directory is read while the BU writes to it: every file there when  *)
(* the listing starts is found, one that arrives meanwhile may be.         *)
ListBegin ==
  /\ Up
  /\ runner = "list"
  /\ files' = [f \in Files |-> IF f \in dir THEN 1 ELSE 0]
  /\ runner' = "listing"
  /\ UNCHANGED <<dirVars, starter, runState, runLastEoLS, sawIndex, errorSet,
                 queue, fuVars, popVars, failed, consumed>>

ListEnd ==
  /\ Up
  /\ runner = "listing"
  /\ \E late \in SUBSET (dir \ Held(files)) :
       files' = [f \in Files |-> IF f \in late THEN 1 ELSE files[f]]
  /\ runner' = "drain"
  /\ UNCHANGED <<dirVars, starter, runState, runLastEoLS, sawIndex, errorSet,
                 queue, fuVars, popVars, failed, consumed>>

(* hasEvent(), then read() *)
DrainRead ==
  /\ Up
  /\ runner = "drain"
  /\ batch = 0
  /\ Read(ReadBatch)
  /\ UNCHANGED <<starter, runnerVars, queue, fuVars, popVars, failed, consumed>>

(* Plausible slip: the search for duplicates forgotten. *)
PushBack(b, f) == With(b, f)

PushBackIfNew(b, f) == IF b[f] = 0 THEN With(b, f) ELSE b

DrainEvent ==
  /\ Up
  /\ runner = "drain"
  /\ batch > 0
  /\ files' = PushBackIfNew(files, Head(events))
  /\ NextEvent
  /\ UNCHANGED <<starter, runner, runState, runLastEoLS, sawIndex, errorSet,
                 queue, fuVars, popVars, failed, consumed>>

(* No event waits: the files are sorted and handed to the optimizer. *)
DrainDone ==
  /\ Up
  /\ runner = "drain"
  /\ batch = 0
  /\ ~HasEvent
  /\ runner' = "optimize"
  /\ UNCHANGED <<dirVars, starter, runState, runLastEoLS, files, sawIndex,
                 errorSet, queue, fuVars, popVars, failed, consumed>>

-----------------------------------------------------------------------------
(***************************************************************************)
(* Phase II: optimizeAndPushFiles(), then the first FU state               *)
(***************************************************************************)

NextFile(f) == IsLeast(f, Held(files))

(* updateRunDirectoryStats() *)
RunStats(f) ==
  /\ runState' = StateAfter(f)
  /\ runLastEoLS' = LastEoLSAfter(f, runLastEoLS)

(* pushFile() *)
Push(f) ==
  /\ LockFree
  /\ queue' = With(queue, f)

(* A marker before the first index file is skipped; FUs only learn of the  *)
(* last EoLS.                                                              *)
OptimizeSkip(f) ==
  /\ Up
  /\ runner = "optimize"
  /\ NextFile(f)
  /\ ~sawIndex /\ IsMarker(f)
  /\ RunStats(f)
  /\ fuLastEoLS' = runLastEoLS'
  /\ files' = Without(files, f)
  /\ consumed' = With(consumed, f)
  /\ UNCHANGED <<dirVars, starter, runner, sawIndex, errorSet, queue, fuState,
                 lastPopped, popVars, failed>>

OptimizePush(f) ==
  /\ Up
  /\ runner = "optimize"
  /\ NextFile(f)
  /\ sawIndex \/ ~IsMarker(f)
  /\ sawIndex' = TRUE
  /\ RunStats(f)
  /\ Push(f)
  /\ files' = Without(files, f)
  /\ UNCHANGED <<dirVars, starter, runner, errorSet, fuVars, popVars, failed,
                 consumed>>

Optimize(f) == IF sawIndex \/ ~IsMarker(f) THEN OptimizePush(f) ELSE OptimizeSkip(f)

OptimizeDone ==
  /\ Up
  /\ runner = "optimize"
  /\ Held(files) = {}
  /\ runner' = "check"
  /\ UNCHANGED <<dirVars, starter, runState, runLastEoLS, files, sawIndex,
                 errorSet, queue, fuVars, popVars, failed, consumed>>

(* Plausible slip: the queue never looked at. *)
StateOfEmptyQueue == {"setRunState"}

(* queue.empty(), without the lock *)
StateToSet == IF Held(queue) = {} THEN {"setRunState"} ELSE {"setReady"}

CheckQueue ==
  /\ Up
  /\ runner = "check"
  /\ runner' \in StateToSet
  /\ UNCHANGED <<dirVars, starter, runState, runLastEoLS, files, sawIndex,
                 errorSet, queue, fuVars, popVars, failed, consumed>>

(* The store the check decided on, without the lock either *)
SetFUState ==
  /\ Up
  /\ runner \in {"setRunState", "setReady"}
  /\ fuState' = IF runner = "setReady" THEN "READY" ELSE runState
  /\ runner' = "read"
  /\ UNCHANGED <<dirVars, starter, runState, runLastEoLS, files, sawIndex,
                 errorSet, queue, fuLastEoLS, lastPopped, popVars, failed,
                 consumed>>

-----------------------------------------------------------------------------
(***************************************************************************)
(* Phase III: the main loop                                                *)
(***************************************************************************)

ReadEvents ==
  /\ Up
  /\ runner = "read"
  /\ Read(ReadBatch)
  /\ runner' = "batch"
  /\ UNCHANGED <<starter, runState, runLastEoLS, files, sawIndex, errorSet,
                 queue, fuVars, popVars, failed, consumed>>

ProcessEvent ==
  /\ Up
  /\ runner = "batch"
  /\ batch > 0
  /\ RunStats(Head(events))
  /\ Push(Head(events))
  /\ NextEvent
  /\ UNCHANGED <<starter, runner, files, sawIndex, errorSet, fuVars, popVars,
                 failed, consumed>>

(* Plausible slip: what FUs were told looked at. *)
EndSeenByFUs == fuState = "EOR"

(* Plausible slip: a lumisection's end taken for the run's. *)
EndSeenAtEoLS == runState \in {"EOLS", "EOR"}

EndSeen == runState = "EOR"

EndBatch ==
  /\ Up
  /\ runner = "batch"
  /\ batch = 0
  /\ IF EndSeen THEN runner' = "stopped" /\ CloseWatch
                ELSE runner' = "read" /\ UNCHANGED dirVars
  /\ UNCHANGED <<starter, runState, runLastEoLS, files, sawIndex, errorSet,
                 queue, fuVars, popVars, failed, consumed>>

RunnerWorks ==
  \/ AddWatch \/ AddWatchFails \/ FailFUState \/ SetErrorMessage
  \/ ListBegin \/ ListEnd \/ DrainRead \/ DrainEvent \/ DrainDone
  \/ \E f \in Files : Optimize(f)
  \/ OptimizeDone \/ CheckQueue \/ SetFUState
  \/ ReadEvents \/ ProcessEvent \/ EndBatch

InotifyRunner == RunnerWorks \/ RunnerThrows

-----------------------------------------------------------------------------
(***************************************************************************)
(* popRunFile(): entered with the lock, left when the loop ends.  Requests *)
(* find the observer through the manager, whose lock start() runs under.   *)
(***************************************************************************)

IsStopLS(stop) ==
  /\ stop >= 0
  /\ \/ \E f \in Files :
          /\ Top(f)
          /\ \/ f.lumiSection = stop /\ IsEoLS(f)
             \/ f.lumiSection > stop
     \/ Held(queue) = {} /\ fuLastEoLS >= stop

Reply(file, state, lastEoLS, stop) ==
  reply' = [file |-> file, state |-> state, lastEoLS |-> lastEoLS, stop |-> stop]

PopStops(stop) ==
  /\ Up
  /\ starter = "done" /\ LockFree
  /\ IsStopLS(stop)
  /\ Reply(NoFile, "EOR", stop, stop)
  /\ UNCHANGED <<dirVars, starter, runnerVars, queue, fuVars, popping, popStop,
                 failed, consumed>>

PopBegin(stop) ==
  /\ Up
  /\ starter = "done" /\ LockFree
  /\ ~IsStopLS(stop)
  /\ popping' = TRUE
  /\ popStop' = stop
  /\ reply' = NoReply
  /\ UNCHANGED <<dirVars, starter, runnerVars, queue, fuVars, failed, consumed>>

PopReturns(file, state, lastEoLS) ==
  /\ popping' = FALSE
  /\ popStop' = -1
  /\ Reply(file, state, lastEoLS, popStop)

(* Plausible slip: the lumisection not compared. *)
IsNeverLate(f) == FALSE

IsLate(f) == ~IsEoR(f) /\ f.lumiSection <= fuLastEoLS

(* Plausible slip: a lumisection may be opened before the previous closes. *)
MustWaitOneMore(f) == ~IsEoR(f) /\ f.lumiSection > fuLastEoLS + 2

(* Plausible slip: the next lumisection is not allowed either. *)
MustWaitAlways(f) == ~IsEoR(f) /\ f.lumiSection >= fuLastEoLS + 1

MustWait(f) == ~IsEoR(f) /\ f.lumiSection > fuLastEoLS + 1

(* The queue is empty, or its first file is of a lumisection that must     *)
(* wait for an EoLS: the reply has no file.                                *)
PopFindsNothing ==
  /\ Up
  /\ popping
  /\ \A f \in Files : Top(f) => MustWait(f)
  /\ PopReturns(NoFile, fuState, fuLastEoLS)
  /\ UNCHANGED <<dirVars, starter, runnerVars, queue, fuVars, failed, consumed>>

(* A file pops out of order behind one of a later lumisection. *)
OrderBroken(f) ==
  /\ lastPopped # NoFile
  /\ lastPopped.lumiSection > f.lumiSection
  /\ ~IsEoR(f)

CheckFails(f) ==
  \/ IsLate(f)
  \/ ~MustWait(f) /\ OrderBroken(f)
  \/ IsEoR(f) /\ Held(Without(queue, f)) # {}

(* A consistency check fails: an assertion aborts the process, or the      *)
(* exception leaves a server thread, with f still in the queue or already  *)
(* popped.                                                                 *)
PopFails(f) ==
  /\ Up
  /\ popping
  /\ Top(f)
  /\ CheckFails(f)
  /\ failed' = "check"
  /\ UNCHANGED <<dirVars, starter, runnerVars, queue, fuVars, popVars, consumed>>

Takes(f) ==
  /\ Up
  /\ popping
  /\ Top(f)
  /\ ~IsLate(f) /\ ~MustWait(f)
  /\ queue' = Without(queue, f)

(* updateFUStats() *)
FUStats(f) ==
  /\ fuState' = StateAfter(f)
  /\ fuLastEoLS' = LastEoLSAfter(f, fuLastEoLS)
  /\ lastPopped' = f
  /\ consumed' = With(consumed, f)

(* A marker is not for FUs: the loop goes on to the next file. *)
PopMarker(f) ==
  /\ Takes(f)
  /\ IsMarker(f) /\ ~OrderBroken(f)
  /\ IsEoR(f) => Held(queue') = {}
  /\ FUStats(f)
  /\ UNCHANGED <<dirVars, starter, runnerVars, popVars, failed>>

PopIndex(f) ==
  /\ Takes(f)
  /\ ~IsMarker(f) /\ ~OrderBroken(f)
  /\ FUStats(f)
  /\ PopReturns(f, fuState', fuLastEoLS')
  /\ UNCHANGED <<dirVars, starter, runnerVars, failed>>

PopTop(f) == IF CheckFails(f) THEN PopFails(f) ELSE PopMarker(f) \/ PopIndex(f)

PopStep == PopFindsNothing \/ \E f \in Files : PopTop(f)

PopRunFile == PopStep \/ \E stop \in StopRequests : PopStops(stop) \/ PopBegin(stop)

-----------------------------------------------------------------------------
(* The BU and the kernel do not stop with the broker. *)
BU ==
  /\ BUNext
  /\ UNCHANGED <<starter, runnerVars, queue, fuVars, popVars, failed, consumed>>

Next == BU \/ Starter \/ InotifyRunner \/ PopRunFile

Spec == Init /\ [][Next]_vars

(***************************************************************************)
(* Fairness: the operating system runs the threads, the BU goes on with    *)
(* its run, and FUs go on asking.  They ask over the network, so the lock  *)
(* is often free and whoever wants it gets it in the end (SF).  Nothing    *)
(* makes a system call fail.                                               *)
(***************************************************************************)
Pushing == ProcessEvent \/ \E f \in Files : OptimizePush(f)

Fairness ==
  /\ WF_vars(BU)
  /\ WF_vars(Starter)
  /\ WF_vars(RunnerWorks) /\ SF_vars(Pushing)
  /\ WF_vars(PopStep) /\ SF_vars(PopBegin(-1))

FairSpec == Spec /\ Fairness

-----------------------------------------------------------------------------
(***************************************************************************)
(* Properties                                                              *)
(***************************************************************************)

(* No interleaving of the BU, the runner and the FUs trips a consistency   *)
(* check of popRunFile (the assertions of lines 411 and 443, the exception *)
(* of line 435), each of which takes the broker of all runs down.          *)
NoConsistencyFailure == failed # "check"

(* The runner has taken stock of the directory. *)
Listed ==
  \/ runner \in {"drain", "optimize", "check", "setRunState", "setReady",
                 "read", "batch"}
  \/ runner = "stopped" /\ ~errorSet

Reported(f) == {i \in 1 .. Len(events) : events[i] = f}

(* Where a complete file can be: the runner's vector, the queue, the       *)
(* inotify events, or with the FUs.                                        *)
Copies(f) == files[f] + queue[f] + consumed[f] + Cardinality(Reported(f))

(* Listing, draining and watching together miss no file, whenever it comes *)
(* to the directory: from the listing on each complete file is on its way, *)
(* unless the kernel has dropped its event.                                *)
NothingLost ==
  Up /\ Listed => \A f \in dir \ (open \cup dropped) : Copies(f) >= 1

(* A file both listed and reported by inotify is still handed out once.    *)
HandedOutOnce == \A f \in Files : consumed[f] <= 1

(* lasteols=n in a reply lets an FU close lumisections up to n: no file of *)
(* theirs is still to come, if the BU wrote their markers in time.         *)
EoLSMeansComplete ==
  \A f \in Files \ dropped :
    /\ ~IsEoR(f)
    /\ f.lumiSection <= fuLastEoLS
    /\ \A m \in Early : ~Before(f, m)
    => consumed[f] >= 1

(* state=EOR lets an FU end the run: every file of it has been given out.  *)
EoRMeansDrained ==
  fuState = "EOR" => \A f \in Files \ dropped : consumed[f] >= 1

(* Whatever the BU writes, and in whatever order it arrives, no index file *)
(* is given out behind the EoLS that closed its lumisection: the broker    *)
(* dies instead.                                                           *)
LateFilesNotGiven ==
  [][\A f, m \in Files :
       ~IsMarker(f) /\ consumed'[f] > consumed[f] /\ IsEoLS(m) /\ consumed[m] > 0
         => m.lumiSection < f.lumiSection]_vars

Flow ==
  INSTANCE FileFlow WITH published <- dir \ open,
                         consumed  <- Held(consumed),
                         lastEoLS  <- fuLastEoLS

(* The observer implements the flow of files it promises.                  *)
ImplementsFileFlow == Flow!Spec

(* FUs that keep asking get every file of a run whose directory is watched *)
(* (or the broker has died): waiting for an EoLS never becomes a deadlock, *)
(* no event is left in the kernel.                                         *)
EveryFileIsGivenOut ==
  runner = "list" ~> (~Up \/ \A f \in Files : consumed[f] >= 1)

(* RunDirectoryObserver.cc:313: a runner that gets EoR from inotify ends,  *)
(* and its watch with it, whatever the batch held besides and however the  *)
(* FUs are behind.  Not if start() has yet to store STARTING, which would  *)
(* hide the EoR; one that found EoR at startup stays in its read().        *)
EoREndsTheRunner ==
  starter # "spawned" /\ runner = "batch" /\ runState = "EOR"
    ~> runner = "stopped" \/ ~Up

(* RunDirectoryObserver.h:58-60: READY is "Waiting for new files", EOR is  *)
(* "EoR file was found": once the FU state is EOR nothing changes it, so   *)
(* that no FU waits for new files of a run that has ended.                 *)
EoRIsFinal == [][fuState = "EOR" => UNCHANGED fuState]_vars

(* RunDirectoryObserver.h:61-62: ERROR and NORUN are non recoverable.      *)
ErrorIsFinal ==
  [][(fuState \in {"ERROR", "NORUN"}) => UNCHANGED fuState]_vars

(* RunDirectoryObserver.cc:330-331: a request with stopls gets no file of  *)
(* a lumisection after it.                                                 *)
StopLSRespected ==
  reply.file # NoFile /\ reply.stop >= 0 => reply.file.lumiSection <= reply.stop
=============================================================================
