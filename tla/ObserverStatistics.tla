------------------------- MODULE ObserverStatistics -------------------------
(***************************************************************************)
(* The counters of an observer (struct Statistics of                       *)
(* src/src/bu/RunDirectoryObserver.h) that /stats shows: each step of      *)
(* RunDirectoryObserver with the counters it moves.  They decide nothing;  *)
(* what they say of the files and requests is the question here.           *)
(*                                                                         *)
(* Every name that inotify reports here is that of a file, so that         *)
(* nbAllFiles is nbJsnFiles.  The calls of read() and the index files out  *)
(* of order are not counted.                                               *)
(***************************************************************************)
EXTENDS RunDirectoryObserver

CONSTANT MaxRequests    \* bound: how many requests the FUs send

ASSUME StatisticsAssumption == MaxRequests \in Nat

VARIABLES
  stats,    \* the counters, named as in the code
  inHand,   \* the runner has counted the next event, and not yet placed its file
  served    \* history: requests that were given a file, or told to stop

allVars == <<vars, stats, inHand, served>>

(* The length of a vector or queue: its files, each numbered through its   *)
(* copies.                                                                 *)
CopiesOf(b) == UNION {{f} \X (1 .. b[f]) : f \in Files}
Size(b)     == Cardinality(CopiesOf(b))

NoStatistics ==
  [startup |-> [nbJsnFiles |-> 0, nbJsnFilesOptimized |-> 0,
                inotify |-> [nbJsnFiles |-> 0, nbJsnFilesDuplicated |-> 0]],
   inotify |-> [nbJsnFiles |-> 0],
   nbJsnFilesProcessed |-> 0,
   nbJsnFilesOptimized |-> 0,
   queueSizeMax |-> 0,
   fu |-> [nbRequests |-> 0, nbEmptyReplies |-> 0, nbWaitsForEoLS |-> 0, stopLS |-> -1]]

SInit ==
  /\ Init
  /\ stats = NoStatistics
  /\ inHand = FALSE
  /\ served = [given |-> 0, stopped |-> 0]

-----------------------------------------------------------------------------
(***************************************************************************)
(* The runner                                                              *)
(***************************************************************************)

CountListed ==
  /\ ListEnd
  /\ stats' = [stats EXCEPT !.startup.nbJsnFiles = Size(files')]
  /\ UNCHANGED <<inHand, served>>

(* The runner counts a file before it looks for the duplicate, or takes    *)
(* the lock: FUs and readers of /stats run in between.                     *)
CountSeen ==
  /\ Up
  /\ batch > 0 /\ ~inHand
  /\ \/ /\ runner = "drain"
        /\ stats' = [stats EXCEPT !.startup.inotify.nbJsnFiles = @ + 1]
     \/ /\ runner = "batch"
        /\ stats' = [stats EXCEPT !.inotify.nbJsnFiles = @ + 1]
  /\ inHand' = TRUE
  /\ UNCHANGED <<vars, served>>

(* Plausible slip: a duplicate counted as a file only. *)
DuplicatesUncounted(f) == 0

Duplicates(f) == IF files[f] > 0 THEN 1 ELSE 0

CountDrained ==
  /\ inHand /\ inHand' = FALSE
  /\ DrainEvent
  /\ stats' = [stats EXCEPT
       !.startup.inotify.nbJsnFilesDuplicated = @ + Duplicates(Head(events))]
  /\ UNCHANGED served

CountSkipped(f) ==
  /\ OptimizeSkip(f)
  /\ stats' = [stats EXCEPT !.startup.nbJsnFilesOptimized = @ + 1]
  /\ UNCHANGED <<inHand, served>>

(* What pushFile() leaves of the statistics s *)
CountPush(s) ==
  [s EXCEPT !.nbJsnFilesProcessed = @ + 1,
            !.queueSizeMax = IF Size(queue') > @ THEN Size(queue') ELSE @]

CountPushed(f) ==
  /\ OptimizePush(f)
  /\ stats' = CountPush(stats)
  /\ UNCHANGED <<inHand, served>>

CountEvent ==
  /\ inHand /\ inHand' = FALSE
  /\ ProcessEvent
  /\ stats' = CountPush(stats)
  /\ UNCHANGED served

-----------------------------------------------------------------------------
(***************************************************************************)
(* popRunFile()                                                            *)
(***************************************************************************)

Requested(stop) ==
  /\ stats.fu.nbRequests < MaxRequests
  /\ UNCHANGED inHand
  /\ \/ /\ PopBegin(stop)
        /\ stats' = [stats EXCEPT !.fu.nbRequests = @ + 1]
        /\ UNCHANGED served
     \/ /\ PopStops(stop)
        /\ stats' = [stats EXCEPT !.fu.nbRequests = @ + 1, !.fu.stopLS = stop]
        /\ served' = [served EXCEPT !.stopped = @ + 1]

(* Plausible slip: a request that waits for an EoLS is not an empty one.   *)
EmptyUnlessWaiting(s) ==
  IF Held(queue) = {} THEN [s EXCEPT !.fu.nbEmptyReplies = @ + 1]
                      ELSE [s EXCEPT !.fu.nbWaitsForEoLS = @ + 1]

Empty(s) ==
  [s EXCEPT !.fu.nbEmptyReplies = @ + 1,
            !.fu.nbWaitsForEoLS = @ + IF Held(queue) = {} THEN 0 ELSE 1]

CountEmpty ==
  /\ PopFindsNothing
  /\ stats' = Empty(stats)
  /\ UNCHANGED <<inHand, served>>

CountMarker(f) ==
  /\ PopMarker(f)
  /\ stats' = [stats EXCEPT !.nbJsnFilesOptimized = @ + 1]
  /\ UNCHANGED <<inHand, served>>

CountFailed(f) == PopFails(f) /\ UNCHANGED <<stats, inHand, served>>

CountGiven(f) ==
  /\ PopIndex(f)
  /\ served' = [served EXCEPT !.given = @ + 1]
  /\ UNCHANGED <<stats, inHand>>

-----------------------------------------------------------------------------
Uncounted ==
  /\ \/ BU \/ Starter
     \/ RunnerThrows
     \/ AddWatch \/ AddWatchFails \/ FailFUState \/ SetErrorMessage
     \/ ListBegin \/ DrainRead \/ DrainDone
     \/ OptimizeDone \/ CheckQueue \/ SetFUState
     \/ ReadEvents \/ EndBatch
  /\ UNCHANGED <<stats, inHand, served>>

SNext ==
  \/ Uncounted
  \/ CountListed \/ CountSeen \/ CountDrained \/ CountEvent \/ CountEmpty
  \/ \E f \in Files :
       \/ CountSkipped(f) \/ CountPushed(f)
       \/ CountMarker(f) \/ CountGiven(f) \/ CountFailed(f)
  \/ \E stop \in StopRequests : Requested(stop)

SSpec == SInit /\ [][SNext]_allVars

-----------------------------------------------------------------------------
(***************************************************************************)
(* Properties                                                              *)
(***************************************************************************)

(* Files found, at startup and by inotify, less the duplicates *)
Found(s) ==
  s.startup.nbJsnFiles + s.inotify.nbJsnFiles
    + s.startup.inotify.nbJsnFiles - s.startup.inotify.nbJsnFilesDuplicated

(* The file the runner holds between counting it and placing it *)
InHand == IF inHand THEN 1 ELSE 0

(* Wherever the FUs' requests fall between the runner's steps, the numbers *)
(* of /stats are off by the one file in the runner's hands, which it       *)
(* counts without the lock and may hold while an FU has it, and by no      *)
(* other: what was found, at startup and by inotify, less the duplicates,  *)
(* is that file, what the runner still has to sort, has skipped, or has    *)
(* put into the queue; what was put there is still there, was skipped      *)
(* later, or was given out.  The queue and its counters move in one step,  *)
(* under the lock; /stats does not take it, and may show the one before    *)
(* the other.                                                              *)
FilesAccountedFor ==
  /\ runner # "listing" =>
       Found(stats) = InHand + Size(files) + stats.startup.nbJsnFilesOptimized
                      + stats.nbJsnFilesProcessed
  /\ stats.nbJsnFilesProcessed =
       Size(queue) + stats.nbJsnFilesOptimized + served.given
  /\ Size(queue) <= stats.queueSizeMax
  /\ stats.queueSizeMax <= stats.nbJsnFilesProcessed

(* Every request is counted as one that got a file or none, once, but for  *)
(* the one being served and those told to stop, which only nbRequests      *)
(* shows; those that wait for an EoLS are among the empty ones.            *)
RequestsAccountedFor ==
  /\ stats.fu.nbRequests =
       served.given + stats.fu.nbEmptyReplies + served.stopped
       + IF popping THEN 1 ELSE 0
  /\ stats.fu.nbWaitsForEoLS <= stats.fu.nbEmptyReplies
=============================================================================
