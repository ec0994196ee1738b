----------------------------- MODULE FileBroker -----------------------------
(***************************************************************************)
(* The broker as FUs see it (src/src/main.cc): server threads that serve   *)
(* /popfile and /restart for one run, each popping a file, renaming it     *)
(* into the output directory ("fu/") and replying; a process that may be   *)
(* killed between any two steps and that systemd starts again              *)
(* (dist/systemd/bufu_filebroker.service, Restart=always).                 *)
(*                                                                         *)
(* An observer is what RunDirectoryObserver is shown to implement: it has  *)
(* every file of the directory from its listing on, and a pop takes files  *)
(* in order under its lock.  A pop is one step here, and a file that the   *)
(* builder unit (BU) moves in reaches the observers in the same step.      *)
(* Requests without stopls, for a run directory that exists.               *)
(***************************************************************************)
EXTENDS FileQueue, FiniteSets

CONSTANTS
  Files,         \* the files the BU writes during the run
  Workers,       \* the server threads
  MaxFailures,   \* bound: how often the process is killed or refused a file
  MaxRestarts    \* bound: /restart requests within the life of one process

ASSUME BrokerAssumption ==
  /\ Files \subseteq FileInfos
  /\ \A f \in Files : ~IsEoR(f) => f.lumiSection >= 1
  /\ IsFiniteSet(Workers)
  /\ MaxFailures \in Nat
  /\ MaxRestarts \in Nat

VARIABLES
  written,     \* files the BU has moved into the run directory
  dir,         \* those of them that are still there
  moved,       \* those that were renamed into the output directory
  fuDir,       \* the output directory exists
  up,          \* the process runs
  observers,   \* the observers of this process, by age
  current,     \* the one in the manager's map, 0 if none
  pc,          \* where each server thread is
  holds,       \* the observer it has a pointer to, 0 if none
  file,        \* the file it has popped
  last,        \* lasteols and "state is EOR" of its reply
  crashes,     \* how often the process was killed
  died,        \* how often it died of a file that it could not rename
  faults,      \* how often the file system refused, as when access is denied
  given,       \* history: how often each file was given to an FU
  unheard,     \* history: files whose reply did not reach the FU
  told         \* history: the furthest lasteols and end told to an FU

directoryVars == <<written, dir, moved, fuDir>>
processVars   == <<up, observers, current>>
workerVars    == <<pc, holds, file, last>>
deathVars     == <<crashes, died, faults>>
fuVars        == <<given, unheard, told>>
vars == <<directoryVars, processVars, workerVars, deathVars, fuVars>>

Data      == {f \in Files : ~IsMarker(f)}
Ids       == 1 .. MaxRestarts + 1
Progress  == [lastEoLS : 0 .. MaxLumiSection, ended : BOOLEAN]
NoProgress == [lastEoLS |-> 0, ended |-> FALSE]

Observer ==
  [listed : BOOLEAN, queue : SUBSET Files, lastEoLS : 0 .. MaxLumiSection,
   ended : BOOLEAN]

NewObserver == [listed |-> FALSE, queue |-> {}, lastEoLS |-> 0, ended |-> FALSE]

TypeOK ==
  /\ written \subseteq Files
  /\ dir \subseteq written
  /\ moved \subseteq Data
  /\ fuDir \in BOOLEAN
  /\ up \in BOOLEAN
  /\ observers \in [Ids -> Observer]
  /\ current \in {0} \cup Ids
  /\ pc \in [Workers -> {"idle", "pop", "rename", "mkdir", "retry", "reply"}]
  /\ holds \in [Workers -> {0} \cup Ids]
  /\ file \in [Workers -> Data \cup {NoFile}]
  /\ last \in [Workers -> Progress]
  /\ crashes \in 0 .. MaxFailures
  /\ died \in Nat
  /\ faults \in 0 .. MaxFailures
  /\ given \in [Data -> Nat]
  /\ unheard \subseteq Data
  /\ told \in Progress

Init ==
  /\ written = {}
  /\ dir = {}
  /\ moved = {}
  /\ fuDir = FALSE
  /\ up = TRUE
  /\ observers = [o \in Ids |-> NewObserver]
  /\ current = 0
  /\ pc = [w \in Workers |-> "idle"]
  /\ holds = [w \in Workers |-> 0]
  /\ file = [w \in Workers |-> NoFile]
  /\ last = [w \in Workers |-> NoProgress]
  /\ crashes = 0
  /\ died = 0
  /\ faults = 0
  /\ given = [f \in Data |-> 0]
  /\ unheard = {}
  /\ told = NoProgress

-----------------------------------------------------------------------------
(***************************************************************************)
(* The builder unit and the runners                                        *)
(***************************************************************************)

BUWrites(f) ==
  /\ f \in Files \ written
  /\ IsMarker(f) => \A g \in Files : Before(g, f) => g \in written
  /\ written' = written \cup {f}
  /\ dir' = dir \cup {f}
  /\ observers' = [o \in Ids |->
       IF observers[o].listed
       THEN [observers[o] EXCEPT !.queue = @ \cup {f}]
       ELSE observers[o]]
  /\ UNCHANGED <<moved, fuDir, up, current, workerVars, deathVars, fuVars>>

(* Plausible slip: only inotify is asked, the directory is not listed. *)
NothingListed == [NewObserver EXCEPT !.listed = TRUE]

(* Phases I and II of a runner: markers before the first index file are    *)
(* skipped, the rest is queued.                                            *)
Listed ==
  [listed   |-> TRUE,
   queue    |-> dir \ Leading(dir),
   lastEoLS |-> LastClosed(Leading(dir), 0),
   ended    |-> \E r \in Leading(dir) : IsEoR(r)]

ListRun(o) ==
  /\ up
  /\ o <= current
  /\ ~observers[o].listed
  /\ observers' = [observers EXCEPT ![o] = Listed]
  /\ UNCHANGED <<directoryVars, up, current, workerVars, deathVars, fuVars>>

-----------------------------------------------------------------------------
(***************************************************************************)
(* The server threads: /popfile                                            *)
(***************************************************************************)

GoTo(w, where) == pc' = [pc EXCEPT ![w] = where]

(* A request has come: getRunDirectoryObserver(), under the manager's lock *)
Find(w) ==
  /\ up
  /\ pc[w] = "idle"
  /\ current' = IF current = 0 THEN 1 ELSE current
  /\ holds' = [holds EXCEPT ![w] = current']
  /\ GoTo(w, "pop")
  /\ UNCHANGED <<directoryVars, up, observers, file, last, deathVars, fuVars>>

(* observer->popRunFile(), under the observer's lock; the pointer is       *)
(* dropped when the call returns.                                          *)
Pop(w) ==
  LET o == holds[w]
      p == Popped(observers[o].queue, observers[o].lastEoLS)
      ended == observers[o].ended \/ p.ended
  IN /\ up
     /\ pc[w] = "pop"
     /\ observers' = [observers EXCEPT ![o].queue = p.queue,
                                       ![o].lastEoLS = p.lastEoLS,
                                       ![o].ended = ended]
     /\ file' = [file EXCEPT ![w] = p.file]
     /\ last' = [last EXCEPT ![w] = [lastEoLS |-> p.lastEoLS, ended |-> ended]]
     /\ holds' = [holds EXCEPT ![w] = 0]
     /\ GoTo(w, IF p.file = NoFile THEN "reply" ELSE "rename")
     /\ UNCHANGED <<directoryVars, up, current, deathVars, fuVars>>

(* renameIndexFile(): rename() finds both the file and the output directory *)
CanRename(w) == file[w] \in dir /\ fuDir

MovesTo(w, where) ==
  /\ up
  /\ CanRename(w)
  /\ dir' = dir \ {file[w]}
  /\ moved' = moved \cup {file[w]}
  /\ GoTo(w, where)
  /\ UNCHANGED <<written, fuDir, processVars, holds, file, last, deathVars, fuVars>>

Rename(w) == pc[w] = "rename" /\ MovesTo(w, "reply")

(* rename() finds one of them missing (ENOENT): the first time this is     *)
(* taken to be the output directory.                                       *)
RenameFails(w) ==
  /\ up
  /\ pc[w] = "rename"
  /\ ~CanRename(w)
  /\ GoTo(w, "mkdir")
  /\ UNCHANGED <<directoryVars, processVars, holds, file, last, deathVars, fuVars>>

(* create_directory() does not mind if it is there. *)
MakeFuDirectory(w) ==
  /\ up
  /\ pc[w] = "mkdir"
  /\ fuDir' = TRUE
  /\ GoTo(w, "retry")
  /\ UNCHANGED <<written, dir, moved, processVars, holds, file, last, deathVars,
                 fuVars>>

(* Plausible slip: the FU is left to ask again after a retry. *)
RetryUnanswered(w) == pc[w] = "retry" /\ MovesTo(w, "idle")

(* Plausible slip: the loop not left after the second rename worked. *)
RetryAgain(w) == pc[w] = "retry" /\ MovesTo(w, "retry")

Retry(w) == pc[w] = "retry" /\ MovesTo(w, "reply")

(* Volatile state is gone with the process. *)
ProcessEnds ==
  /\ up' = FALSE
  /\ observers' = [o \in Ids |-> NewObserver]
  /\ current' = 0
  /\ pc' = [w \in Workers |-> "idle"]
  /\ holds' = [w \in Workers |-> 0]
  /\ file' = [w \in Workers |-> NoFile]
  /\ last' = [w \in Workers |-> NoProgress]
  /\ UNCHANGED <<directoryVars, fuVars>>

(* Plausible slip: a file that is not there any more counts as renamed. *)
RetryFailureIgnored(w) ==
  /\ up
  /\ pc[w] = "retry"
  /\ ~CanRename(w)
  /\ GoTo(w, "reply")
  /\ UNCHANGED <<directoryVars, processVars, holds, file, last, deathVars, fuVars>>

(* An error that is not dealt with is thrown out of the server thread. *)
Dies ==
  /\ died' = died + 1
  /\ ProcessEnds
  /\ UNCHANGED crashes

(* Missing again, with the output directory in place *)
RetryFails(w) ==
  /\ up
  /\ pc[w] = "retry"
  /\ ~CanRename(w)
  /\ Dies
  /\ UNCHANGED faults

(* rename() fails otherwise, the first time or the second, or              *)
(* create_directory() does, and nothing has changed in the file system.    *)
Refused(w) ==
  /\ up
  /\ pc[w] \in {"rename", "mkdir", "retry"}
  /\ crashes + faults < MaxFailures
  /\ faults' = faults + 1
  /\ Dies

(* The reply is written to the connection, and the FU reads it. *)
Reply(w) ==
  /\ up
  /\ pc[w] = "reply"
  /\ told' = [lastEoLS |-> IF last[w].lastEoLS > told.lastEoLS
                           THEN last[w].lastEoLS ELSE told.lastEoLS,
              ended    |-> told.ended \/ (last[w].ended /\ file[w] = NoFile)]
  /\ given' = [f \in Data |-> given[f] + IF f = file[w] THEN 1 ELSE 0]
  /\ file' = [file EXCEPT ![w] = NoFile]
  /\ GoTo(w, "idle")
  /\ UNCHANGED <<directoryVars, processVars, holds, last, deathVars, unheard>>

(* The connection broke or the FU has given up; nothing is rolled back. *)
ReplyLost(w) ==
  /\ up
  /\ pc[w] = "reply"
  /\ unheard' = unheard \cup ({file[w]} \cap Data)
  /\ file' = [file EXCEPT ![w] = NoFile]
  /\ GoTo(w, "idle")
  /\ UNCHANGED <<directoryVars, processVars, holds, last, deathVars, given, told>>

(* /restart: the observer in the map, if any, is replaced by a new one,    *)
(* under the manager's lock.                                               *)
RestartObserver(w) ==
  /\ up
  /\ pc[w] = "idle"
  /\ current <= MaxRestarts
  /\ current' = current + 1
  /\ UNCHANGED <<directoryVars, up, observers, workerVars, deathVars, fuVars>>

ServePopFile(w) ==
  \/ Find(w) \/ Pop(w)
  \/ Rename(w) \/ RenameFails(w) \/ MakeFuDirectory(w) \/ Retry(w) \/ RetryFails(w)
  \/ Reply(w) \/ ReplyLost(w)

-----------------------------------------------------------------------------
(* Killed, or taken down by another run. *)
Crash ==
  /\ up
  /\ crashes + faults < MaxFailures
  /\ crashes' = crashes + 1
  /\ ProcessEnds
  /\ UNCHANGED <<died, faults>>

(* systemd starts the process again. *)
StartProcess ==
  /\ ~up
  /\ up' = TRUE
  /\ UNCHANGED <<directoryVars, observers, current, workerVars, deathVars, fuVars>>

Next ==
  \/ \E f \in Files : BUWrites(f)
  \/ \E o \in Ids : ListRun(o)
  \/ \E w \in Workers : ServePopFile(w) \/ Refused(w) \/ RestartObserver(w)
  \/ Crash
  \/ StartProcess

Spec == Init /\ [][Next]_vars

(* Every thread runs, FUs keep asking, the BU finishes its run and systemd *)
(* starts the process again; nothing makes a request to restart, a lost    *)
(* reply, a refusal or a crash happen.                                     *)
Fairness ==
  /\ WF_vars(\E f \in Files : BUWrites(f))
  /\ WF_vars(\E o \in Ids : ListRun(o))
  /\ \A w \in Workers : WF_vars(ServePopFile(w))
  /\ WF_vars(StartProcess)

FairSpec == Spec /\ Fairness

-----------------------------------------------------------------------------
(***************************************************************************)
(* Properties                                                              *)
(***************************************************************************)

Abstract == INSTANCE Delivery

(* Whatever crashes, restarts, lost replies and retries do: a file is      *)
(* given only after it was moved, and never twice, because the rename      *)
(* comes before the reply and is done by one thread only.                  *)
ImplementsDelivery == Abstract!Spec

(* The files in a thread's hands, popped and not yet replied. *)
InHand == {file[w] : w \in Workers} \cap Data

(* A file that was moved reaches its FU: only a lost reply, or the end of  *)
(* the process with one file per server thread, leaves one stranded in the *)
(* output directory.                                                       *)
Stranded == {f \in moved : given[f] = 0} \ (InHand \cup unheard)

FewStranded == Cardinality(Stranded) <= (crashes + died) * Cardinality(Workers)

(* A server thread that cannot rename its file ends the broker of all runs.*)
(* Only the file system, which refuses, or a run that has had two          *)
(* observers lead to that: with one, popping is exclusive, and a thread    *)
(* finds its file where it was listed and the output directory where it,   *)
(* or another that raced for it, has put it.                               *)
KilledOnlyByFaultOrRestart ==
  [][died' > died => faults' > faults \/ current > 1]_vars

(* While the process lives, an FU that was told lasteols=n (or EOR) can    *)
(* close these lumisections: each of their files is moved or in the hands  *)
(* of a server thread, also when observers are replaced.                   *)
Closed(f) == told.ended \/ f.lumiSection <= told.lastEoLS

ClosedMeansTaken ==
  crashes = 0 /\ died = 0 => \A f \in Data : Closed(f) => f \in moved \cup InHand

(* The packed score orders the files of a directory as phase II and        *)
(* popRunFile need it: the index files of a lumisection, then its EoLS,    *)
(* and EoR after all.                                                      *)
ScoreRealisesOrder == \A f, g \in dir : Score(f) < Score(g) <=> Before(f, g)

(* The first assertion of popRunFile: the queue of observer o holds no     *)
(* file of a lumisection that it has already reported as complete.         *)
NoFileIsLate(o) == \A f \in o.queue : ~IsEoR(f) => f.lumiSection > o.lastEoLS

(* Every index file of the run is moved out in the end, also those popped  *)
(* by a thread that died and those written while no process ran.           *)
EveryFileMoved == <>(moved = Data)
=============================================================================
