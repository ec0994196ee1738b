---------------------------- MODULE RunDirectory ----------------------------
(***************************************************************************)
(* A run directory on the builder unit's disk, the builder unit (BU) that  *)
(* fills it, and the inotify instance through which the broker watches it  *)
(* (src/src/tools/inotify).                                                *)
(*                                                                         *)
(* The BU and the kernel are outside the repository; they are modelled     *)
(* from what the code asks of them.  The watch mask (IN_CLOSE_WRITE |      *)
(* IN_MOVED_TO) admits two ways to write a file.  A file moved in becomes  *)
(* visible to a directory listing and raises its event in one step.  A     *)
(* file written in place is visible from its creation and raises its event *)
(* when it is closed.                                                      *)
(***************************************************************************)
EXTENDS FileInfo, Sequences, FiniteSets

CONSTANTS
  Files,       \* the files the BU writes during the run
  InPlace,     \* those it writes in place instead of moving them in
  Early,       \* markers it does not hold back until all they close is there
  EventLimit   \* events the kernel keeps queued (fs.inotify.max_queued_events)

(* Lumisections are numbered from 1 ("the next expected is 1") and a run   *)
(* ends once.                                                              *)
ASSUME FilesAssumption ==
  /\ Files \subseteq FileInfos
  /\ InPlace \subseteq Files
  /\ Early \subseteq Files
  /\ EventLimit \in Nat
  /\ \A f \in Files : ~IsEoR(f) => f.lumiSection >= 1
  /\ \A f, g \in Files : IsEoR(f) /\ IsEoR(g) => f = g

VARIABLES
  dirExists,   \* the run directory exists
  dir,         \* files that have become visible in it
  open,        \* those of them the BU has not closed yet
  watched,     \* the inotify watch is installed
  events,      \* names the kernel reports, those of the current batch first
  batch,       \* how many of them the last read() returned, still unprocessed
  dropped      \* files whose event the kernel dropped: its queue was full

dirVars == <<dirExists, dir, open, watched, events, batch, dropped>>

DirTypeOK ==
  /\ dirExists \in BOOLEAN
  /\ dir \subseteq Files
  /\ open \subseteq dir \cap InPlace
  /\ watched \in BOOLEAN
  /\ events \in Seq(Files)
  /\ batch \in 0 .. Len(events)
  /\ dropped \subseteq dir

DirInit ==
  /\ dirExists \in BOOLEAN
  /\ dir = {}
  /\ open = {}
  /\ watched = FALSE
  /\ events = <<>>
  /\ batch = 0
  /\ dropped = {}

(* The files named by the events that wait. *)
Announced == {events[i] : i \in 1 .. Len(events)}

-----------------------------------------------------------------------------
(***************************************************************************)
(* The builder unit                                                        *)
(***************************************************************************)

(* What the broker's consistency checks are there for: a marker is written *)
(* only when all that sorts before it is complete, or too early (Early).   *)
(* Index files come in any order, also those of a later lumisection before *)
(* an earlier EoLS.                                                        *)
Writable(f) ==
  /\ dirExists
  /\ f \in Files \ dir
  /\ IsMarker(f) /\ f \notin Early =>
       \A g \in Files : Before(g, f) => g \in dir \ open

(* The kernel queues an event for a watched directory, or drops it (and    *)
(* queues a nameless IN_Q_OVERFLOW, which the file filter ignores) when    *)
(* the queue is full.                                                      *)
Notify(f) ==
  LET full == Len(events) - batch >= EventLimit
  IN /\ events'  = IF watched /\ ~full THEN Append(events, f) ELSE events
     /\ dropped' = IF watched /\ full THEN dropped \cup {f} ELSE dropped
     /\ UNCHANGED <<watched, batch>>

BUMakesDirectory ==
  /\ ~dirExists
  /\ dirExists' = TRUE
  /\ UNCHANGED <<dir, open, watched, events, batch, dropped>>

BUMovesIn(f) ==
  /\ f \notin InPlace
  /\ Writable(f)
  /\ dir' = dir \cup {f}
  /\ Notify(f)
  /\ UNCHANGED <<dirExists, open>>

BUCreates(f) ==
  /\ f \in InPlace
  /\ Writable(f)
  /\ dir'  = dir \cup {f}
  /\ open' = open \cup {f}
  /\ UNCHANGED <<dirExists, watched, events, batch, dropped>>

BUCloses(f) ==
  /\ f \in open
  /\ open' = open \ {f}
  /\ Notify(f)
  /\ UNCHANGED <<dirExists, dir>>

BUNext ==
  \/ BUMakesDirectory
  \/ \E f \in Files : BUMovesIn(f) \/ BUCreates(f) \/ BUCloses(f)

-----------------------------------------------------------------------------
(***************************************************************************)
(* tools::INotify, as steps of the thread that owns the instance           *)
(***************************************************************************)

(* add_watch() succeeds *)
InstallWatch ==
  /\ dirExists
  /\ watched' = TRUE
  /\ UNCHANGED <<dirExists, dir, open, events, batch, dropped>>

HasEvent == events # <<>>

(* read() blocks until there is an event and returns what fits its buffer. *)
Read(most) ==
  /\ HasEvent
  /\ batch' = IF Len(events) < most THEN Len(events) ELSE most
  /\ UNCHANGED <<dirExists, dir, open, watched, events, dropped>>

(* The owner has taken the first event of the batch. *)
NextEvent ==
  /\ events' = Tail(events)
  /\ batch'  = IF batch > 0 THEN batch - 1 ELSE 0
  /\ UNCHANGED <<dirExists, dir, open, watched, dropped>>

(* ~INotify() closes the descriptor: what was queued is gone. *)
CloseWatch ==
  /\ watched' = FALSE
  /\ events' = <<>>
  /\ batch' = 0
  /\ UNCHANGED <<dirExists, dir, open, dropped>>
=============================================================================
