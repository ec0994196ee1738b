----------------------------- MODULE QueueLoops -----------------------------
(***************************************************************************)
(* The loops of src/src/bu/RunDirectoryObserver.cc over the sorted vector  *)
(* and the priority queue, for comparison with the expressions of          *)
(* FileQueue.  A loop is a turn for the first file and the same loop over  *)
(* the others; as every turn takes a file away, the expressions are what   *)
(* the loops compute if they agree with each turn.                         *)
(***************************************************************************)
EXTENDS FileBroker

CONSTANT TestFiles   \* bound: the queues to compare on hold some of these

ASSUME LoopsAssumption == TestFiles \subseteq FileInfos

First(Q) == CHOOSE f \in Q : IsLeast(f, Q)

Waits(Q, lastEoLS) ==
  Q = {} \/ (~IsEoR(First(Q)) /\ First(Q).lumiSection > lastEoLS + 1)

(* A turn of popRunFile *)
PopTurn(Q, lastEoLS) ==
  LET f == First(Q)
      others == Q \ {f}
      rest == Popped(others, lastEoLS)
  IN IF Waits(Q, lastEoLS)
     THEN [file |-> NoFile, queue |-> Q, lastEoLS |-> lastEoLS, ended |-> FALSE]
     ELSE IF IsEoLS(f) THEN Popped(others, f.lumiSection)
     ELSE IF IsEoR(f)  THEN [file |-> rest.file, queue |-> rest.queue,
                             lastEoLS |-> rest.lastEoLS, ended |-> TRUE]
     ELSE [file |-> f, queue |-> others, lastEoLS |-> lastEoLS, ended |-> FALSE]

(* A turn of optimizeAndPushFiles: what it skips *)
SkipTurn(Q) ==
  IF Q = {} \/ ~IsMarker(First(Q)) THEN {}
  ELSE {First(Q)} \cup Leading(Q \ {First(Q)})

NoneLate(Q, lastEoLS) == \A f \in Q : ~IsEoR(f) => f.lumiSection > lastEoLS

(* Turn by turn the set expressions do what the loops do: a chain of EoLS  *)
(* is followed as far as it is unbroken and clear of data, and no file is  *)
(* late for the next turn either.                                          *)
LoopsAgree ==
  \A Q \in SUBSET TestFiles :
    /\ Leading(Q) = SkipTurn(Q)
    /\ \A n \in 0 .. MaxLumiSection :
         NoneLate(Q, n) =>
           /\ Popped(Q, n) = PopTurn(Q, n)
           /\ ~Waits(Q, n) /\ IsEoLS(First(Q)) =>
                NoneLate(Q \ {First(Q)}, First(Q).lumiSection)

(* On every queue the next pop meets, also that of an observer made by     *)
(* /restart or after a crash, no file is late (the first assertion of      *)
(* popRunFile holds), so that a pop takes what the loop takes.             *)
QueueIsTheLoops ==
  /\ \A o \in Ids : NoFileIsLate(observers[o])
  /\ LoopsAgree
=============================================================================
