----------------------------- MODULE FileQueue -----------------------------
(***************************************************************************)
(* What the loops over the files of an observer compute                    *)
(* (src/src/bu/RunDirectoryObserver.cc): the markers that optimizeAndPush- *)
(* Files skips in the sorted vector, and what a call of popRunFile takes   *)
(* from the priority queue, as operators on sets of files.                 *)
(***************************************************************************)
EXTENDS FileInfo

(* The last lumisection closed by the markers of S, or the one given. *)
LastClosed(S, lastEoLS) ==
  LET closed == {lastEoLS} \cup {m.lumiSection : m \in {m \in S : IsEoLS(m)}}
  IN CHOOSE n \in closed : \A k \in closed : k <= n

(* Plausible slip: every marker skipped, wherever it is. *)
AllMarkers(S) == {m \in S : IsMarker(m)}

(* The markers before the first index file. *)
Leading(S) == {m \in S : IsMarker(m) /\ \A f \in S : ~IsMarker(f) => Before(m, f)}

(* Plausible slip: index files of a lumisection sorted after its EoLS. *)
PassedEveryEoLS(S, lastEoLS) == {m \in S : IsEoLS(m)}

(* EoLS files are passed as long as the next lumisection's is there and no *)
(* index file of that lumisection is.                                      *)
PassedEoLS(S, lastEoLS) ==
  {m \in S :
     /\ IsEoLS(m)
     /\ \A k \in lastEoLS + 1 .. m.lumiSection :
          /\ \E n \in S : IsEoLS(n) /\ n.lumiSection = k
          /\ \A f \in S : ~IsMarker(f) => f.lumiSection # k}

(* What a pop leaves of the queue S, and returns. *)
Popped(S, lastEoLS) ==
  LET passed == PassedEoLS(S, lastEoLS)
      now    == LastClosed(passed, lastEoLS)
      rest   == S \ passed
      ready  == {f \in rest : ~IsMarker(f) /\ f.lumiSection = now + 1}
      first  == IF ready = {} THEN NoFile ELSE CHOOSE f \in ready : IsLeast(f, ready)
      atEnd  == rest # {} /\ \A r \in rest : IsEoR(r)
  IN [file     |-> first,
      queue    |-> IF atEnd THEN {} ELSE rest \ {first},
      lastEoLS |-> now,
      ended    |-> atEnd]
=============================================================================
