------------------------------ MODULE FileInfo ------------------------------
(***************************************************************************)
(* bu::FileInfo (src/src/bu/FileInfo.h): the identity of one file of a run *)
(* and the order in which the broker handles files.                        *)
(*                                                                         *)
(* A file is its lumisection, its index and its type; the run number, the  *)
(* same for all the files one observer handles, is left out.  The widths   *)
(* of the packed 64-bit score are parameters: in the code IndexSpan is     *)
(* 2^31, EoRBit is 2^60 and MaxLumiSection, the largest lumisection whose  *)
(* shifted value stays clear of the EoR bit, is 2^28 - 1.                  *)
(***************************************************************************)
EXTENDS Integers

CONSTANTS
  IndexSpan,        \* index values are below this bit, the one that marks EoLS
  MaxLumiSection,   \* largest lumisection
  EoRBit            \* the bit that marks EoR

ASSUME WidthAssumption ==
  /\ IndexSpan \in Nat \ {0}
  /\ MaxLumiSection \in Nat
  /\ EoRBit \in Nat
  /\ (MaxLumiSection + 1) * (2 * IndexSpan) <= EoRBit

(* FileType without EMPTY, which stands for "no file" (NoFile below). *)
FileType == {"INDEX", "EOLS", "EOR"}

(* What the two constructors build: only an index file has an index. *)
FileInfos ==
  { f \in [lumiSection : 0 .. MaxLumiSection,
           index       : 0 .. IndexSpan - 1,
           type        : FileType] : f.type # "INDEX" => f.index = 0 }

(* A default-constructed FileInfo: type EMPTY, the numbers never set.  The *)
(* code reads nothing of it but its type.                                  *)
NoFile == [type |-> "EMPTY"]

IsEoLS(f) == f.type = "EOLS"
IsEoR(f)  == f.type = "EOR"

(* EoLS and EoR files carry no data: they mark the end of a lumisection or *)
(* of the run.                                                             *)
IsMarker(f) == IsEoLS(f) \/ IsEoR(f)

(* Plausible slip: the EoLS bit forgotten, so that EoLS sorts first. *)
ScoreWithoutEoLSBit(f) ==
  f.lumiSection * (2 * IndexSpan) + f.index
    + (IF IsEoR(f) THEN EoRBit ELSE 0)

(* The packed score.  Its four parts occupy disjoint bits for every f in   *)
(* FileInfos, so the code's bitwise OR is a sum here.                      *)
Score(f) ==
  f.lumiSection * (2 * IndexSpan) + f.index
    + (IF IsEoLS(f) THEN IndexSpan ELSE 0)
    + (IF IsEoR(f)  THEN EoRBit    ELSE 0)

(* f comes first among S in the order of operator<, that of std::sort and  *)
(* of the std::greater heap of the queue.                                  *)
IsLeast(f, S) == f \in S /\ \A g \in S : Score(f) <= Score(g)

(***************************************************************************)
(* The order the score is meant to realise: everything before EoR, then by *)
(* lumisection, the index files of a lumisection before its EoLS, and by   *)
(* index.                                                                  *)
(***************************************************************************)
Before(f, g) ==
  \/ ~IsEoR(f) /\ IsEoR(g)
  \/ /\ IsEoR(f) <=> IsEoR(g)
     /\ \/ f.lumiSection < g.lumiSection
        \/ /\ f.lumiSection = g.lumiSection
           /\ \/ ~IsEoLS(f) /\ IsEoLS(g)
              \/ /\ IsEoLS(f) <=> IsEoLS(g)
                 /\ f.index < g.index
=============================================================================
