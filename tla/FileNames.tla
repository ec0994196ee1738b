----------------------------- MODULE FileNames -----------------------------
(***************************************************************************)
(* The names of the files of a run: which the observer takes               *)
(* (src/src/bu/RunDirectoryObserver.cc:185), what they are read as and     *)
(* what is written for it (src/src/bu/FileInfo.h), what the listing insists*)
(* on (src/src/bu/bu.cc) and which name /popfile renames (src/src/main.cc).*)
(*                                                                         *)
(* A name is what the filter and the scan tell apart: run<run>_ls<ls>_     *)
(* with numerals, a word, a numeral or none after it, some tail, and an    *)
(* extension.  A numeral is its value and how many digits it is written    *)
(* with.  FileBroker takes a file for its name: that it may is shown here. *)
(***************************************************************************)
EXTENDS FileBroker

CONSTANTS
  runNumber,                         \* the run of the files of FileBroker
  Word,                              \* a uint32_t is below, 2^32
  RunWidth, LSWidth, IndexWidth,     \* digits at least written: 6, 4 and 6
  Numerals,                          \* bound: those in the names looked at
  Numbers                            \* bound: those in the files looked at

ASSUME NamesAssumption ==
  /\ Word \in Nat \ {0}
  /\ MaxLumiSection < Word /\ IndexSpan <= Word
  /\ IndexWidth \in Nat \ {0}
  /\ Numbers \cup {runNumber} \subseteq 0 .. Word - 1
  /\ \A n \in Numerals : n.value \in Int /\ n.digits \in Nat

NoNumber == [value |-> 0, digits |-> 0]

Names ==
  [run : {n \in Numerals : n.value >= 0}, ls : {n \in Numerals : n.value >= 0},
   word : {"index", "EoLS", "EoR", "other"}, number : Numerals \cup {NoNumber},
   tail : {"", "EoR", "EoLS", "other"}, extension : {".raw", ".jsn", "-jsn", "other"}]

NamedFiles ==
  {f \in [runNumber : Numbers, lumiSection : Numbers, index : Numbers,
          type : {"INDEX", "EOLS", "EOR"}] : f.type # "INDEX" => f.index = 0}

-----------------------------------------------------------------------------
(* Plausible slip: the index files of both modes asked for. *)
MatchesJsnToo(name) == name.extension \in {".raw", ".jsn"}

(* run[0-9]+_ls[0-9]+_(EoR.jsn|EoLS.jsn|.*\.raw), where a plain . is any    *)
(* character                                                               *)
Matches(name) ==
  \/ /\ name.word \in {"EoLS", "EoR"}
     /\ name.number = NoNumber /\ name.tail = ""
     /\ name.extension \in {".jsn", "-jsn"}
  \/ name.extension = ".raw"

Says(name, word) == name.word = word \/ name.tail = word

(* sscanf("run%d_ls%d_index%d"): how many parts it finds *)
Found(name) == IF name.word = "index" /\ name.number # NoNumber THEN 3 ELSE 2

Readable(name) == Found(name) = 3 \/ Says(name, "EoR") \/ Says(name, "EoLS")

(* The numbers land in a uint32_t. *)
parseFileName(name) ==
  [runNumber   |-> name.run.value % Word,
   lumiSection |-> name.ls.value % Word,
   index       |-> IF Found(name) = 3 THEN name.number.value % Word ELSE 0,
   type        |-> CASE Found(name) = 3     -> "INDEX"
                     [] Found(name) = 2 /\ Says(name, "EoR")  -> "EOR"
                     [] OTHER               -> "EOLS"]

(* setw() pads with zeros and cuts nothing off. *)
Written(value, width) ==
  LET needed == CHOOSE d \in 1 .. value + 1 :
                  value < 10 ^ d /\ (d = 1 \/ value >= 10 ^ (d - 1))
  IN [value |-> value, digits |-> IF needed > width THEN needed ELSE width]

TypeName == [INDEX |-> "index", EOLS |-> "EoLS", EOR |-> "EoR"]

fileName(f) ==
  [run       |-> Written(f.runNumber, RunWidth),
   ls        |-> Written(f.lumiSection, LSWidth),
   word      |-> TypeName[f.type],
   number    |-> IF f.type = "INDEX" THEN Written(f.index, IndexWidth) ELSE NoNumber,
   tail      |-> "",
   extension |-> ""]

WithExtension(name, extension) == [name EXCEPT !.extension = extension]

(* The listing takes the name, and its assertion holds. *)
Listable(name) ==
  /\ Matches(name)
  /\ Readable(name)
  /\ LET same == fileName(parseFileName(name))
     IN name \in {WithExtension(same, ".jsn"), WithExtension(same, ".raw")}

(* The file that /popfile renames; the file mode is always RAW. *)
RenamedName(f) == WithExtension(fileName(f), ".raw")

-----------------------------------------------------------------------------
(* The BU writes index files in .raw and markers in .jsn. *)
BUName(f) == WithExtension(fileName(f), IF f.type = "INDEX" THEN ".raw" ELSE ".jsn")

OfRun(f) ==
  [runNumber |-> runNumber, lumiSection |-> f.lumiSection, index |-> f.index, type |-> f.type]

(* An index file that the listing takes is renamed under the name it has,  *)
(* although the listing allows for .jsn as well.                           *)
ListedAreFound ==
  \A name \in Names :
    Listable(name) /\ Found(name) = 3 => RenamedName(parseFileName(name)) = name

(* A file of the BU is taken and read as what it is, however long its      *)
(* numbers.                                                                *)
WrittenAreRead == \A f \in NamedFiles : Listable(BUName(f)) /\ parseFileName(BUName(f)) = f

(* A name is not kept but written anew for the rename (main.cc:171).  The  *)
(* name of every index file in the directory is the one written for what   *)
(* was read from it, here and for all names that the listing takes.        *)
NamesReadBack ==
  /\ ListedAreFound
  /\ WrittenAreRead
  /\ \A f \in dir : ~IsMarker(f) =>
       LET name == BUName(OfRun(f))
       IN Matches(name) /\ RenamedName(parseFileName(name)) = name
=============================================================================
