--------------------------- MODULE FileInfo_proofs ---------------------------
(***************************************************************************)
(* The packed score of FileInfo.h orders files as it is meant to, whatever *)
(* the widths of its parts, as long as they do not overlap.                *)
(***************************************************************************)
EXTENDS FileInfo, FiniteSetTheorems, TLAPS

LEMMA FileInfoFields ==
  ASSUME NEW f \in FileInfos
  PROVE  /\ f.lumiSection \in 0 .. MaxLumiSection
         /\ f.index \in 0 .. IndexSpan - 1
         /\ f.type \in FileType
         /\ f.type # "INDEX" => f.index = 0
         /\ f = [lumiSection |-> f.lumiSection, index |-> f.index, type |-> f.type]
BY DEF FileInfos

(* Shifting by a lumisection outweighs the index and the EoLS bit. *)
LEMMA Shift ==
  ASSUME NEW a \in Nat, NEW b \in Nat, NEW k \in Nat, a < b
  PROVE  a * k + k <= b * k
<1>1. PICK d \in Nat : b = a + 1 + d
  <2>1. b - a - 1 \in Nat /\ b = a + 1 + (b - a - 1)
    OBVIOUS
  <2> QED
    BY <2>1
<1>2. b * k = a * k + k + d * k
  BY <1>1
<1>3. d * k >= 0
  BY <1>1
<1>4. a * k \in Nat /\ d * k \in Nat /\ b * k \in Nat
  BY <1>1
<1> QED
  BY <1>2, <1>3, <1>4

(* operator< on the scores is the order Before: index files, then the EoLS *)
(* of a lumisection, lumisection by lumisection, and EoR last of all.      *)
THEOREM ScoreOrder ==
  ASSUME NEW f \in FileInfos, NEW g \in FileInfos
  PROVE  /\ Score(f) \in Int
         /\ Score(f) < Score(g) <=> Before(f, g)
<1> DEFINE K == 2 * IndexSpan
           high(h) == h.lumiSection * K
           low(h) == h.index + (IF IsEoLS(h) THEN IndexSpan ELSE 0)
<1>1. K \in Nat /\ IndexSpan \in Nat \ {0} /\ MaxLumiSection \in Nat /\ EoRBit \in Nat
  BY WidthAssumption
<1>2. ASSUME NEW h \in FileInfos
      PROVE  /\ h.lumiSection \in Nat /\ h.lumiSection <= MaxLumiSection
             /\ low(h) \in Nat /\ low(h) < K
             /\ high(h) \in Nat
             /\ high(h) + low(h) < EoRBit
             /\ Score(h) = high(h) + low(h) + (IF IsEoR(h) THEN EoRBit ELSE 0)
  <2>1. /\ h.lumiSection \in Nat /\ h.lumiSection <= MaxLumiSection
        /\ low(h) \in Nat /\ low(h) < K
    BY <1>1, FileInfoFields
  <2>2. high(h) \in Nat
    BY <1>1, <2>1
  <2>3. high(h) + K <= (MaxLumiSection + 1) * K
    BY <1>1, <2>1, Shift
  <2>4. (MaxLumiSection + 1) * K <= EoRBit
    BY WidthAssumption
  <2>5. (MaxLumiSection + 1) * K \in Nat
    BY <1>1
  <2>6. high(h) + low(h) < EoRBit
    BY <1>1, <2>1, <2>2, <2>3, <2>4, <2>5
  <2>7. Score(h) = high(h) + low(h) + (IF IsEoR(h) THEN EoRBit ELSE 0)
    BY <1>1, <2>1, <2>2, FileInfoFields DEF Score
  <2> QED
    BY <2>1, <2>2, <2>6, <2>7
<1>3. ASSUME NEW h \in FileInfos, NEW k \in FileInfos, h.lumiSection < k.lumiSection
      PROVE  high(h) + low(h) < high(k) + low(k)
  <2>1. high(h) + K <= high(k)
    BY <1>1, <1>2, <1>3, Shift
  <2> QED
    BY <1>1, <1>2, <2>1
<1>4. low(f) < low(g) <=> \/ ~IsEoLS(f) /\ IsEoLS(g)
                          \/ (IsEoLS(f) <=> IsEoLS(g)) /\ f.index < g.index
  <2>1. /\ f.index \in Nat /\ f.index < IndexSpan
        /\ g.index \in Nat /\ g.index < IndexSpan
    BY <1>1, FileInfoFields
  <2> QED
    BY <1>1, <2>1
<1>5. f.lumiSection = g.lumiSection => high(f) = high(g)
  OBVIOUS
<1> HIDE DEF high, low
<1>6. high(f) + low(f) < high(g) + low(g)
        <=> \/ f.lumiSection < g.lumiSection
            \/ f.lumiSection = g.lumiSection /\ low(f) < low(g)
  <2>1. CASE f.lumiSection < g.lumiSection
    BY <2>1, <1>3
  <2>2. CASE g.lumiSection < f.lumiSection
    BY <2>2, <1>2, <1>3
  <2>3. CASE f.lumiSection = g.lumiSection
    BY <2>3, <1>2, <1>5
  <2> QED
    BY <2>1, <2>2, <2>3, <1>2
<1>7. /\ high(f) + low(f) \in Nat /\ high(g) + low(g) \in Nat
      /\ high(f) + low(f) < EoRBit /\ high(g) + low(g) < EoRBit
  BY <1>2
<1>8. Score(f) \in Int
  BY <1>1, <1>2, <1>7
<1>9. Score(f) < Score(g)
        <=> \/ ~IsEoR(f) /\ IsEoR(g)
            \/ (IsEoR(f) <=> IsEoR(g)) /\ high(f) + low(f) < high(g) + low(g)
  BY <1>1, <1>2, <1>7
<1> QED
  BY <1>4, <1>6, <1>8, <1>9 DEF Before

(* Two files with one score are one file: the duplicates check of the      *)
(* startup (operator==) and the heap agree on what a file is.              *)
THEOREM ScoreInjective ==
  ASSUME NEW f \in FileInfos, NEW g \in FileInfos, Score(f) = Score(g)
  PROVE  f = g
<1>1. ~Before(f, g) /\ ~Before(g, f)
  BY ScoreOrder
<1>2. f.lumiSection \in Int /\ g.lumiSection \in Int /\ f.index \in Int /\ g.index \in Int
  BY WidthAssumption, FileInfoFields
<1>3. /\ IsEoR(f) <=> IsEoR(g)
      /\ f.lumiSection = g.lumiSection
      /\ IsEoLS(f) <=> IsEoLS(g)
      /\ f.index = g.index
  BY <1>1, <1>2 DEF Before
<1>4. f.type = g.type
  BY <1>3, FileInfoFields DEF FileType, IsEoLS, IsEoR
<1> QED
  BY <1>3, <1>4, FileInfoFields

(* The consequences the handling of markers relies on. *)
LEMMA MarkerOrder ==
  ASSUME NEW f \in FileInfos, NEW g \in FileInfos
  PROVE  /\ IsEoR(f) /\ ~IsEoR(g) => Score(g) < Score(f)
         /\ ~IsEoR(f) /\ IsEoLS(g) /\ f # g /\ f.lumiSection <= g.lumiSection
              => Score(f) < Score(g)
<1>1. f.lumiSection \in Int /\ g.lumiSection \in Int
  BY WidthAssumption, FileInfoFields
<1>2. IsEoLS(g) => ~IsEoR(g)
  BY DEF IsEoLS, IsEoR
<1>3. IsEoLS(f) /\ IsEoLS(g) /\ f.lumiSection = g.lumiSection => f = g
  BY FileInfoFields DEF IsEoLS
<1> QED
  BY <1>1, <1>2, <1>3, ScoreOrder DEF Before

(* There are finitely many files: a run can name no others. *)
LEMMA FileInfosFinite == IsFiniteSet(FileInfos)
<1> DEFINE numbers == (0 .. MaxLumiSection) \X (0 .. IndexSpan - 1)
           triples == numbers \X FileType
           records == [lumiSection : 0 .. MaxLumiSection, index : 0 .. IndexSpan - 1,
                       type : FileType]
           record  == [t \in triples |->
                         [lumiSection |-> t[1][1], index |-> t[1][2], type |-> t[2]]]
<1>1. IsFiniteSet(0 .. MaxLumiSection) /\ IsFiniteSet(0 .. IndexSpan - 1)
  <2>1. MaxLumiSection \in Int /\ IndexSpan - 1 \in Int
    BY WidthAssumption
  <2> QED
    BY <2>1, FS_Interval
<1>2. IsFiniteSet(FileType)
  <2>1. FileType = ({"INDEX"} \cup {"EOLS"}) \cup {"EOR"}
    BY DEF FileType
  <2> QED
    BY <2>1, FS_Singleton, FS_AddElement
<1>3. IsFiniteSet(triples)
  BY <1>1, <1>2, FS_Product
<1>4. record \in Surjection(triples, records)
  <2>1. record \in [triples -> records]
    OBVIOUS
  <2>2. ASSUME NEW r \in records PROVE \E t \in triples : record[t] = r
    <3>1. <<<<r.lumiSection, r.index>>, r.type>> \in triples
      OBVIOUS
    <3>2. record[<<<<r.lumiSection, r.index>>, r.type>>] = r
      BY <3>1
    <3> QED
      BY <3>1, <3>2
  <2> HIDE DEF triples, records, record
  <2> QED
    BY <2>1, <2>2 DEF Surjection
<1>5. IsFiniteSet(records)
  <2> HIDE DEF triples, records, record
  <2> QED
    BY <1>3, <1>4, FS_Surjection
<1>6. FileInfos \in SUBSET records
  BY DEF FileInfos
<1> QED
  <2> HIDE DEF records
  <2> QED
    BY <1>5, <1>6, FS_Subset

=============================================================================
