----------------------- MODULE RequestHandler_proofs -----------------------
(***************************************************************************)
(* What requests mean and how they are answered, for every target, every   *)
(* width of the integers and every content.                                *)
(***************************************************************************)
EXTENDS ArchivedReply, WellFoundedInduction, SequenceTheorems, FiniteSetTheorems, TLAPS

LEMMA MinFacts ==
  ASSUME NEW S \in SUBSET Nat, S # {}
  PROVE  Min(S) \in S /\ \A n \in S : Min(S) <= n
<1>1. PICK m \in S : \A k \in S : ~ (<<k, m>> \in OpToRel(<, Nat))
  BY WFMin, NatLessThanWellFounded
<1>2. \A k \in S : ~ (k < m)
  BY <1>1 DEF OpToRel
<1>3. \A k \in S : m <= k
  BY <1>2
<1> QED
  BY <1>3 DEF Min

(* Induction over the places of a text, from the last to the first.        *)
LEMMA PlacesBackwards ==
  ASSUME NEW a \in Nat, NEW b \in Nat, NEW T,
         \A n \in a .. b : (\A k \in n + 1 .. b : k \in T) => n \in T
  PROVE  \A n \in a .. b : n \in T
<1> DEFINE rest == {m \in 0 .. b : b - m >= a /\ b - m \notin T}
<1> SUFFICES ASSUME NEW n \in a .. b, n \notin T PROVE FALSE
  OBVIOUS
<1>1. b - n \in rest /\ rest \in SUBSET Nat
  OBVIOUS
<1>2. PICK m \in rest : \A k \in rest : m <= k
  <2> HIDE DEF rest
  <2> QED
    BY <1>1, MinFacts
<1>3. b - m \in a .. b /\ b - m \notin T
  OBVIOUS
<1>4. ASSUME NEW k \in (b - m) + 1 .. b PROVE k \in T
  <2>1. b - k \in 0 .. b /\ b - k < m /\ b - (b - k) = k /\ k >= a
    OBVIOUS
  <2> QED
    BY <1>2, <2>1
<1> QED
  BY <1>3, <1>4

-----------------------------------------------------------------------------
(***************************************************************************)
(* The pairs of a query                                                    *)
(***************************************************************************)

LEMMA FindIs ==
  ASSUME NEW text, NEW i \in Nat, NEW last \in Nat, NEW cuts, i <= last + 1,
         NEW cut, cut = Find(text, i, last, cuts)
  PROVE  /\ cut \in i .. last + 1
         /\ \A k \in i .. cut - 1 : text[k] \notin cuts
         /\ cut <= last => text[cut] \in cuts
<1> DEFINE S == {k \in i .. last : text[k] \in cuts} \cup {last + 1}
<1>1. S \in SUBSET Nat /\ S # {}
  OBVIOUS
<1>2. cut \in S /\ \A k \in S : cut <= k
  <2> HIDE DEF S
  <2>1. cut = Min(S)
    BY DEF S, Find
  <2>2. Min(S) \in S /\ \A k \in S : Min(S) <= k
    BY <1>1, MinFacts
  <2> QED
    BY <2>1, <2>2
<1> QED
  BY <1>2

(* The view from a to b is one of those between cuts. *)
IsPiece(text, first, last, cuts, a, b) ==
  /\ a <= b
  /\ a = first \/ text[a - 1] \in cuts
  /\ \A k \in a .. b : text[k] \notin cuts
  /\ b = last \/ text[b + 1] \in cuts

LEMMA PieceIs ==
  ASSUME NEW text, NEW first \in Nat, NEW last \in Nat, NEW cuts, NEW p
  PROVE  p \in Pieces(text, first, last, cuts) <=>
           \E a, b \in first .. last :
             p = [first |-> a, last |-> b] /\ IsPiece(text, first, last, cuts, a, b)
BY DEF Pieces, IsPiece

(* The first piece ends at the first cut, the others come after it.        *)
LEMMA PiecesFromFront ==
  ASSUME NEW text, NEW i \in Nat, NEW last \in Nat, NEW cuts, i <= last + 1,
         NEW cut, cut = Find(text, i, last, cuts), NEW p
  PROVE  p \in Pieces(text, i, last, cuts) <=>
           \/ cut > i /\ p = [first |-> i, last |-> cut - 1]
           \/ cut <= last /\ p \in Pieces(text, cut + 1, last, cuts)
<1>1. /\ cut \in i .. last + 1
      /\ \A k \in i .. cut - 1 : text[k] \notin cuts
      /\ cut <= last => text[cut] \in cuts
  BY FindIs
<1> DEFINE Is(first, a, b) == IsPiece(text, first, last, cuts, a, b)
<1>2. ASSUME NEW a \in i .. last, NEW b \in i .. last
      PROVE  Is(i, a, b) <=> \/ cut > i /\ a = i /\ b = cut - 1
                             \/ cut <= last /\ a >= cut + 1 /\ Is(cut + 1, a, b)
  <2> USE DEF IsPiece
  <2>1. CASE a <= cut
    <3>1. ASSUME Is(i, a, b) PROVE cut > i /\ a = i /\ b = cut - 1
      <4>1. a = i
        BY <1>1, <2>1, <3>1
      <4>2. b < cut
        BY <1>1, <2>1, <3>1
      <4>3. cut > i
        BY <1>1, <3>1, <4>1, <4>2
      <4>4. b + 1 \notin i .. cut - 1
        BY <1>1, <3>1, <4>2
      <4> QED
        BY <1>1, <3>1, <4>1, <4>2, <4>3, <4>4
    <3>2. ASSUME cut > i, a = i, b = cut - 1 PROVE Is(i, a, b)
      BY <1>1, <3>2
    <3> HIDE DEF Is
    <3> QED
      BY <1>1, <2>1, <3>1, <3>2
  <2>2. CASE a > cut
    BY <1>1, <2>2
  <2> QED
    BY <1>1, <2>1, <2>2
<1>3. p \in Pieces(text, i, last, cuts) <=>
        \E a, b \in i .. last : p = [first |-> a, last |-> b] /\ Is(i, a, b)
  BY PieceIs, Zenon
<1>4. p \in Pieces(text, cut + 1, last, cuts) <=>
        \E a, b \in cut + 1 .. last : p = [first |-> a, last |-> b] /\ Is(cut + 1, a, b)
  <2>1. cut + 1 \in Nat
    BY <1>1
  <2> QED
    BY <2>1, PieceIs, Zenon
<1>5. ASSUME cut > i PROVE i \in i .. last /\ cut - 1 \in i .. last
  BY <1>1, <1>5
<1>6. \A a, b \in cut + 1 .. last : a \in i .. last /\ b \in i .. last
  BY <1>1
<1>7. \A a, b \in i .. last : Is(cut + 1, a, b) /\ a >= cut + 1 => b >= cut + 1
  BY <1>1 DEF IsPiece
<1> HIDE DEF Is
<1>8. ASSUME p \in Pieces(text, i, last, cuts)
      PROVE  \/ cut > i /\ p = [first |-> i, last |-> cut - 1]
             \/ cut <= last /\ p \in Pieces(text, cut + 1, last, cuts)
  <2>1. PICK a \in i .. last, b \in i .. last : p = [first |-> a, last |-> b] /\ Is(i, a, b)
    BY <1>3, <1>8
  <2>2. CASE cut > i /\ a = i /\ b = cut - 1
    BY <2>1, <2>2
  <2>3. CASE cut <= last /\ a >= cut + 1 /\ Is(cut + 1, a, b)
    <3>1. a \in cut + 1 .. last /\ b \in cut + 1 .. last
      BY <1>1, <1>7, <2>3
    <3> QED
      BY <1>4, <2>1, <2>3, <3>1
  <2> QED
    BY <1>2, <2>1, <2>2, <2>3
<1>9. ASSUME cut > i, p = [first |-> i, last |-> cut - 1]
      PROVE  p \in Pieces(text, i, last, cuts)
  BY <1>2, <1>3, <1>5, <1>9
<1>10. ASSUME cut <= last, p \in Pieces(text, cut + 1, last, cuts)
       PROVE  p \in Pieces(text, i, last, cuts)
  <2>1. PICK a \in cut + 1 .. last, b \in cut + 1 .. last :
          p = [first |-> a, last |-> b] /\ Is(cut + 1, a, b)
    BY <1>4, <1>10
  <2> QED
    BY <1>2, <1>3, <1>6, <1>10, <2>1
<1> QED
  BY <1>8, <1>9, <1>10

(* The first cut from a place on, the pair before it, if any               *)
CutFrom(text, n, last) == Find(text, n, last, PairEnds)

PairAt(text, n, last) ==
  IF CutFrom(text, n, last) > n
  THEN {KeyValue(text, [first |-> n, last |-> CutFrom(text, n, last) - 1])}
  ELSE {}

PairsFrom(text, n, last) == {KeyValue(text, p) : p \in Pieces(text, n, last, PairEnds)}

LEMMA CutFromIs ==
  ASSUME NEW text, NEW n \in Nat, NEW last \in Nat, n <= last + 1
  PROVE  CutFrom(text, n, last) \in n .. last + 1
<1>1. PICK cut : cut = Find(text, n, last, PairEnds)
  OBVIOUS
<1>2. cut \in n .. last + 1
  BY <1>1, FindIs
<1> QED
  BY <1>1, <1>2 DEF CutFrom

LEMMA PairsFromFront ==
  ASSUME NEW text, NEW n \in Nat, NEW last \in Nat, n <= last + 1
  PROVE  PairsFrom(text, n, last) =
           PairAt(text, n, last)
             \cup (IF CutFrom(text, n, last) > last THEN {}
                   ELSE PairsFrom(text, CutFrom(text, n, last) + 1, last))
<1>1. PICK cut : cut = Find(text, n, last, PairEnds)
  OBVIOUS
<1>2. cut \in n .. last + 1
  BY <1>1, FindIs
<1>3. \A p : p \in Pieces(text, n, last, PairEnds) <=>
               \/ cut > n /\ p = [first |-> n, last |-> cut - 1]
               \/ cut <= last /\ p \in Pieces(text, cut + 1, last, PairEnds)
  BY <1>1, PiecesFromFront
<1>4. PairsFrom(text, n, last) =
        (IF cut > n THEN {KeyValue(text, [first |-> n, last |-> cut - 1])} ELSE {})
          \cup (IF cut > last THEN {} ELSE PairsFrom(text, cut + 1, last))
  BY <1>2, <1>3 DEF PairsFrom
<1> QED
  BY <1>1, <1>4 DEF PairAt, CutFrom

(* Taking pairs from the front yields those of all the pieces.             *)
LEMMA QueryParamsAre ==
  ASSUME NEW text, NEW first \in Nat, NEW last \in Nat, first <= last + 1
  PROVE  QueryParams(text, first, last) = PairsFrom(text, first, last)
<1> DEFINE D == first .. last + 1
           Rest(n, f) == IF CutFrom(text, n, last) > last THEN {}
                         ELSE f[CutFrom(text, n, last) + 1]
           g == [n \in D |-> PairsFrom(text, n, last)]
           Recursive(f) == f = [n \in D |-> PairAt(text, n, last) \cup Rest(n, f)]
           from == CHOOSE f : Recursive(f)
<1>1. \A n \in D : n \in Nat /\ CutFrom(text, n, last) \in n .. last + 1
  BY CutFromIs
<1>2. ASSUME NEW n \in D PROVE g[n] = PairAt(text, n, last) \cup Rest(n, g)
  <2>1. PICK cut : cut = CutFrom(text, n, last)
    OBVIOUS
  <2>2. cut <= last => g[cut + 1] = PairsFrom(text, cut + 1, last)
    BY <1>1, <2>1
  <2>3. g[n] = PairsFrom(text, n, last)
    OBVIOUS
  <2> HIDE DEF g
  <2> QED
    BY <1>1, <2>1, <2>2, <2>3, PairsFromFront
<1>3. Recursive(g)
  <2> HIDE DEF Rest
  <2>1. g = [n \in D |-> g[n]]
    OBVIOUS
  <2> HIDE DEF g
  <2> QED
    BY <1>2, <2>1
<1>4. Recursive(from)
  <2> HIDE DEF Recursive, g
  <2> QED
    BY <1>3
<1>5. QueryParams(text, first, last) = from[first]
  BY DEF QueryParams, CutFrom, PairAt
<1>6. \A n \in D : from[n] = PairAt(text, n, last) \cup Rest(n, from)
  <2> HIDE DEF from
  <2>1. PICK f : f = from
    OBVIOUS
  <2>2. f = [n \in D |-> PairAt(text, n, last) \cup Rest(n, f)]
    <3>1. Recursive(f)
      <4> HIDE DEF Recursive
      <4> QED
        BY <1>4, <2>1, Zenon
    <3> QED
      BY <3>1, Zenon
  <2> HIDE DEF D, Rest
  <2> QED
    BY <2>1, <2>2
<1> HIDE DEF from
<1> DEFINE T == {n \in D : from[n] = PairsFrom(text, n, last)}
<1>7. ASSUME NEW n \in D, \A k \in n + 1 .. last + 1 : k \in T PROVE n \in T
  <2>1. PICK cut : cut = CutFrom(text, n, last)
    OBVIOUS
  <2>2. cut \in n .. last + 1 /\ n \in Nat
    BY <1>1, <2>1
  <2>3. cut <= last => from[cut + 1] = PairsFrom(text, cut + 1, last)
    BY <1>7, <2>2
  <2>4. from[n] = PairAt(text, n, last)
                    \cup (IF cut > last THEN {} ELSE from[cut + 1])
    BY <1>6, <2>1
  <2>5. PairsFrom(text, n, last) = PairAt(text, n, last)
          \cup (IF cut > last THEN {} ELSE PairsFrom(text, cut + 1, last))
    BY <2>1, <2>2, PairsFromFront
  <2>6. (IF cut > last THEN {} ELSE from[cut + 1])
          = (IF cut > last THEN {} ELSE PairsFrom(text, cut + 1, last))
    <3>1. cut > last \/ cut <= last
      BY <2>2
    <3> QED
      BY <2>3, <3>1, Zenon
  <2>7. from[n] = PairsFrom(text, n, last)
    BY <2>4, <2>5, <2>6, Zenon
  <2> QED
    BY <2>7
<1>8. \A n \in D : n \in T
  <2>1. last + 1 \in Nat
    OBVIOUS
  <2>2. \A n \in first .. last + 1 : (\A k \in n + 1 .. last + 1 : k \in T) => n \in T
    BY <1>7
  <2> HIDE DEF T
  <2> QED
    BY <2>1, <2>2, PlacesBackwards, Zenon
<1>9. first \in D
  OBVIOUS
<1> HIDE DEF D
<1> QED
  BY <1>5, <1>8, <1>9

-----------------------------------------------------------------------------
(***************************************************************************)
(* What a request is answered                                              *)
(***************************************************************************)

(* The ways through handle_request(), as one expression *)
Reaction ==
  IF request.method # "GET" \/ ~Uri.ok \/ ~Legal(Uri.path) THEN bad_request
  ELSE IF WithIndex(Uri.path) \notin handlers THEN not_found
  ELSE Application(WithIndex(Uri.path), Uri)

Handled ==
  /\ request \in Requests \cup {NoRequest}
  /\ request = NoRequest => ~Answered
  /\ Answered => reply = Reaction

LEMMA HandledHolds == Spec => []Handled
<1>1. Init => Handled
  BY DEF Init, Handled, Answered
<1>2. Handled /\ [Next]_vars => Handled'
  <2> SUFFICES ASSUME Handled, [Next]_vars PROVE Handled'
    OBVIOUS
  <2> USE DEF Handled, Answered
  <2>1. CASE Receive
    BY <2>1 DEF Receive
  <2>2. CASE UnsupportedMethod \/ ParserFails \/ IllegalTarget \/ NotFound \/ Handle
    <3>1. request # NoRequest /\ request' = request /\ reply' = Reaction
      BY <2>2 DEF UnsupportedMethod, ParserFails, IllegalTarget, NotFound, Handle,
                  Unanswered, Respond, Reaction
    <3>2. Reaction' = Reaction
      BY <3>1 DEF Reaction, Uri
    <3> QED
      BY <3>1, <3>2
  <2>3. CASE Sent
    BY <2>3 DEF Sent
  <2>4. CASE UNCHANGED vars
    <3>1. Reaction' = Reaction
      BY <2>4 DEF vars, Reaction, Uri
    <3> QED
      BY <2>4, <3>1 DEF vars
  <2> QED
    BY <2>1, <2>2, <2>3, <2>4 DEF Next
<1> QED
  BY <1>1, <1>2, PTL DEF Spec

LEMMA TextIs ==
  ASSUME NEW target \in Seq(STRING), NEW beyond \in Seq(STRING)
  PROVE  /\ target \o beyond \in Seq(STRING)
         /\ Len(target) \in Nat
         /\ Len(target \o beyond) = Len(target) + Len(beyond)
         /\ \A i \in 1 .. Len(target) : (target \o beyond)[i] = target[i]
<1>1. PICK C : C = STRING
  OBVIOUS
<1>2. target \in Seq(C) /\ beyond \in Seq(C)
  BY <1>1
<1>3. target \o beyond \in Seq(C)
  BY <1>2
<1> QED
  BY <1>1, <1>2, <1>3

LEMMA RequestIs ==
  ASSUME NEW r \in Requests \cup {NoRequest}
  PROVE  r.target \in Seq(STRING) /\ r.beyond \in Seq(STRING)
<1>1. \A C : <<>> \in Seq(C)
  OBVIOUS
<1>2. <<>> \in Seq(STRING)
  BY <1>1
<1>3. CASE r \in Requests
  <2>1. r \in [method : STRING, target : Seq(STRING), beyond : Seq(STRING)]
    BY <1>3, RequestsAssumption
  <2> QED
    BY <2>1
<1>4. CASE r = NoRequest
  BY <1>2, <1>4, Zenon DEF NoRequest
<1> QED
  BY <1>3, <1>4

LEMMA NothingBeyond ==
  ASSUME NEW target \in Seq(STRING)
  PROVE  target \o <<>> = target
<1>1. PICK C : C = STRING
  OBVIOUS
<1>2. target \in Seq(C)
  BY <1>1
<1> QED
  BY <1>2

LEMMA ArchivedUriIs ==
  ASSUME NEW target \in Seq(STRING), NEW u, NEW v,
         u = parse_uri(target, <<>>), v = archived_parse_uri(target)
  PROVE  /\ v.ok <=> u.ok /\ Legal(u.path)
         /\ v.path = u.path
         /\ v.query_params = u.query_params
<1>0. PICK beyond \in Seq(STRING) : beyond = <<>>
  <2>1. \A C : <<>> \in Seq(C)
    OBVIOUS
  <2> QED
    BY <2>1
<1>a. target \o beyond = target
  BY <1>0, NothingBeyond
<1>1. PICK text : text = target \o beyond /\ text = target
  BY <1>a
<1>2. PICK mark : mark = Find(text, 1, Len(target), {"?"})
  OBVIOUS
<1>3. mark \in 1 .. Len(target) + 1 /\ Len(target) \in Nat
  <2>1. PICK last \in Nat : last = Len(target)
    BY TextIs
  <2>2. PICK cuts : mark = Find(text, 1, Len(target), cuts)
    BY <1>2, Zenon
  <2>3. PICK first \in Nat : first = 1
    OBVIOUS
  <2>4. mark = Find(text, first, last, cuts) /\ first <= last + 1
    BY <2>1, <2>2, <2>3
  <2>5. mark \in first .. last + 1
    BY <2>4, FindIs
  <2> QED
    BY <2>1, <2>3, <2>5
<1>4. PICK path : path = url_decode(text, 1, mark - 1)
  OBVIOUS
<1>5. PICK params : params = PairsFrom(text, mark + 1, Len(target))
  OBVIOUS
<1>6. params = IF mark >= Len(target) THEN {} ELSE QueryParams(text, mark + 1, Len(target))
  <2>1. CASE mark >= Len(target)
    <3>1. mark + 1 .. Len(target) = {}
      BY <1>3, <2>1
    <3>2. Pieces(text, mark + 1, Len(target), PairEnds) = {}
      BY <3>1 DEF Pieces
    <3> QED
      BY <1>5, <2>1, <3>2 DEF PairsFrom
  <2>2. CASE mark < Len(target)
    BY <1>3, <1>5, <2>2, QueryParamsAre
  <2> QED
    BY <1>3, <2>1, <2>2
<1>7. u.ok = /\ path.ok
             /\ \A q \in params : q.ok
  BY <1>0, <1>1, <1>2, <1>4, <1>5, Zenon DEF parse_uri, PairsFrom
<1>8. u.path = path.out /\ u.query_params = params
  BY <1>0, <1>1, <1>2, <1>4, <1>5, Zenon DEF parse_uri, PairsFrom
<1>9. v.ok = /\ \A q \in params : q.ok
             /\ path.ok
             /\ Legal(path.out)
  BY <1>1, <1>2, <1>4, <1>6, Zenon DEF archived_parse_uri, archived_url_decode
<1>10. v.path = path.out /\ v.query_params = params
  BY <1>1, <1>2, <1>4, <1>6, Zenon DEF archived_parse_uri, archived_url_decode
<1> QED
  BY <1>7, <1>9, <1>10, <1>8, Zenon

-----------------------------------------------------------------------------
(***************************************************************************)
(* What a client makes of a reply                                          *)
(***************************************************************************)

LEMMA FirstIs ==
  ASSUME NEW S \in SUBSET Nat, NEW m \in S, \A n \in S : m <= n
  PROVE  Min(S) = m
<1>1. PICK n : n = Min(S)
  OBVIOUS
<1>2. n \in S /\ n <= m
  BY <1>1, MinFacts
<1>3. n \in Nat /\ m \in Nat /\ m <= n
  BY <1>2
<1> QED
  BY <1>1, <1>2, <1>3

(* A text that was cut off after n of its words *)
LEMMA CutOff ==
  ASSUME NEW C, NEW text \in Seq(C), NEW n \in 0 .. Len(text)
  PROVE  /\ SubSeq(text, 1, n) \in Seq(C)
         /\ Len(SubSeq(text, 1, n)) = n
         /\ \A i \in 1 .. n : SubSeq(text, 1, n)[i] = text[i]
OBVIOUS

(* Where a word is, once and twice *)
Once(text, from, word)  == {i \in from .. Len(text) : text[i] = word}
Twice(text, from, word) == {i \in from .. Len(text) - 1 : text[i] = word /\ text[i + 1] = word}

LEMMA OneWord ==
  ASSUME NEW C, NEW text \in Seq(C), NEW word, NEW from \in Nat \ {0}
  PROVE  ReadUntil(text, from, <<word>>) =
           IF Once(text, from, word) = {} THEN 0 ELSE Min(Once(text, from, word))
<1> DEFINE at == {i \in from .. Len(text) - Len(<<word>>) + 1 :
                    SubSeq(text, i, i + Len(<<word>>) - 1) = <<word>>}
<1>1. Len(<<word>>) = 1
  OBVIOUS
<1>2. ASSUME NEW i \in from .. Len(text)
      PROVE  SubSeq(text, i, i + Len(<<word>>) - 1) = <<word>> <=> text[i] = word
  <2>1. i + Len(<<word>>) - 1 = i
    BY <1>1
  <2>2. PICK s : s = SubSeq(text, i, i)
    OBVIOUS
  <2>3. s \in Seq(C) /\ Len(s) = 1 /\ s[1] = text[i]
    BY <2>2
  <2>4. s = <<word>> <=> s[1] = word
    BY <2>3
  <2> QED
    BY <2>1, <2>2, <2>3, <2>4
<1>3. at = Once(text, from, word)
  BY <1>1, <1>2 DEF Once
<1>4. ReadUntil(text, from, <<word>>) = IF at = {} THEN 0 ELSE Min(at)
  BY Zenon DEF ReadUntil
<1> QED
  BY <1>3, <1>4, Zenon

LEMMA TwoWords ==
  ASSUME NEW C, NEW text \in Seq(C), NEW word, NEW from \in Nat \ {0}
  PROVE  ReadUntil(text, from, <<word, word>>) =
           IF Twice(text, from, word) = {} THEN 0 ELSE Min(Twice(text, from, word))
<1> DEFINE at == {i \in from .. Len(text) - Len(<<word, word>>) + 1 :
                    SubSeq(text, i, i + Len(<<word, word>>) - 1) = <<word, word>>}
<1>1. Len(<<word, word>>) = 2
  OBVIOUS
<1>2. ASSUME NEW i \in from .. Len(text) - 1
      PROVE  SubSeq(text, i, i + Len(<<word, word>>) - 1) = <<word, word>>
               <=> text[i] = word /\ text[i + 1] = word
  <2>1. i + Len(<<word, word>>) - 1 = i + 1
    BY <1>1
  <2>2. PICK s : s = SubSeq(text, i, i + 1)
    OBVIOUS
  <2>3. s \in Seq(C) /\ Len(s) = 2 /\ s[1] = text[i] /\ s[2] = text[i + 1]
    BY <2>2
  <2>4. s = <<word, word>> <=> s[1] = word /\ s[2] = word
    BY <2>3
  <2> QED
    BY <2>1, <2>2, <2>3, <2>4
<1>3. at = Twice(text, from, word)
  BY <1>1, <1>2 DEF Twice
<1>4. ReadUntil(text, from, <<word, word>>) = IF at = {} THEN 0 ELSE Min(at)
  BY Zenon DEF ReadUntil
<1> QED
  BY <1>3, <1>4, Zenon

(* Where the lines of a reply end, its blank line at the 12th word *)
IsReply(text, content) ==
  /\ Len(text) = 13 + Len(content)
  /\ text[4] = crlf /\ text[8] = crlf /\ text[12] = crlf /\ text[13] = crlf
  /\ \A i \in {1, 2, 3, 5, 6, 7, 9, 10, 11} : text[i] # crlf
  /\ \A i \in 1 .. Len(content) : text[13 + i] = content[i]

(* What is read of a reply of which n words arrive *)
LEMMA Arrived ==
  ASSUME NEW C, NEW content \in Seq(C), NEW text \in Seq(C), IsReply(text, content),
         NEW n \in 0 .. Len(text), NEW early, early = SubSeq(text, 1, n)
  PROVE  /\ ReadUntil(early, 1, <<crlf>>) = IF n < 4 THEN 0 ELSE 4
         /\ ReadUntil(early, 5, <<crlf, crlf>>) = IF n < 13 THEN 0 ELSE 12
<1>1. /\ early \in Seq(C)
      /\ Len(early) = n
      /\ \A i \in 1 .. n : early[i] = text[i]
  BY CutOff
<1>2. n \in Nat
  OBVIOUS
<1>3. PICK one \in Nat \ {0}, five \in Nat \ {0} : one = 1 /\ five = 5
  OBVIOUS
<1>4. PICK word : word = crlf
  OBVIOUS
<1>5. /\ \A i \in {1, 2, 3, 5, 6, 7, 9, 10, 11} : i <= n => early[i] # word
      /\ \A i \in {4, 8, 12, 13} : i <= n => early[i] = word
  BY <1>1, <1>2, <1>4 DEF IsReply
<1>6. ReadUntil(early, 1, <<crlf>>) = IF n < 4 THEN 0 ELSE 4
  <2>1. PICK at : at = Once(early, one, word)
    OBVIOUS
  <2>2. ReadUntil(early, one, <<word>>) = IF at = {} THEN 0 ELSE Min(at)
    BY <1>1, <2>1, OneWord
  <2>3. at = {i \in 1 .. n : early[i] = word}
    BY <1>1, <1>3, <2>1 DEF Once
  <2>4. ASSUME n < 4 PROVE at = {}
    BY <1>2, <1>5, <2>3, <2>4
  <2>5. ASSUME n >= 4 PROVE at \in SUBSET Nat /\ 4 \in at /\ \A i \in at : 4 <= i
    BY <1>2, <1>5, <2>3, <2>5
  <2>6. n >= 4 => at # {} /\ Min(at) = 4
    BY <2>5, FirstIs
  <2> QED
    BY <1>2, <1>3, <1>4, <2>2, <2>4, <2>6
<1>7. ReadUntil(early, 5, <<crlf, crlf>>) = IF n < 13 THEN 0 ELSE 12
  <2>1. PICK at : at = Twice(early, five, word)
    OBVIOUS
  <2>2. ReadUntil(early, five, <<word, word>>) = IF at = {} THEN 0 ELSE Min(at)
    BY <1>1, <2>1, TwoWords
  <2>3. at = {i \in 5 .. n - 1 : early[i] = word /\ early[i + 1] = word}
    BY <1>1, <1>3, <2>1 DEF Twice
  <2>4. \A i \in at : i >= 12
    <3> SUFFICES ASSUME NEW i \in 5 .. 11, i <= n - 1, early[i] = word, early[i + 1] = word
                 PROVE  FALSE
      BY <1>2, <2>3
    <3>1. i + 1 \in 6 .. 12 /\ i + 1 <= n
      BY <1>2
    <3> QED
      BY <1>2, <1>5, <3>1
  <2>5. ASSUME n < 13 PROVE at = {}
    BY <1>2, <2>3, <2>4, <2>5
  <2>6. ASSUME n >= 13 PROVE at \in SUBSET Nat /\ 12 \in at
    BY <1>2, <1>5, <2>3, <2>6
  <2>7. n >= 13 => at # {} /\ Min(at) = 12
    BY <2>4, <2>6, FirstIs
  <2> QED
    BY <1>2, <1>3, <1>4, <2>2, <2>5, <2>7
<1> QED
  BY <1>6, <1>7

LEMMA SameText ==
  ASSUME NEW C, NEW s \in Seq(C), NEW t \in Seq(C), Len(s) = Len(t),
         \A i \in 1 .. Len(s) : s[i] = t[i]
  PROVE  s = t
OBVIOUS

LEMMA EightWords ==
  ASSUME NEW C, NEW text \in Seq(C), Len(text) >= 12, NEW words, words = SubSeq(text, 5, 12)
  PROVE  /\ words \in Seq(C) /\ Len(words) = 8
         /\ \A i \in 1 .. 8 : words[i] = text[4 + i]
<1>1. Len(text) \in Nat /\ 5 \in 1 .. Len(text) /\ 12 \in 1 .. Len(text)
  OBVIOUS
<1> QED
  BY <1>1

LEMMA ClientReads ==
  ASSUME NEW C, NEW content \in Seq(C), NEW text \in Seq(C), IsReply(text, content),
         text[1] = "HTTP/1.0", NEW ok \in BOOLEAN, ok <=> text[2] = "200",
         NEW n \in 0 .. Len(text), NEW broken
  PROVE  http_get(SubSeq(text, 1, n), broken) =
           IF n < 4 THEN Thrown
           ELSE IF ~ok THEN NotOK
           ELSE IF n < 13 THEN Thrown
           ELSE Outcome(0, SubSeq(text, 5, 12) \o <<eol>> \o SubSeq(content, 1, n - 13)
                             \o (IF broken THEN Exception ELSE <<>>))
<1>1. PICK early : early = SubSeq(text, 1, n)
  OBVIOUS
<1>2. PICK line : line = ReadUntil(early, 1, <<crlf>>)
  OBVIOUS
<1>3. PICK headers : headers = ReadUntil(early, line + 1, <<crlf, crlf>>)
  OBVIOUS
<1>a. PICK last : last = IF broken THEN Exception ELSE <<>>
  OBVIOUS
<1>4. http_get(early, broken) =
        IF line = 0 THEN Thrown
        ELSE IF early[1] # "HTTP/1.0" THEN Invalid
        ELSE IF early[2] # "200" THEN NotOK
        ELSE IF headers = 0 THEN Thrown
        ELSE Outcome(0, SubSeq(early, line + 1, headers) \o <<eol>>
                          \o SubSeq(early, headers + 2, Len(early)) \o last)
  BY <1>2, <1>3, <1>a, Zenon DEF http_get
<1>5. /\ early \in Seq(C)
      /\ Len(early) = n
      /\ \A i \in 1 .. n : early[i] = text[i]
      /\ n \in Nat
  BY <1>1, CutOff
<1>6. /\ line = IF n < 4 THEN 0 ELSE 4
      /\ ReadUntil(early, 5, <<crlf, crlf>>) = IF n < 13 THEN 0 ELSE 12
  BY <1>1, <1>2, Arrived, Zenon
<1>7. CASE n < 4
  <2>1. line = 0
    BY <1>6, <1>7
  <2> QED
    BY <1>1, <1>4, <1>7, <2>1, Zenon
<1>8. CASE ~(n < 4)
  <2>1. line = 4 /\ line # 0 /\ line + 1 = 5
    BY <1>6, <1>8
  <2>2. headers = IF n < 13 THEN 0 ELSE 12
    BY <1>3, <1>6, <2>1
  <2>3. early[1] = text[1] /\ early[2] = text[2]
    BY <1>5, <1>8
  <2>4. http_get(early, broken) =
          IF ~ok THEN NotOK
          ELSE IF headers = 0 THEN Thrown
          ELSE Outcome(0, SubSeq(early, line + 1, headers) \o <<eol>>
                            \o SubSeq(early, headers + 2, Len(early)) \o last)
    BY <1>4, <2>1, <2>3, Zenon
  <2>5. CASE n < 13
    <3>1. headers = 0
      BY <2>2, <2>5
    <3> QED
      BY <1>1, <1>8, <2>4, <2>5, <3>1, Zenon
  <2>6. CASE ~(n < 13)
    <3>1. headers = 12 /\ headers # 0 /\ headers + 2 = 14
      BY <2>2, <2>6
    <3>2. SubSeq(early, 14, n) = SubSeq(content, 1, n - 13)
      <4>1. PICK a : a = SubSeq(early, 14, n)
        OBVIOUS
      <4>2. PICK b : b = SubSeq(content, 1, n - 13)
        OBVIOUS
      <4>3. n - 13 \in 0 .. Len(content)
        BY <1>5, <2>6 DEF IsReply
      <4>4. a \in Seq(C) /\ Len(a) = n - 13 /\ \A i \in 1 .. n - 13 : a[i] = early[13 + i]
        BY <1>5, <2>6, <4>1
      <4>5. b \in Seq(C) /\ Len(b) = n - 13 /\ \A i \in 1 .. n - 13 : b[i] = content[i]
        BY <4>2, <4>3
      <4>6. \A i \in 1 .. n - 13 : early[13 + i] = content[i]
        <5> SUFFICES ASSUME NEW i \in 1 .. n - 13 PROVE early[13 + i] = content[i]
          OBVIOUS
        <5>1. 13 + i \in 1 .. n /\ i \in 1 .. Len(content)
          BY <1>5, <4>3
        <5> QED
          BY <1>5, <5>1 DEF IsReply
      <4>7. a = b
        BY <4>3, <4>4, <4>5, <4>6
      <4> QED
        BY <4>1, <4>2, <4>7
    <3>3. SubSeq(early, 5, 12) = SubSeq(text, 5, 12)
      <4>1. PICK a, b : a = SubSeq(early, 5, 12) /\ b = SubSeq(text, 5, 12)
        OBVIOUS
      <4>2. Len(text) \in Nat /\ Len(text) >= 13 /\ n >= 13
        BY <1>5, <2>6
      <4>3. a \in Seq(C) /\ Len(a) = 8 /\ \A i \in 1 .. 8 : a[i] = early[4 + i]
        <5>1. early \in Seq(C) /\ Len(early) >= 12 /\ a = SubSeq(early, 5, 12)
          BY <1>5, <4>1, <4>2
        <5> QED
          BY <5>1, EightWords
      <4>4. b \in Seq(C) /\ Len(b) = 8 /\ \A i \in 1 .. 8 : b[i] = text[4 + i]
        <5>1. text \in Seq(C) /\ Len(text) >= 12 /\ b = SubSeq(text, 5, 12)
          BY <4>1, <4>2
        <5> QED
          BY <5>1, EightWords
      <4>5. \A i \in 1 .. 8 : early[4 + i] = text[4 + i]
        BY <1>5, <4>2
      <4>6. a \in Seq(C) /\ b \in Seq(C) /\ Len(a) = Len(b) /\ \A i \in 1 .. Len(a) : a[i] = b[i]
        BY <4>3, <4>4, <4>5
      <4>7. a = b
        BY <4>6, SameText
      <4> QED
        BY <4>1, <4>7
    <3>4. SubSeq(early, line + 1, headers) = SubSeq(text, 5, 12)
      BY <2>1, <3>1, <3>3
    <3>5. SubSeq(early, headers + 2, Len(early)) = SubSeq(content, 1, n - 13)
      BY <1>5, <3>1, <3>2
    <3> QED
      BY <1>1, <1>a, <1>8, <2>4, <2>6, <3>1, <3>4, <3>5, Zenon
  <2> QED
    BY <2>5, <2>6
<1> QED
  BY <1>7, <1>8

LEMMA Appended ==
  ASSUME NEW C, NEW s \in Seq(C), NEW t \in Seq(C), NEW both, both = s \o t
  PROVE  /\ both \in Seq(C)
         /\ Len(both) = Len(s) + Len(t)
         /\ \A i \in 1 .. Len(s) : both[i] = s[i]
         /\ \A i \in 1 .. Len(t) : both[Len(s) + i] = t[i]
OBVIOUS

LEMMA Prolonged ==
  ASSUME NEW C, NEW s \in Seq(C), NEW e \in C, NEW longer, longer = s \o <<e>>
  PROVE  longer \in Seq(C) /\ Len(longer) = Len(s) + 1
OBVIOUS

(* The words of a reply, whatever they are, and where they are found in it *)
Wire(a, b, c, d, e, f, g, h, t, content) ==
  <<a>> \o <<b, c>> \o <<d>> \o <<e, f, g, d>> \o <<h, f, t, d>> \o <<d>> \o content

IsWire(C, text, a, b, c, d, e, f, g, h, t, content) ==
  /\ text \in Seq(C)
  /\ Len(text) = 13 + Len(content)
  /\ text[1] = a /\ text[2] = b /\ text[3] = c /\ text[4] = d
  /\ text[5] = e /\ text[6] = f /\ text[7] = g /\ text[8] = d
  /\ text[9] = h /\ text[10] = f /\ text[11] = t /\ text[12] = d /\ text[13] = d
  /\ \A i \in 1 .. Len(content) : text[13 + i] = content[i]

LEMMA Concatenated ==
  ASSUME NEW a, NEW b, NEW c, NEW d, NEW e, NEW f, NEW g, NEW h, NEW t, NEW content,
         NEW C, content \in Seq(C), {a, b, c, d, e, f, g, h, t} \subseteq C,
         NEW text, text = Wire(a, b, c, d, e, f, g, h, t, content)
  PROVE  IsWire(C, text, a, b, c, d, e, f, g, h, t, content)
<1>1. PICK s : s = <<a>> \o <<b, c>> \o <<d>>
  OBVIOUS
<1>2. s \in Seq(C) /\ Len(s) = 4 /\ s[1] = a /\ s[2] = b /\ s[3] = c /\ s[4] = d
  BY <1>1
<1>3. PICK u : u = s \o <<e, f, g, d>>
  OBVIOUS
<1>4. /\ u \in Seq(C) /\ Len(u) = 8 /\ u[1] = a /\ u[2] = b /\ u[3] = c /\ u[4] = d
      /\ u[5] = e /\ u[6] = f /\ u[7] = g /\ u[8] = d
  <2>1. PICK x : x = <<e, f, g, d>>
    OBVIOUS
  <2>2. x \in Seq(C) /\ Len(x) = 4 /\ x[1] = e /\ x[2] = f /\ x[3] = g /\ x[4] = d
    BY <2>1
  <2>3. /\ u \in Seq(C) /\ Len(u) = Len(s) + Len(x)
        /\ \A i \in 1 .. Len(s) : u[i] = s[i]
        /\ \A i \in 1 .. Len(x) : u[Len(s) + i] = x[i]
    <3>1. u = s \o x /\ s \in Seq(C) /\ x \in Seq(C)
      BY <1>2, <1>3, <2>1, <2>2, Zenon
    <3> QED
      BY <3>1, Appended
  <2>4. u[4 + 1] = e /\ u[4 + 2] = f /\ u[4 + 3] = g /\ u[4 + 4] = d
    BY <1>2, <2>2, <2>3
  <2> QED
    BY <1>2, <2>2, <2>3, <2>4
<1>5. PICK v : v = u \o <<h, f, t, d>>
  OBVIOUS
<1>6. /\ v \in Seq(C) /\ Len(v) = 12 /\ \A i \in 1 .. 8 : v[i] = u[i]
      /\ v[9] = h /\ v[10] = f /\ v[11] = t /\ v[12] = d
  <2>1. PICK x : x = <<h, f, t, d>>
    OBVIOUS
  <2>2. x \in Seq(C) /\ Len(x) = 4 /\ x[1] = h /\ x[2] = f /\ x[3] = t /\ x[4] = d
    BY <2>1
  <2>3. /\ v \in Seq(C) /\ Len(v) = Len(u) + Len(x)
        /\ \A i \in 1 .. Len(u) : v[i] = u[i]
        /\ \A i \in 1 .. Len(x) : v[Len(u) + i] = x[i]
    <3>1. v = u \o x /\ u \in Seq(C) /\ x \in Seq(C)
      BY <1>4, <1>5, <2>1, <2>2, Zenon
    <3> QED
      BY <3>1, Appended
  <2>4. v[8 + 1] = h /\ v[8 + 2] = f /\ v[8 + 3] = t /\ v[8 + 4] = d
    BY <1>4, <2>2, <2>3
  <2> QED
    BY <1>4, <2>2, <2>3, <2>4
<1>7. PICK w : w = v \o <<d>>
  OBVIOUS
<1>8. w \in Seq(C) /\ Len(w) = 13 /\ w[13] = d /\ \A i \in 1 .. 12 : w[i] = v[i]
  <2>1. PICK x : x = <<d>>
    OBVIOUS
  <2>2. x \in Seq(C) /\ Len(x) = 1 /\ x[1] = d
    BY <2>1
  <2>3. w = v \o x /\ v \in Seq(C) /\ x \in Seq(C)
    BY <1>6, <1>7, <2>1, <2>2, Zenon
  <2>4. /\ w \in Seq(C) /\ Len(w) = Len(v) + Len(x)
        /\ \A i \in 1 .. Len(v) : w[i] = v[i]
        /\ \A i \in 1 .. Len(x) : w[Len(v) + i] = x[i]
    BY <2>3, Appended
  <2>5. w[12 + 1] = d
    BY <1>6, <2>2, <2>4
  <2> QED
    BY <1>6, <2>2, <2>4, <2>5
<1>9. text = w \o content
  BY <1>1, <1>3, <1>5, <1>7 DEF Wire
<1>10. /\ text \in Seq(C) /\ Len(text) = 13 + Len(content)
       /\ \A i \in 1 .. 13 : text[i] = w[i]
       /\ \A i \in 1 .. Len(content) : text[13 + i] = content[i]
  <2>1. text = w \o content /\ w \in Seq(C) /\ content \in Seq(C)
    BY <1>8, <1>9
  <2>2. /\ text \in Seq(C)
        /\ Len(text) = Len(w) + Len(content)
        /\ \A i \in 1 .. Len(w) : text[i] = w[i]
        /\ \A i \in 1 .. Len(content) : text[Len(w) + i] = content[i]
    BY <2>1, Appended
  <2> QED
    BY <1>8, <2>1, <2>2
<1> QED
  BY <1>4, <1>6, <1>8, <1>10 DEF IsWire

LEMMA HeaderLines ==
  ASSUME NEW C, NEW d, NEW e, NEW f, NEW g, NEW h, NEW t, {d, e, f, g, h, t} \subseteq C,
         NEW text \in Seq(C), Len(text) >= 13,
         text[5] = e, text[6] = f, text[7] = g, text[8] = d,
         text[9] = h, text[10] = f, text[11] = t, text[12] = d
  PROVE  /\ SubSeq(text, 5, 12) = <<e, f, g, d>> \o <<h, f, t, d>>
         /\ SubSeq(text, 5, 12) \in Seq(C) /\ Len(SubSeq(text, 5, 12)) = 8
<1>1. PICK a : a = SubSeq(text, 5, 12)
  OBVIOUS
<1>2. Len(text) \in Nat
  OBVIOUS
<1>3. a \in Seq(C) /\ Len(a) = 8 /\ \A i \in 1 .. 8 : a[i] = text[4 + i]
  <2>1. text \in Seq(C) /\ Len(text) >= 12 /\ a = SubSeq(text, 5, 12)
    BY <1>1, <1>2
  <2> QED
    BY <2>1, EightWords
<1>4. PICK x, y : x = <<e, f, g, d>> /\ y = <<h, f, t, d>>
  OBVIOUS
<1>5. /\ x \in Seq(C) /\ Len(x) = 4 /\ x[1] = e /\ x[2] = f /\ x[3] = g /\ x[4] = d
      /\ y \in Seq(C) /\ Len(y) = 4 /\ y[1] = h /\ y[2] = f /\ y[3] = t /\ y[4] = d
  BY <1>4
<1>6. PICK b : b = x \o y
  OBVIOUS
<1>7. /\ b \in Seq(C) /\ Len(b) = 8
      /\ \A i \in 1 .. 4 : b[i] = x[i]
      /\ \A i \in 1 .. 4 : b[4 + i] = y[i]
  <2>1. /\ b \in Seq(C) /\ Len(b) = Len(x) + Len(y)
        /\ \A i \in 1 .. Len(x) : b[i] = x[i]
        /\ \A i \in 1 .. Len(y) : b[Len(x) + i] = y[i]
    <3>1. b = x \o y /\ x \in Seq(C) /\ y \in Seq(C)
      BY <1>5, <1>6, Zenon
    <3> QED
      BY <3>1, Appended
  <2> QED
    BY <1>5, <2>1
<1>8. /\ a[1] = e /\ a[2] = f /\ a[3] = g /\ a[4] = d
      /\ a[5] = h /\ a[6] = f /\ a[7] = t /\ a[8] = d
  BY <1>3
<1>9. /\ b[1] = e /\ b[2] = f /\ b[3] = g /\ b[4] = d
  BY <1>5, <1>7
<1>10. b[4 + 1] = h /\ b[4 + 2] = f /\ b[4 + 3] = t /\ b[4 + 4] = d
  BY <1>5, <1>7
<1>11. a = b
  <2>1. b[5] = h /\ b[6] = f /\ b[7] = t /\ b[8] = d
    BY <1>10
  <2>2. \A i \in 1 .. 8 : \/ i = 1 \/ i = 2 \/ i = 3 \/ i = 4
                         \/ i = 5 \/ i = 6 \/ i = 7 \/ i = 8
    OBVIOUS
  <2>3. \A i \in 1 .. 8 : a[i] = b[i]
    BY <1>8, <1>9, <2>1, <2>2
  <2>4. a \in Seq(C) /\ b \in Seq(C) /\ Len(a) = Len(b) /\ \A i \in 1 .. Len(a) : a[i] = b[i]
    BY <1>3, <1>7, <2>3
  <2> QED
    BY <2>4, SameText
<1> QED
  BY <1>1, <1>3, <1>4, <1>6, <1>11

(* A reply with its headers, and the lines that a client shows of them *)
IsReplyWith(C, text, content, lines) ==
  /\ text \in Seq(C) /\ content \in Seq(C)
  /\ IsReply(text, content)
  /\ text[1] = "HTTP/1.0"
  /\ SubSeq(text, 5, 12) = lines
  /\ lines \in Seq(C) /\ Len(lines) = 8

LEMMA WireIs ==
  ASSUME NEW status, NEW D, NEW content \in Seq(D), NEW type, type # crlf,
         NEW rep, rep = WithHeaders(status, content, type), NEW text, text = to_buffers(rep)
  PROVE  \E C : /\ IsReplyWith(C, text, content, Line(rep.headers[1]) \o Line(rep.headers[2]))
                /\ text[2] = "200" <=> status = "ok"
<1>1. PICK code, phrase : /\ code = Code(status) /\ phrase = "phrase"
                          /\ code # crlf /\ phrase # crlf
                          /\ code = "200" <=> status = "ok"
  <2>1. Code(status) # crlf /\ "phrase" # crlf /\ (Code(status) = "200" <=> status = "ok")
    BY Zenon DEF Code, crlf
  <2> QED
    BY <2>1, Zenon
<1>2. PICK a, e, f, g, h : /\ a = "HTTP/1.0" /\ e = "Content-Length" /\ f = ": "
                           /\ g = "length" /\ h = "Content-Type"
  BY Zenon
<1>3. a # crlf /\ e # crlf /\ f # crlf /\ g # crlf /\ h # crlf
  BY <1>2, Zenon DEF crlf
<1>4. PICK d : d = crlf
  OBVIOUS
<1>5. /\ Line(rep.headers[1]) = <<e, f, g, d>>
      /\ Line(rep.headers[2]) = <<h, f, type, d>>
      /\ text = <<a, code, phrase, d>> \o <<e, f, g, d>> \o <<h, f, type, d>> \o <<d>> \o content
  <2>1. rep.status = status /\ rep.content = content
    BY Zenon DEF WithHeaders
  <2>2. Line(rep.headers[1]) = <<e, f, g, d>>
    BY <1>2, <1>4, Zenon DEF WithHeaders, Line
  <2>3. Line(rep.headers[2]) = <<h, f, type, d>>
    BY <1>2, <1>4, Zenon DEF WithHeaders, Line
  <2>4. StatusLine(status) = <<a, code, phrase, d>>
    BY <1>1, <1>2, <1>4, Zenon DEF StatusLine
  <2>5. text = StatusLine(rep.status) \o Line(rep.headers[1])
                 \o Line(rep.headers[2]) \o <<crlf>> \o rep.content
    BY Zenon DEF to_buffers
  <2> QED
    BY <1>4, <2>1, <2>2, <2>3, <2>4, <2>5, Zenon
<1>6. PICK C : C = D \cup {a, code, phrase, d, e, f, g, h, type}
  BY Zenon
<1>7. content \in Seq(C)
  BY <1>6
<1>8. {a, code, phrase, d, e, f, g, h, type} \subseteq C
  BY <1>6
<1>9. text = Wire(a, code, phrase, d, e, f, g, h, type, content)
  BY <1>5 DEF Wire
<1>10. IsWire(C, text, a, code, phrase, d, e, f, g, h, type, content)
  BY <1>7, <1>8, <1>9, Concatenated, Zenon
<1>11. IsReply(text, content)
  BY <1>1, <1>3, <1>4, <1>10 DEF IsReply, IsWire
<1>12. PICK lines : lines = Line(rep.headers[1]) \o Line(rep.headers[2])
  OBVIOUS
<1>13. lines = <<e, f, g, d>> \o <<h, f, type, d>>
  BY <1>5, <1>12, Zenon
<1>14. SubSeq(text, 5, 12) = lines /\ lines \in Seq(C) /\ Len(lines) = 8
  <2>1. /\ {d, e, f, g, h, type} \subseteq C /\ text \in Seq(C) /\ Len(text) >= 13
        /\ text[5] = e /\ text[6] = f /\ text[7] = g /\ text[8] = d
        /\ text[9] = h /\ text[10] = f /\ text[11] = type /\ text[12] = d
    BY <1>7, <1>8, <1>10 DEF IsWire
  <2>2. /\ SubSeq(text, 5, 12) = <<e, f, g, d>> \o <<h, f, type, d>>
        /\ SubSeq(text, 5, 12) \in Seq(C) /\ Len(SubSeq(text, 5, 12)) = 8
    BY <2>1, HeaderLines
  <2> QED
    BY <1>13, <2>2, Zenon
<1>15. text \in Seq(C) /\ text[1] = "HTTP/1.0" /\ text[2] = code
  BY <1>2, <1>10, Zenon DEF IsWire
<1>16. IsReplyWith(C, text, content, lines)
  BY <1>7, <1>11, <1>14, <1>15, Zenon DEF IsReplyWith
<1> QED
  BY <1>1, <1>12, <1>15, <1>16, Zenon

LEMMA BeginningIs ==
  ASSUME NEW C, NEW lines \in Seq(C), NEW content \in Seq(C), NEW end \in C,
         Len(lines) = 8, NEW k \in 0 .. Len(content)
  PROVE  /\ 9 + k \in 0 .. Len(lines \o <<end>> \o content)
         /\ SubSeq(lines \o <<end>> \o content, 1, 9 + k)
              = lines \o <<end>> \o SubSeq(content, 1, k)
<1>1. PICK top : top = lines \o <<end>>
  OBVIOUS
<1>2. top \in Seq(C) /\ Len(top) = 9
  <2>1. PICK n : n = 8 /\ Len(lines) = n
    OBVIOUS
  <2>2. top \in Seq(C) /\ Len(top) = Len(lines) + 1
    BY <1>1, Prolonged
  <2> QED
    BY <2>1, <2>2
<1>3. PICK whole : whole = top \o content
  OBVIOUS
<1>4. /\ whole \in Seq(C) /\ Len(whole) = 9 + Len(content)
      /\ \A i \in 1 .. 9 : whole[i] = top[i]
      /\ \A i \in 1 .. Len(content) : whole[9 + i] = content[i]
  <2>1. /\ whole \in Seq(C) /\ Len(whole) = Len(top) + Len(content)
        /\ \A i \in 1 .. Len(top) : whole[i] = top[i]
        /\ \A i \in 1 .. Len(content) : whole[Len(top) + i] = content[i]
    <3>1. whole = top \o content /\ top \in Seq(C) /\ content \in Seq(C)
      BY <1>2, <1>3, Zenon
    <3> QED
      BY <3>1, Appended
  <2> QED
    BY <1>2, <2>1
<1>5. PICK part : part = SubSeq(content, 1, k)
  OBVIOUS
<1>6. Len(content) \in Nat /\ k \in Nat /\ k <= Len(content)
  OBVIOUS
<1>7. part \in Seq(C) /\ Len(part) = k /\ \A i \in 1 .. k : part[i] = content[i]
  BY <1>5, CutOff
<1>8. PICK b : b = top \o part
  OBVIOUS
<1>9. /\ b \in Seq(C) /\ Len(b) = 9 + k
      /\ \A i \in 1 .. 9 : b[i] = top[i]
      /\ \A i \in 1 .. k : b[9 + i] = part[i]
  <2>1. /\ b \in Seq(C) /\ Len(b) = Len(top) + Len(part)
        /\ \A i \in 1 .. Len(top) : b[i] = top[i]
        /\ \A i \in 1 .. Len(part) : b[Len(top) + i] = part[i]
    <3>1. b = top \o part /\ top \in Seq(C) /\ part \in Seq(C)
      BY <1>2, <1>7, <1>8, Zenon
    <3> QED
      BY <3>1, Appended
  <2> QED
    BY <1>2, <1>7, <2>1
<1>10. PICK a : a = SubSeq(whole, 1, 9 + k)
  OBVIOUS
<1>11. 9 + k \in 0 .. Len(whole)
  BY <1>4, <1>6
<1>12. a \in Seq(C) /\ Len(a) = 9 + k /\ \A i \in 1 .. 9 + k : a[i] = whole[i]
  BY <1>4, <1>10, <1>11, CutOff
<1>13. ASSUME NEW i \in 1 .. 9 + k PROVE a[i] = b[i]
  <2>1. CASE i <= 9
    <3>1. i \in 1 .. 9
      BY <1>6, <2>1
    <3>2. a[i] = whole[i] /\ whole[i] = top[i] /\ b[i] = top[i]
      BY <1>4, <1>9, <1>12, <3>1
    <3> QED
      BY <3>2
  <2>2. CASE i > 9
    <3>1. PICK m \in 1 .. k : i = 9 + m
      BY <1>6, <2>2
    <3>2. whole[9 + m] = content[m] /\ b[9 + m] = content[m]
      BY <1>4, <1>6, <1>7, <1>9
    <3> QED
      BY <1>12, <3>1, <3>2
  <2> QED
    BY <1>6, <2>1, <2>2
<1>14. a = b
  BY <1>6, <1>9, <1>12, <1>13
<1> QED
  BY <1>1, <1>3, <1>5, <1>8, <1>10, <1>11, <1>14

(* What is said of a reply, of which any number of words may arrive *)
ReadsBack(rep) ==
  \A text \in {to_buffers(rep)} :
    /\ http_get(text, FALSE) = IF rep.status = "ok" THEN Outcome(0, Shown(rep)) ELSE NotOK
    /\ \A n \in 0 .. Len(text), broken \in BOOLEAN :
       \A early \in {http_get(SubSeq(text, 1, n), broken)} :
         /\ early.result = 1 <=> rep.status # "ok" /\ StatusArrived(SubSeq(text, 1, n))
         /\ IF rep.status = "ok"
            THEN Begins(early.shown, Shown(rep))
            ELSE early \in {Thrown, NotOK}

LEMMA OutcomeIs ==
  /\ \A r, s : Outcome(r, s).result = r /\ Outcome(r, s).shown = s
  /\ Thrown.result = 0 /\ Thrown.shown = Exception
  /\ NotOK.result = 1
<1>1. \A r, s : Outcome(r, s).result = r /\ Outcome(r, s).shown = s
  BY DEF Outcome
<1>2. PICK m : NotOK = Outcome(1, m)
  BY Zenon DEF NotOK
<1>3. Thrown = Outcome(0, Exception)
  BY Zenon DEF Thrown
<1> QED
  BY <1>1, <1>2, <1>3

(* An exception alone is a beginning of everything. *)
LEMMA ExceptionBegins ==
  ASSUME NEW C, NEW text \in Seq(C)
  PROVE  Begins(Exception, text)
<1>1. PICK e : Exception = <<e>>
  BY Zenon DEF Exception
<1>2. SubSeq(text, 1, 0) = <<>> /\ 0 \in 0 .. Len(text)
  OBVIOUS
<1>3. <<>> \o <<e>> = <<e>>
  OBVIOUS
<1>4. Exception = SubSeq(text, 1, 0) \o Exception
  BY <1>1, <1>2, <1>3
<1> QED
  BY <1>2, <1>4, Zenon DEF Begins

LEMMA HeadersReadBack ==
  ASSUME NEW status, NEW D, NEW content \in Seq(D), NEW type, type # crlf,
         NEW rep, rep = WithHeaders(status, content, type)
  PROVE  ReadsBack(rep)
<1> SUFFICES ASSUME NEW text, text = to_buffers(rep)
             PROVE  /\ http_get(text, FALSE) =
                         IF rep.status = "ok" THEN Outcome(0, Shown(rep)) ELSE NotOK
                    /\ \A n \in 0 .. Len(text), broken \in BOOLEAN :
                       \A early \in {http_get(SubSeq(text, 1, n), broken)} :
                         /\ early.result = 1
                              <=> rep.status # "ok" /\ StatusArrived(SubSeq(text, 1, n))
                         /\ IF rep.status = "ok"
                            THEN Begins(early.shown, Shown(rep))
                            ELSE early \in {Thrown, NotOK}
  BY Zenon DEF ReadsBack
<1>1. PICK lines : lines = Line(rep.headers[1]) \o Line(rep.headers[2])
  OBVIOUS
<1>2. PICK B : IsReplyWith(B, text, content, lines) /\ (text[2] = "200" <=> status = "ok")
  <2>1. \E B : /\ IsReplyWith(B, text, content, Line(rep.headers[1]) \o Line(rep.headers[2]))
               /\ text[2] = "200" <=> status = "ok"
    BY WireIs
  <2> QED
    BY <1>1, <2>1, Zenon
<1>3. PICK end : end = eol
  OBVIOUS
<1>4. PICK C : C = B \cup {end}
  BY Zenon
<1>5. /\ text \in Seq(C) /\ content \in Seq(C) /\ lines \in Seq(C) /\ end \in C
      /\ Len(lines) = 8
  BY <1>2, <1>4 DEF IsReplyWith
<1>6. /\ IsReply(text, content) /\ text[1] = "HTTP/1.0" /\ SubSeq(text, 5, 12) = lines
  BY <1>2, Zenon DEF IsReplyWith
<1>7. PICK ok \in BOOLEAN : ok <=> status = "ok"
  OBVIOUS
<1>8. (rep.status = "ok" <=> ok) /\ Shown(rep) = lines \o <<end>> \o content
  <2>1. rep.status = status /\ rep.content = content
    BY Zenon DEF WithHeaders
  <2> QED
    BY <1>1, <1>3, <1>7, <2>1, Zenon DEF Shown
<1>9. PICK shown : shown = lines \o <<end>> \o content
  OBVIOUS
<1>10. shown \in Seq(C)
  <2>1. PICK x : x = <<end>>
    OBVIOUS
  <2>2. x \in Seq(C)
    BY <1>5, <2>1
  <2>3. PICK top : top = lines \o x
    OBVIOUS
  <2>4. top \in Seq(C)
    BY <1>5, <2>2, <2>3, Appended
  <2> QED
    BY <1>5, <1>9, <2>1, <2>3, <2>4, Appended
<1>11. ASSUME NEW n \in 0 .. Len(text), NEW broken
       PROVE  http_get(SubSeq(text, 1, n), broken) =
                IF n < 4 THEN Thrown
                ELSE IF ~ok THEN NotOK
                ELSE IF n < 13 THEN Thrown
                ELSE Outcome(0, lines \o <<end>> \o SubSeq(content, 1, n - 13)
                                  \o (IF broken THEN Exception ELSE <<>>))
  <2>1. ok <=> text[2] = "200"
    BY <1>2, <1>7, Zenon
  <2>2. http_get(SubSeq(text, 1, n), broken) =
           IF n < 4 THEN Thrown
           ELSE IF ~ok THEN NotOK
           ELSE IF n < 13 THEN Thrown
           ELSE Outcome(0, SubSeq(text, 5, 12) \o <<eol>> \o SubSeq(content, 1, n - 13)
                             \o (IF broken THEN Exception ELSE <<>>))
    <3>1. /\ text \in Seq(C) /\ content \in Seq(C) /\ IsReply(text, content)
          /\ text[1] = "HTTP/1.0" /\ ok \in BOOLEAN /\ (ok <=> text[2] = "200")
          /\ n \in 0 .. Len(text)
      BY <1>5, <1>6, <1>7, <2>1
    <3> QED
      BY <3>1, ClientReads
  <2> QED
    BY <1>3, <1>6, <2>2, Zenon
<1>12. \A n \in 0 .. Len(text) : StatusArrived(SubSeq(text, 1, n)) <=> ~(n < 4)
  <2> SUFFICES ASSUME NEW n \in 0 .. Len(text)
               PROVE  StatusArrived(SubSeq(text, 1, n)) <=> ~(n < 4)
    OBVIOUS
  <2>1. PICK early : early = SubSeq(text, 1, n)
    OBVIOUS
  <2>2. /\ early \in Seq(C) /\ Len(early) = n /\ n \in Nat
        /\ \A i \in 1 .. n : early[i] = text[i]
    BY <1>5, <2>1, CutOff
  <2>3. DOMAIN early = 1 .. n
    BY <2>2
  <2>4. text[4] = crlf /\ text[1] # crlf /\ text[2] # crlf /\ text[3] # crlf
    BY <1>6 DEF IsReply
  <2>5. StatusArrived(early) <=> \E i \in 1 .. n : text[i] = crlf
    BY <2>2, <2>3, Zenon DEF StatusArrived
  <2>6. (\E i \in 1 .. n : text[i] = crlf) <=> ~(n < 4)
    <3>1. PICK d : d = crlf
      OBVIOUS
    <3>2. n < 4 => \A i \in 1 .. n : i = 1 \/ i = 2 \/ i = 3
      BY <2>2
    <3>3. n < 4 => \A i \in 1 .. n : text[i] # d
      BY <2>4, <3>1, <3>2, Zenon
    <3>4. ~(n < 4) => 4 \in 1 .. n
      BY <2>2
    <3> QED
      BY <2>4, <3>1, <3>3, <3>4, Zenon
  <2> QED
    BY <2>1, <2>5, <2>6, Zenon
<1>13. ASSUME NEW n \in 0 .. Len(text), NEW broken \in BOOLEAN,
              NEW early, early = http_get(SubSeq(text, 1, n), broken)
       PROVE  /\ early.result = 1 <=> ~ok /\ ~(n < 4)
              /\ IF ok THEN Begins(early.shown, shown) ELSE early \in {Thrown, NotOK}
  <2>1. CASE n < 4
    <3>1. early = Thrown
      BY <1>11, <1>13, <2>1, Zenon
    <3>2. early.result = 0 /\ early.shown = Exception
      BY <3>1, OutcomeIs, Zenon
    <3>3. Begins(Exception, shown)
      BY <1>10, ExceptionBegins
    <3>4. early.result # 1
      BY <3>2
    <3> QED
      BY <2>1, <3>1, <3>2, <3>3, <3>4, Zenon
  <2>2. CASE ~(n < 4) /\ ~ok
    <3>1. early = NotOK
      BY <1>11, <1>13, <2>2, Zenon
    <3> QED
      BY <2>2, <3>1, OutcomeIs, Zenon
  <2>3. CASE ~(n < 4) /\ ok /\ n < 13
    <3>1. early = Thrown
      BY <1>11, <1>13, <2>3, Zenon
    <3>2. early.result = 0 /\ early.shown = Exception
      BY <3>1, OutcomeIs, Zenon
    <3>3. Begins(Exception, shown)
      BY <1>10, ExceptionBegins
    <3>4. early.result # 1
      BY <3>2
    <3> QED
      BY <2>3, <3>1, <3>2, <3>3, <3>4, Zenon
  <2>4. CASE ~(n < 4) /\ ok /\ ~(n < 13)
    <3>1. PICK k : k = n - 13
      OBVIOUS
    <3>2. k \in 0 .. Len(content)
      BY <1>5, <1>6, <2>4, <3>1 DEF IsReply
    <3>3. PICK part : part = lines \o <<end>> \o SubSeq(content, 1, k)
      OBVIOUS
    <3>4. 9 + k \in 0 .. Len(shown) /\ SubSeq(shown, 1, 9 + k) = part
      <4>1. /\ lines \in Seq(C) /\ content \in Seq(C) /\ end \in C /\ Len(lines) = 8
            /\ k \in 0 .. Len(content)
        BY <1>5, <3>2
      <4>2. /\ 9 + k \in 0 .. Len(lines \o <<end>> \o content)
            /\ SubSeq(lines \o <<end>> \o content, 1, 9 + k)
                 = lines \o <<end>> \o SubSeq(content, 1, k)
        BY <4>1, BeginningIs
      <4> QED
        BY <1>9, <3>3, <4>2, Zenon
    <3>5. early = Outcome(0, part \o (IF broken THEN Exception ELSE <<>>))
      BY <1>11, <1>13, <2>4, <3>1, <3>3, Zenon
    <3>6. early.result = 0 /\ early.shown = part \o (IF broken THEN Exception ELSE <<>>)
      BY <3>5, OutcomeIs, Zenon
    <3>7. part \o <<>> = part
      <4>1. part \in Seq(C)
        BY <1>10, <3>4, CutOff
      <4> QED
        BY <4>1
    <3>8. early.shown = part \/ early.shown = part \o Exception
      BY <3>6, <3>7, Zenon
    <3>9. Begins(early.shown, shown)
      BY <3>4, <3>8, Zenon DEF Begins
    <3>10. early.result # 1
      BY <3>6
    <3> QED
      BY <2>4, <3>9, <3>10, Zenon
  <2> QED
    BY <2>1, <2>2, <2>3, <2>4
<1>14. http_get(text, FALSE) = IF ok THEN Outcome(0, shown) ELSE NotOK
  <2>1. PICK n : n = Len(text)
    OBVIOUS
  <2>2. n = 13 + Len(content) /\ Len(content) \in Nat /\ n \in 0 .. Len(text)
    BY <1>5, <1>6, <2>1 DEF IsReply
  <2>3. SubSeq(text, 1, n) = text
    BY <1>5, <2>1
  <2>4. ~(n < 4) /\ ~(n < 13) /\ n - 13 = Len(content)
    BY <2>2
  <2>5. SubSeq(content, 1, n - 13) = content
    BY <1>5, <2>4
  <2>6. http_get(text, FALSE) =
          IF ~ok THEN NotOK
          ELSE Outcome(0, lines \o <<end>> \o SubSeq(content, 1, n - 13) \o <<>>)
    BY <1>11, <2>2, <2>3, <2>4, Zenon
  <2>7. shown \o <<>> = shown
    BY <1>10
  <2> QED
    BY <1>9, <2>5, <2>6, <2>7, Zenon
<1>15. /\ http_get(text, FALSE) = IF rep.status = "ok" THEN Outcome(0, Shown(rep)) ELSE NotOK
  BY <1>8, <1>9, <1>14, Zenon
<1>16. ASSUME NEW n \in 0 .. Len(text), NEW broken \in BOOLEAN,
              NEW early \in {http_get(SubSeq(text, 1, n), broken)}
       PROVE  /\ early.result = 1 <=> rep.status # "ok" /\ StatusArrived(SubSeq(text, 1, n))
              /\ IF rep.status = "ok"
                 THEN Begins(early.shown, Shown(rep))
                 ELSE early \in {Thrown, NotOK}
  <2>1. early = http_get(SubSeq(text, 1, n), broken)
    BY Zenon
  <2>2. /\ early.result = 1 <=> ~ok /\ ~(n < 4)
        /\ IF ok THEN Begins(early.shown, shown) ELSE early \in {Thrown, NotOK}
    BY <1>13, <2>1, Zenon
  <2> QED
    BY <1>8, <1>9, <1>12, <2>2, Zenon
<1> QED
  BY <1>15, <1>16, Zenon

LEMMA StockReadsBack ==
  ASSUME NEW status, NEW rep, rep = stock_reply(status)
  PROVE  ReadsBack(rep)
<1>1. \E D : StockContent(status) \in Seq(D)
  <2>1. CASE status = "ok"
    <3>1. \A D : <<>> \in Seq(D)
      OBVIOUS
    <3> QED
      BY <2>1, <3>1, Zenon DEF StockContent
  <2>2. CASE status # "ok"
    <3>1. PICK a : StockContent(status) = <<a>>
      BY <2>2, Zenon DEF StockContent
    <3>2. StockContent(status) \in Seq({a})
      BY <3>1
    <3> QED
      BY <3>2
  <2> QED
    BY <2>1, <2>2
<1>2. PICK D : StockContent(status) \in Seq(D)
  BY <1>1
<1>3. PICK content : content = StockContent(status)
  OBVIOUS
<1>4. PICK type : type = "text/html"
  BY Zenon
<1>5. type # crlf
  BY <1>4, Zenon DEF crlf
<1>6. rep = WithHeaders(status, content, type)
  BY <1>3, <1>4, Zenon DEF stock_reply
<1> QED
  BY <1>2, <1>3, <1>5, <1>6, HeadersReadBack

(* The client shows the headers of a reply and the whole of its content,   *)
(* and of one that is cut off a beginning of that, perhaps with its        *)
(* exception, and nothing else; it fails exactly when a status other than  *)
(* ok has arrived (http_client.cpp, reply.cpp): for every content, with    *)
(* any empty lines of its own, every place of the cut, and a connection    *)
(* that is closed or broken there.                                         *)
THEOREM RepliesAreReadBack == Spec => []RepliesReadBack
<1>1. ASSUME NEW uri, NEW rep \in ArchivedReplies(uri)
      PROVE  ReadsBack(rep)
  <2>1. CASE rep = stock_reply("bad_request")
    BY <2>1, StockReadsBack
  <2>2. CASE rep = stock_reply("not_found")
    BY <2>2, StockReadsBack
  <2>3. ASSUME NEW content \in Contents,
               rep = WithHeaders("ok", content, ContentType(WithIndex(uri.path)))
        PROVE  ReadsBack(rep)
    <3>1. PICK D : D = STRING
      OBVIOUS
    <3>2. content \in Seq(D)
      BY <3>1, ContentsAssumption
    <3>3. PICK type : type = ContentType(WithIndex(uri.path))
      OBVIOUS
    <3>4. type # crlf
      BY <3>3, Zenon DEF crlf, ContentType
    <3>5. PICK status : status = "ok"
      BY Zenon
    <3>6. rep = WithHeaders(status, content, type)
      BY <2>3, <3>3, <3>5, Zenon
    <3> QED
      BY <3>2, <3>4, <3>6, HeadersReadBack
  <2>4. \/ rep = stock_reply("bad_request")
        \/ rep = stock_reply("not_found")
        \/ \E content \in Contents :
             rep = WithHeaders("ok", content, ContentType(WithIndex(uri.path)))
    BY Zenon DEF ArchivedReplies
  <2> QED
    BY <2>1, <2>2, <2>3, <2>4
<1>2. RepliesReadBack
  BY <1>1, Zenon DEF RepliesReadBack, ReadsBack
<1> QED
  BY <1>2, PTL

-----------------------------------------------------------------------------
(***************************************************************************)
(* Numbers                                                                 *)
(***************************************************************************)

LEMMA NatsUpwards ==
  ASSUME NEW T, 0 \in T, \A n \in Nat : n \in T => n + 1 \in T
  PROVE  \A n \in Nat : n \in T
<1> DEFINE rest == Nat \ T
<1> SUFFICES ASSUME rest # {} PROVE FALSE
  OBVIOUS
<1>1. PICK m \in rest : \A k \in rest : m <= k
  <2>1. rest \in SUBSET Nat
    OBVIOUS
  <2> HIDE DEF rest
  <2> QED
    BY <2>1, MinFacts
<1>2. m # 0 /\ m \in Nat /\ m \notin T
  OBVIOUS
<1>3. m - 1 \in Nat /\ m - 1 \notin rest /\ (m - 1) + 1 = m
  BY <1>1, <1>2
<1> QED
  BY <1>2, <1>3

LEMMA EndOfRunIs ==
  ASSUME NEW C, NEW text \in Seq(C), NEW from \in Nat \ {0}, NEW chars,
         from <= Len(text) + 1, NEW end, end = EndOfRun(text, from, chars)
  PROVE  /\ end \in from .. Len(text) + 1
         /\ \A i \in from .. end - 1 : text[i] \in chars
         /\ end <= Len(text) => text[end] \notin chars
<1> DEFINE S == {i \in from .. Len(text) : text[i] \notin chars} \cup {Len(text) + 1}
<1>1. S \in SUBSET Nat /\ S # {} /\ Len(text) \in Nat
  OBVIOUS
<1>2. end \in S /\ \A k \in S : end <= k
  <2> HIDE DEF S
  <2>1. end = Min(S)
    BY DEF S, EndOfRun
  <2> QED
    BY <1>1, <2>1, MinFacts
<1> QED
  BY <1>1, <1>2

LEMMA DigitsAre ==
  DigitsOf(16) = {"0", "1", "2", "3", "4", "5", "6", "7", "8", "9", "A", "B", "C", "D", "E", "F"}
<1>1. \A i : i \in 1 .. 16 <=> i \in {1, 2, 3, 4, 5, 6, 7, 8, 9, 10, 11, 12, 13, 14, 15, 16}
  OBVIOUS
<1>2. /\ Digits[1] = "0" /\ Digits[2] = "1" /\ Digits[3] = "2" /\ Digits[4] = "3"
      /\ Digits[5] = "4" /\ Digits[6] = "5" /\ Digits[7] = "6" /\ Digits[8] = "7"
      /\ Digits[9] = "8" /\ Digits[10] = "9" /\ Digits[11] = "A" /\ Digits[12] = "B"
      /\ Digits[13] = "C" /\ Digits[14] = "D" /\ Digits[15] = "E" /\ Digits[16] = "F"
  BY Zenon DEF Digits
<1> QED
  BY <1>1, <1>2 DEF DigitsOf

LEMMA NoDigits ==
  /\ "%" \notin DigitsOf(16) /\ "+" \notin DigitsOf(16) /\ "-" \notin DigitsOf(16)
  /\ " " \notin DigitsOf(16) /\ "?" \notin DigitsOf(16) /\ "&" \notin DigitsOf(16)
  /\ ";" \notin DigitsOf(16) /\ "=" \notin DigitsOf(16)
BY DigitsAre, Zenon

LEMMA DigitValueIs ==
  ASSUME NEW ch \in DigitsOf(16)
  PROVE  DigitValue(ch) \in Nat /\ DigitValue(ch) <= 15
<1>1. \E i \in 1 .. 16 : Digits[i] = ch
  BY DEF DigitsOf
<1>2. PICK i : i = CHOOSE k \in 1 .. 16 : Digits[k] = ch
  OBVIOUS
<1>3. i \in 1 .. 16
  BY <1>1, <1>2
<1>4. DigitValue(ch) = i - 1
  BY <1>2 DEF DigitValue
<1> QED
  BY <1>3, <1>4

LEMMA FewerDigits == DigitsOf(10) \subseteq DigitsOf(16)
BY DEF DigitsOf

(* The number that the first n characters spell, f of the shorter ones *)
UpTo(text, base, f, n) == IF n = 0 THEN 0 ELSE base * f[n - 1] + DigitValue(text[n])

LEMMA SpelledIs ==
  ASSUME NEW C, NEW text \in Seq(C), NEW base
  PROVE  \E f : /\ \A i \in 0 .. Len(text) : f[i] = UpTo(text, base, f, i)
               /\ Spelled(text, base) = f[Len(text)]
<1> DEFINE Fits(n, f) == f = [i \in 0 .. n |-> UpTo(text, base, f, i)]
           T == {n \in Nat : \E f : Fits(n, f)}
<1>1. 0 \in T
  <2> DEFINE g == [i \in 0 .. 0 |-> 0]
  <2>1. Fits(0, g)
    BY DEF UpTo
  <2> HIDE DEF g
  <2> QED
    BY <2>1
<1>2. ASSUME NEW n \in Nat, n \in T PROVE n + 1 \in T
  <2>1. PICK f : Fits(n, f)
    BY <1>2
  <2> DEFINE g == [i \in 0 .. n + 1 |-> IF i = n + 1 THEN UpTo(text, base, f, n + 1) ELSE f[i]]
  <2>2. \A i \in 0 .. n : f[i] = UpTo(text, base, f, i)
    BY <2>1
  <2>3. \A i \in 0 .. n : g[i] = f[i]
    OBVIOUS
  <2>4. \A i \in 0 .. n + 1 : UpTo(text, base, g, i) = UpTo(text, base, f, i)
    <3> HIDE DEF g
    <3> QED
      BY <2>3 DEF UpTo
  <2>5. g[n + 1] = UpTo(text, base, f, n + 1)
    OBVIOUS
  <2>6. \A i \in 0 .. n + 1 : g[i] = UpTo(text, base, g, i)
    <3> HIDE DEF g
    <3> QED
      BY <2>2, <2>3, <2>4, <2>5
  <2>7. g = [i \in 0 .. n + 1 |-> g[i]]
    OBVIOUS
  <2>8. Fits(n + 1, g)
    <3> HIDE DEF g
    <3> QED
      BY <2>6, <2>7
  <2> HIDE DEF g, Fits
  <2> QED
    BY <2>8
<1>3. Len(text) \in T
  <2> HIDE DEF T
  <2> QED
    BY <1>1, <1>2, NatsUpwards
<1>4. PICK g : Fits(Len(text), g)
  BY <1>3
<1> DEFINE Recursive(f) == Fits(Len(text), f)
           upTo == CHOOSE f : Recursive(f)
<1>5. Recursive(upTo)
  <2>1. Recursive(g)
    BY <1>4
  <2> HIDE DEF Recursive
  <2> QED
    BY <2>1
<1>6. Spelled(text, base) = upTo[Len(text)]
  BY DEF Spelled, UpTo
<1>7. PICK f : f = upTo
  OBVIOUS
<1>8. Fits(Len(text), f)
  <2> HIDE DEF upTo
  <2>1. Recursive(f)
    <3> HIDE DEF Recursive
    <3> QED
      BY <1>5, <1>7, Zenon
  <2> QED
    BY <2>1, Zenon
<1>9. \A i \in 0 .. Len(text) : f[i] = UpTo(text, base, f, i)
  <2> HIDE DEF upTo
  <2> QED
    BY <1>8
<1> HIDE DEF upTo
<1> QED
  BY <1>6, <1>7, <1>9

LEMMA SpelledNat ==
  ASSUME NEW C, NEW text \in Seq(C), NEW base \in Nat,
         \A i \in 1 .. Len(text) : text[i] \in DigitsOf(16)
  PROVE  Spelled(text, base) \in Nat
<1>1. PICK f : /\ \A i \in 0 .. Len(text) : f[i] = UpTo(text, base, f, i)
               /\ Spelled(text, base) = f[Len(text)]
  BY SpelledIs
<1> DEFINE T == {n \in Nat : n <= Len(text) => f[n] \in Nat}
<1>2. 0 \in T
  BY <1>1 DEF UpTo
<1>3. ASSUME NEW n \in Nat, n \in T PROVE n + 1 \in T
  <2> SUFFICES ASSUME n + 1 <= Len(text) PROVE f[n + 1] \in Nat
    OBVIOUS
  <2>1. f[n] \in Nat /\ (n + 1) - 1 = n /\ n + 1 # 0
    BY <1>3
  <2>2. f[n + 1] = base * f[n] + DigitValue(text[n + 1])
    BY <1>1, <2>1 DEF UpTo
  <2>3. DigitValue(text[n + 1]) \in Nat
    BY DigitValueIs
  <2> QED
    BY <2>1, <2>2, <2>3
<1>4. Len(text) \in T
  <2> HIDE DEF T
  <2> QED
    BY <1>2, <1>3, NatsUpwards
<1> QED
  BY <1>1, <1>4

(* How a number is read: blanks, a sign and digits up to three places *)
Blanks == {" "}
Signs  == {"+", "-"}

ReadsNumber(text, base, sign, first, end) ==
  /\ sign \in 1 .. Len(text) + 1
  /\ \A i \in 1 .. sign - 1 : text[i] \in Blanks
  /\ sign <= Len(text) => text[sign] \notin Blanks
  /\ first = IF sign <= Len(text) /\ text[sign] \in Signs THEN sign + 1 ELSE sign
  /\ end \in first .. Len(text) + 1
  /\ \A i \in first .. end - 1 : text[i] \in DigitsOf(base)
  /\ end <= Len(text) => text[end] \notin DigitsOf(base)

LEMMA NumberIs ==
  ASSUME NEW C, NEW text \in Seq(C), NEW base
  PROVE  \E sign, first, end :
           /\ ReadsNumber(text, base, sign, first, end)
           /\ Number(text, base).found = (end > first)
           /\ Number(text, base).negative = (first > sign /\ text[sign] = "-")
           /\ Number(text, base).magnitude = Spelled(SubSeq(text, first, end - 1), base)
<1>1. PICK sign : sign = EndOfRun(text, 1, Blanks)
  OBVIOUS
<1>2. PICK first : first = IF sign <= Len(text) /\ text[sign] \in Signs THEN sign + 1 ELSE sign
  OBVIOUS
<1>3. PICK end : end = EndOfRun(text, first, DigitsOf(base))
  OBVIOUS
<1>4. /\ Number(text, base).found = (end > first)
      /\ Number(text, base).negative = (first > sign /\ text[sign] = "-")
      /\ Number(text, base).magnitude = Spelled(SubSeq(text, first, end - 1), base)
  BY <1>1, <1>2, <1>3, Zenon DEF Number, Blanks, Signs
<1>5. /\ sign \in 1 .. Len(text) + 1
      /\ \A i \in 1 .. sign - 1 : text[i] \in Blanks
      /\ sign <= Len(text) => text[sign] \notin Blanks
  <2>1. PICK one \in Nat \ {0} : one = 1
    OBVIOUS
  <2>2. one <= Len(text) + 1 /\ sign = EndOfRun(text, one, Blanks)
    BY <1>1, <2>1
  <2>3. /\ sign \in one .. Len(text) + 1
        /\ \A i \in one .. sign - 1 : text[i] \in Blanks
        /\ sign <= Len(text) => text[sign] \notin Blanks
    BY <2>2, EndOfRunIs
  <2> QED
    BY <2>1, <2>3
<1>6. first \in Nat \ {0} /\ first <= Len(text) + 1
  BY <1>2, <1>5
<1>7. PICK digits : digits = DigitsOf(base)
  OBVIOUS
<1>8. /\ end \in first .. Len(text) + 1
      /\ \A i \in first .. end - 1 : text[i] \in digits
      /\ end <= Len(text) => text[end] \notin digits
  BY <1>3, <1>6, <1>7, EndOfRunIs
<1>9. ReadsNumber(text, base, sign, first, end)
  BY <1>2, <1>5, <1>7, <1>8 DEF ReadsNumber
<1> QED
  BY <1>4, <1>9

LEMMA NumberNat ==
  ASSUME NEW C, NEW text \in Seq(C)
  PROVE  /\ Number(text, 10).magnitude \in Nat /\ Signed(Number(text, 10)) \in Int
         /\ Number(text, 16).magnitude \in Nat /\ Signed(Number(text, 16)) \in Int
<1>1. ASSUME NEW base \in {10, 16}
      PROVE  Number(text, base).magnitude \in Nat /\ Signed(Number(text, base)) \in Int
  <2>1. PICK sign, first, end :
          /\ ReadsNumber(text, base, sign, first, end)
          /\ Number(text, base).magnitude = Spelled(SubSeq(text, first, end - 1), base)
    BY NumberIs
  <2>2. PICK s : s = SubSeq(text, first, end - 1)
    OBVIOUS
  <2>3. first \in 1 .. Len(text) + 1 /\ end \in first .. Len(text) + 1
    BY <2>1 DEF ReadsNumber
  <2>4. /\ s \in Seq(C) /\ Len(s) = end - first
        /\ \A i \in 1 .. end - first : s[i] = text[first + i - 1]
    BY <2>2, <2>3
  <2>5. \A i \in 1 .. Len(s) : s[i] \in DigitsOf(16)
    <3> SUFFICES ASSUME NEW i \in 1 .. Len(s) PROVE s[i] \in DigitsOf(16)
      OBVIOUS
    <3>1. first + i - 1 \in first .. end - 1 /\ s[i] = text[first + i - 1]
      BY <2>3, <2>4
    <3>2. s[i] \in DigitsOf(base)
      BY <2>1, <3>1 DEF ReadsNumber
    <3> QED
      BY <3>2, FewerDigits
  <2>6. base \in Nat
    OBVIOUS
  <2>7. Spelled(s, base) \in Nat
    BY <2>4, <2>5, <2>6, SpelledNat
  <2> QED
    BY <2>1, <2>2, <2>7 DEF Signed
<1> QED
  BY <1>1

LEMMA DecimalIs ==
  ASSUME NEW C, NEW text \in Seq(C), IsDecimal(text),
         NEW n, n = Number(text, 10)
  PROVE  n.found = TRUE /\ n.negative = FALSE /\ n.magnitude = Decimal(text) /\ Decimal(text) \in Nat
<1>1. PICK sign, first, end :
        /\ ReadsNumber(text, 10, sign, first, end)
        /\ n.found = (end > first)
        /\ n.negative = (first > sign /\ text[sign] = "-")
        /\ n.magnitude = Spelled(SubSeq(text, first, end - 1), 10)
  BY NumberIs
<1>2. Len(text) \in Nat \ {0} /\ \A i \in 1 .. Len(text) : text[i] \in DigitsOf(10)
  BY DEF IsDecimal
<1>3. \A ch \in DigitsOf(10) : ch \notin Blanks /\ ch \notin Signs
  BY FewerDigits, NoDigits, Zenon DEF Blanks, Signs
<1>4. sign = 1
  <2>1. 1 \notin 1 .. sign - 1
    BY <1>1, <1>2, <1>3 DEF ReadsNumber
  <2> QED
    BY <1>1, <2>1 DEF ReadsNumber
<1>5. first = 1
  BY <1>1, <1>2, <1>3, <1>4 DEF ReadsNumber
<1>6. end = Len(text) + 1
  BY <1>1, <1>2, <1>5 DEF ReadsNumber
<1>7. SubSeq(text, first, end - 1) = text
  BY <1>2, <1>5, <1>6
<1>8. Decimal(text) \in Nat
  <2>1. \A i \in 1 .. Len(text) : text[i] \in DigitsOf(16)
    BY <1>2, FewerDigits
  <2> QED
    BY <2>1, SpelledNat DEF Decimal
<1>9. end > first /\ ~(first > sign)
  BY <1>2, <1>4, <1>5, <1>6
<1> QED
  BY <1>1, <1>7, <1>8, <1>9, Zenon DEF Decimal

LEMMA NegativeIs ==
  ASSUME NEW C, NEW text \in Seq(C), text # <<>>, text[1] = "-", IsDecimal(Tail(text)),
         NEW n, n = Number(text, 10)
  PROVE  /\ n.found = TRUE /\ n.negative = TRUE
         /\ n.magnitude = Decimal(Tail(text)) /\ Decimal(Tail(text)) \in Nat
<1>1. PICK sign, first, end :
        /\ ReadsNumber(text, 10, sign, first, end)
        /\ n.found = (end > first)
        /\ n.negative = (first > sign /\ text[sign] = "-")
        /\ n.magnitude = Spelled(SubSeq(text, first, end - 1), 10)
  BY NumberIs
<1>2. PICK tail : tail = Tail(text)
  OBVIOUS
<1>3. /\ tail \in Seq(C) /\ Len(text) \in Nat \ {0} /\ Len(tail) = Len(text) - 1
      /\ \A i \in 1 .. Len(tail) : tail[i] = text[i + 1]
  BY <1>2
<1>4. Len(tail) > 0 /\ \A i \in 1 .. Len(tail) : tail[i] \in DigitsOf(10)
  <2>1. IsDecimal(tail)
    BY <1>2
  <2> QED
    BY <1>3, <2>1 DEF IsDecimal
<1>5. text[1] \in Signs /\ text[1] \notin Blanks
  BY Zenon DEF Signs, Blanks
<1>6. sign = 1
  <2>1. 1 \notin 1 .. sign - 1
    BY <1>1, <1>5 DEF ReadsNumber
  <2> QED
    BY <1>1, <2>1 DEF ReadsNumber
<1>7. first = 2
  BY <1>1, <1>3, <1>5, <1>6 DEF ReadsNumber
<1>8. \A i \in 2 .. Len(text) : text[i] \in DigitsOf(10)
  <2> SUFFICES ASSUME NEW i \in 2 .. Len(text) PROVE text[i] \in DigitsOf(10)
    OBVIOUS
  <2>1. i - 1 \in 1 .. Len(tail) /\ (i - 1) + 1 = i
    BY <1>3
  <2> QED
    BY <1>3, <1>4, <2>1
<1>9. end = Len(text) + 1
  BY <1>1, <1>3, <1>7, <1>8 DEF ReadsNumber
<1>10. SubSeq(text, first, end - 1) = tail
  <2>1. PICK s : s = SubSeq(text, first, end - 1)
    OBVIOUS
  <2>2. s \in Seq(C) /\ Len(s) = Len(text) - 1 /\ \A i \in 1 .. Len(text) - 1 : s[i] = text[i + 1]
    BY <1>3, <1>7, <1>9, <2>1
  <2>3. s = tail
    BY <1>3, <2>2
  <2> QED
    BY <2>1, <2>3
<1>11. Decimal(tail) \in Nat
  <2>1. \A i \in 1 .. Len(tail) : tail[i] \in DigitsOf(16)
    BY <1>4, FewerDigits
  <2> QED
    BY <1>3, <2>1, SpelledNat DEF Decimal
<1>12. end > first /\ first > sign
  BY <1>3, <1>4, <1>6, <1>7, <1>9
<1> QED
  BY <1>1, <1>2, <1>6, <1>10, <1>11, <1>12, Zenon DEF Decimal

(* Of what follows a %, two hex digits are read if no third follows.       *)
LEMMA EscapeIs ==
  ASSUME NEW C, NEW text \in Seq(C), NEW i \in 1 .. Len(text), i + 2 <= Len(text),
         text[i + 1] \in Hex, text[i + 2] \in Hex,
         i + 3 <= Len(text) => text[i + 3] \notin Hex,
         NEW n, n = Number(SubSeq(text, i + 1, Len(text)), 16)
  PROVE  /\ n.found = TRUE
         /\ Signed(n) = 16 * DigitValue(text[i + 1]) + DigitValue(text[i + 2])
<1>1. PICK s : s = SubSeq(text, i + 1, Len(text))
  OBVIOUS
<1>2. s \in Seq(C) /\ Len(s) = Len(text) - i /\ \A k \in 1 .. Len(text) - i : s[k] = text[i + k]
  BY <1>1
<1>3. /\ Len(s) \in Nat /\ Len(s) >= 2 /\ s[1] = text[i + 1] /\ s[2] = text[i + 2]
      /\ Len(s) >= 3 => s[3] \notin Hex
  BY <1>2
<1>4. PICK sign, first, end :
        /\ ReadsNumber(s, 16, sign, first, end)
        /\ n.found = (end > first)
        /\ n.negative = (first > sign /\ s[sign] = "-")
        /\ n.magnitude = Spelled(SubSeq(s, first, end - 1), 16)
  <2>1. n = Number(s, 16) /\ s \in Seq(C)
    BY <1>1, <1>2
  <2> QED
    BY <2>1, NumberIs
<1>5. s[1] \notin Blanks /\ s[1] \notin Signs
  <2>1. \A ch \in Hex : ch \notin Blanks /\ ch \notin Signs
    BY NoDigits, Zenon DEF Blanks, Signs, Hex
  <2> QED
    BY <1>3, <2>1
<1>6. sign = 1
  <2>1. 1 \notin 1 .. sign - 1
    BY <1>4, <1>5 DEF ReadsNumber
  <2> QED
    BY <1>4, <2>1 DEF ReadsNumber
<1>7. first = 1
  BY <1>3, <1>4, <1>5, <1>6 DEF ReadsNumber
<1>8. end = 3
  <2> USE DEF Hex
  <2>1. end # 1 /\ end # 2
    BY <1>3, <1>4 DEF ReadsNumber
  <2>2. ~(end > 3)
    <3> SUFFICES ASSUME end > 3 PROVE FALSE
      OBVIOUS
    <3>1. end \in 1 .. Len(s) + 1
      BY <1>4, <1>7 DEF ReadsNumber
    <3>2. 3 \in first .. end - 1 /\ Len(s) >= 3
      BY <1>3, <1>7, <3>1
    <3> QED
      BY <1>3, <1>4, <3>2 DEF ReadsNumber
  <2> QED
    BY <1>4, <1>7, <2>1, <2>2 DEF ReadsNumber
<1>9. PICK d : d = SubSeq(s, 1, 2)
  OBVIOUS
<1>10. d \in Seq(C) /\ Len(d) = 2 /\ d[1] = text[i + 1] /\ d[2] = text[i + 2]
  BY <1>2, <1>3, <1>9
<1>11. Spelled(d, 16) = 16 * DigitValue(text[i + 1]) + DigitValue(text[i + 2])
  <2>1. PICK f : /\ \A k \in 0 .. Len(d) : f[k] = UpTo(d, 16, f, k)
                 /\ Spelled(d, 16) = f[Len(d)]
    BY <1>10, SpelledIs
  <2>2. f[0] = 0
    BY <1>10, <2>1 DEF UpTo
  <2>3. f[1] = 16 * f[0] + DigitValue(d[1])
    BY <1>10, <2>1 DEF UpTo
  <2>4. f[2] = 16 * f[1] + DigitValue(d[2])
    BY <1>10, <2>1 DEF UpTo
  <2>5. DigitValue(d[1]) \in Nat /\ DigitValue(d[2]) \in Nat
    <3>1. d[1] \in DigitsOf(16) /\ d[2] \in DigitsOf(16)
      BY <1>10 DEF Hex
    <3> QED
      BY <3>1, DigitValueIs
  <2> QED
    BY <1>10, <2>1, <2>2, <2>3, <2>4, <2>5
<1>12. SubSeq(s, first, end - 1) = d
  BY <1>7, <1>8, <1>9
<1>13. end > first /\ ~(first > sign)
  BY <1>6, <1>7, <1>8
<1>14. n.found = TRUE /\ n.negative = FALSE /\ n.magnitude = Spelled(d, 16)
  BY <1>4, <1>12, <1>13, Zenon
<1> QED
  BY <1>11, <1>14 DEF Signed

-----------------------------------------------------------------------------
(***************************************************************************)
(* Decoding                                                                *)
(***************************************************************************)

Decoded(ch, rest) == [rest EXCEPT !.out = <<ch>> \o @]

EndOfView == [ok |-> TRUE, out |-> <<>>]

(* One step of url_decode(), f being what it makes of the later places *)
DecodeStep(text, last, f, i) ==
  IF i > last THEN EndOfView
  ELSE IF text[i] = "%" THEN
    IF i + 2 > last \/ ~Number(SubSeq(text, i + 1, Len(text)), 16).found THEN Undecodable
    ELSE Decoded(Char(Signed(Number(SubSeq(text, i + 1, Len(text)), 16)) % 256), f[i + 3])
  ELSE Decoded(IF text[i] = "+" THEN " " ELSE text[i], f[i + 1])

LEMMA StepLooksAhead ==
  ASSUME NEW text, NEW last \in Nat, NEW n \in Nat, NEW f, NEW g,
         \A k \in n + 1 .. last + 1 : f[k] = g[k]
  PROVE  DecodeStep(text, last, f, n) = DecodeStep(text, last, g, n)
<1>1. ~(n > last) => f[n + 1] = g[n + 1]
  OBVIOUS
<1>2. ~(n + 2 > last) => f[n + 3] = g[n + 3]
  OBVIOUS
<1>3. CASE n > last
  BY <1>3, Zenon DEF DecodeStep
<1>4. CASE ~(n > last) /\ n + 2 > last
  BY <1>1, <1>4, Zenon DEF DecodeStep
<1>5. CASE ~(n > last) /\ ~(n + 2 > last)
  BY <1>1, <1>2, <1>5, Zenon DEF DecodeStep
<1> QED
  BY <1>3, <1>4, <1>5

LEMMA DecodeIs ==
  ASSUME NEW text, NEW first \in Nat, NEW last \in Nat, first <= last + 1
  PROVE  \E f : /\ \A i \in first .. last + 1 : f[i] = DecodeStep(text, last, f, i)
                /\ url_decode(text, first, last) = f[first]
<1> DEFINE Fits(n, f) == f = [i \in n .. last + 1 |-> DecodeStep(text, last, f, i)]
           T == {n \in first .. last + 1 : \E f : Fits(n, f)}
<1>1. last + 1 \in T
  <2> DEFINE g == [i \in last + 1 .. last + 1 |-> EndOfView]
  <2>1. \A i \in last + 1 .. last + 1 : DecodeStep(text, last, g, i) = EndOfView
    <3> SUFFICES ASSUME NEW i \in last + 1 .. last + 1
                 PROVE  DecodeStep(text, last, g, i) = EndOfView
      OBVIOUS
    <3>1. i > last
      OBVIOUS
    <3> QED
      BY <3>1, Zenon DEF DecodeStep
  <2>2. Fits(last + 1, g)
    BY <2>1
  <2> HIDE DEF g
  <2> QED
    BY <2>2
<1>2. ASSUME NEW n \in first .. last, n + 1 \in T PROVE n \in T
  <2>1. PICK f : Fits(n + 1, f)
    BY <1>2
  <2> DEFINE g == [i \in n .. last + 1 |-> IF i = n THEN DecodeStep(text, last, f, n) ELSE f[i]]
  <2>2. \A i \in n + 1 .. last + 1 : f[i] = DecodeStep(text, last, f, i)
    BY <2>1
  <2>3. \A i \in n + 1 .. last + 1 : g[i] = f[i]
    OBVIOUS
  <2>4. \A i \in n .. last + 1 : DecodeStep(text, last, g, i) = DecodeStep(text, last, f, i)
    <3> SUFFICES ASSUME NEW i \in n .. last + 1
                 PROVE  DecodeStep(text, last, g, i) = DecodeStep(text, last, f, i)
      OBVIOUS
    <3> HIDE DEF g
    <3>1. \A k \in i + 1 .. last + 1 : g[k] = f[k]
      BY <2>3
    <3> QED
      BY <3>1, StepLooksAhead
  <2>5. g[n] = DecodeStep(text, last, f, n)
    OBVIOUS
  <2>6. \A i \in n .. last + 1 : g[i] = DecodeStep(text, last, g, i)
    <3> HIDE DEF g
    <3> QED
      BY <2>2, <2>3, <2>4, <2>5
  <2>7. g = [i \in n .. last + 1 |-> g[i]]
    OBVIOUS
  <2>8. Fits(n, g)
    <3> HIDE DEF g
    <3> QED
      BY <2>6, <2>7
  <2> HIDE DEF g, Fits
  <2> QED
    BY <2>8
<1>3. first \in T
  <2> HIDE DEF T
  <2>1. \A n \in first .. last + 1 : (\A k \in n + 1 .. last + 1 : k \in T) => n \in T
    <3> SUFFICES ASSUME NEW n \in first .. last + 1, \A k \in n + 1 .. last + 1 : k \in T
                 PROVE  n \in T
      OBVIOUS
    <3>1. CASE n = last + 1
      BY <1>1, <3>1
    <3>2. CASE n # last + 1
      <4>1. n \in first .. last /\ n + 1 \in T
        BY <3>2
      <4> QED
        BY <1>2, <4>1
    <3> QED
      BY <3>1, <3>2
  <2>2. last + 1 \in Nat /\ first \in first .. last + 1
    OBVIOUS
  <2>3. \A n \in first .. last + 1 : n \in T
    BY <2>1, <2>2, PlacesBackwards, Zenon
  <2> QED
    BY <2>2, <2>3
<1>4. PICK g : Fits(first, g)
  BY <1>3
<1> DEFINE Recursive(f) == Fits(first, f)
           from == CHOOSE f : Recursive(f)
<1>5. Recursive(from)
  <2>1. Recursive(g)
    BY <1>4
  <2> HIDE DEF Recursive
  <2> QED
    BY <2>1
<1>6. url_decode(text, first, last) = from[first]
  BY DEF url_decode, DecodeStep, Decoded, EndOfView
<1>7. PICK f : f = from
  OBVIOUS
<1>8. Fits(first, f)
  <2> HIDE DEF from
  <2>1. Recursive(f)
    <3> HIDE DEF Recursive
    <3> QED
      BY <1>5, <1>7, Zenon
  <2> QED
    BY <2>1, Zenon
<1>9. \A i \in first .. last + 1 : f[i] = DecodeStep(text, last, f, i)
  <2> HIDE DEF from
  <2> QED
    BY <1>8
<1> HIDE DEF from
<1> QED
  BY <1>6, <1>7, <1>9

LEMMA DecodedIsText ==
  ASSUME NEW D, NEW text \in Seq(D), NEW first \in Nat \ {0}, NEW last \in Nat,
         first <= last + 1, last <= Len(text)
  PROVE  \E C : url_decode(text, first, last) \in [ok : BOOLEAN, out : Seq(C)]
<1>1. PICK f : /\ \A i \in first .. last + 1 : f[i] = DecodeStep(text, last, f, i)
               /\ url_decode(text, first, last) = f[first]
  BY DecodeIs
<1>2. PICK blank : blank = " "
  BY Zenon
<1>3. PICK C : C = D \cup {blank} \cup {Char(n) : n \in Int}
  OBVIOUS
<1> DEFINE T == {n \in first .. last + 1 : f[n] \in [ok : BOOLEAN, out : Seq(C)]}
<1>4. ASSUME NEW n \in first .. last + 1, \A k \in n + 1 .. last + 1 : k \in T PROVE n \in T
  <2>1. EndOfView \in [ok : BOOLEAN, out : Seq(C)] /\ Undecodable \in [ok : BOOLEAN, out : Seq(C)]
    BY DEF EndOfView, Undecodable
  <2>2. ASSUME NEW ch \in C, NEW rest \in [ok : BOOLEAN, out : Seq(C)]
        PROVE  Decoded(ch, rest) \in [ok : BOOLEAN, out : Seq(C)]
    <3>1. <<ch>> \o rest.out \in Seq(C)
      OBVIOUS
    <3>2. PICK out : out = <<ch>> \o rest.out
      OBVIOUS
    <3>3. Decoded(ch, rest) = [rest EXCEPT !.out = out]
      BY <3>2 DEF Decoded
    <3> QED
      BY <3>1, <3>2, <3>3
  <2>3. PICK s : s = SubSeq(text, n + 1, Len(text))
    OBVIOUS
  <2>4. CASE n > last
    BY <1>1, <2>1, <2>4, Zenon DEF DecodeStep
  <2>5. CASE ~(n > last)
    <3>1. n + 1 \in T /\ ~(n + 2 > last) => n + 3 \in T
      BY <1>4, <2>5
    <3>2. f[n + 1] \in [ok : BOOLEAN, out : Seq(C)]
      BY <1>4, <2>5
    <3>3. ~(n + 2 > last) => f[n + 3] \in [ok : BOOLEAN, out : Seq(C)]
      BY <1>4, <2>5
    <3>4. Char(Signed(Number(s, 16)) % 256) \in C
      <4>1. s \in Seq(D)
        BY <2>3, <2>5
      <4>2. PICK v \in Int : v = Signed(Number(s, 16))
        BY <4>1, NumberNat
      <4>3. v % 256 \in Int
        BY <4>2
      <4> QED
        BY <1>3, <4>2, <4>3
    <3>5. blank \in C /\ text[n] \in C
      BY <1>3, <2>5
    <3>6. f[n] = DecodeStep(text, last, f, n)
      BY <1>1
    <3>7. \/ f[n] = Undecodable
          \/ ~(n + 2 > last) /\ f[n] = Decoded(Char(Signed(Number(s, 16)) % 256), f[n + 3])
          \/ f[n] = Decoded(blank, f[n + 1])
          \/ f[n] = Decoded(text[n], f[n + 1])
      BY <1>2, <2>3, <2>5, <3>6, Zenon DEF DecodeStep
    <3> QED
      BY <2>1, <2>2, <3>2, <3>3, <3>4, <3>5, <3>7
  <2> QED
    BY <2>4, <2>5
<1>5. first \in T
  <2> HIDE DEF T
  <2>1. last + 1 \in Nat /\ first \in Nat /\ first \in first .. last + 1
    OBVIOUS
  <2>2. \A n \in first .. last + 1 : n \in T
    BY <1>4, <2>1, PlacesBackwards
  <2> QED
    BY <2>1, <2>2
<1> QED
  BY <1>1, <1>5

-----------------------------------------------------------------------------
(***************************************************************************)
(* The tokens of a target and the characters of its views                  *)
(***************************************************************************)

(* The places of a view that stand for a character, and the characters     *)
(* that such places stand for                                              *)
Live(tokens, first, last) == {i \in first .. last : tokens[i] # Nothing}
AtRank(places, n)         == {i \in places : Cardinality({k \in places : k <= i}) = n}
CharsAt(tokens, places)   ==
  [n \in 1 .. Cardinality(places) |-> tokens[Min(AtRank(places, n))].char]

LEMMA CharsAre ==
  ASSUME NEW tokens, NEW first, NEW last
  PROVE  Chars(tokens, first, last) = CharsAt(tokens, Live(tokens, first, last))
BY Zenon DEF Chars, CharsAt, Live, AtRank

LEMMA LiveFinite ==
  ASSUME NEW tokens, NEW first \in Nat, NEW last \in Nat
  PROVE  /\ IsFiniteSet(Live(tokens, first, last))
         /\ Cardinality(Live(tokens, first, last)) \in Nat
<1>1. IsFiniteSet(first .. last)
  BY FS_Interval
<1>2. IsFiniteSet(Live(tokens, first, last))
  BY <1>1, FS_Subset DEF Live
<1> QED
  BY <1>2, FS_CardinalityType

LEMMA NoChars ==
  ASSUME NEW tokens, NEW last \in Nat
  PROVE  Chars(tokens, last + 1, last) = <<>>
<1>1. Live(tokens, last + 1, last) = {}
  BY DEF Live
<1>2. Cardinality({}) = 0
  BY FS_EmptySet
<1>3. CharsAt(tokens, {}) = <<>>
  BY <1>2 DEF CharsAt
<1> QED
  BY <1>1, <1>3, CharsAre

(* A place that stands for nothing adds nothing. *)
LEMMA DeadAdds ==
  ASSUME NEW tokens, NEW first \in Nat, NEW last \in Nat, tokens[first] = Nothing
  PROVE  Chars(tokens, first, last) = Chars(tokens, first + 1, last)
<1>1. Live(tokens, first, last) = Live(tokens, first + 1, last)
  BY DEF Live
<1> QED
  BY <1>1, CharsAre

LEMMA LiveAdds ==
  ASSUME NEW tokens, NEW first \in Nat, NEW last \in Nat, first <= last, tokens[first] # Nothing
  PROVE  Chars(tokens, first, last) = <<tokens[first].char>> \o Chars(tokens, first + 1, last)
<1>1. PICK P : P = Live(tokens, first + 1, last)
  OBVIOUS
<1>2. PICK Q : Q = Live(tokens, first, last)
  OBVIOUS
<1>3. Q = P \cup {first} /\ first \notin P /\ \A i \in P : i \in Nat /\ i > first
  BY <1>1, <1>2 DEF Live
<1>4. IsFiniteSet(P) /\ Cardinality(P) \in Nat /\ Cardinality(Q) = Cardinality(P) + 1
  <2>1. IsFiniteSet(P)
    BY <1>1, LiveFinite
  <2> QED
    BY <1>3, <2>1, FS_AddElement, FS_CardinalityType
<1>5. ASSUME NEW i \in P
      PROVE  /\ Cardinality({k \in P : k <= i}) \in Nat \ {0}
             /\ Cardinality({k \in Q : k <= i}) = Cardinality({k \in P : k <= i}) + 1
  <2>1. PICK A : A = {k \in P : k <= i}
    OBVIOUS
  <2>2. IsFiniteSet(A)
    BY <1>4, <2>1, FS_Subset
  <2>3. i \in A /\ first \notin A
    BY <1>3, <2>1
  <2>4. {k \in Q : k <= i} = A \cup {first}
    BY <1>3, <2>1
  <2>5. Cardinality(A) \in Nat /\ Cardinality(A) # 0
    BY <2>2, <2>3, FS_CardinalityType, FS_EmptySet
  <2>6. Cardinality(A \cup {first}) = Cardinality(A) + 1
    BY <2>2, <2>3, FS_AddElement
  <2> QED
    BY <2>1, <2>4, <2>5, <2>6
<1>6. Cardinality({k \in Q : k <= first}) = 1
  <2>1. {k \in Q : k <= first} = {first}
    BY <1>3
  <2> QED
    BY <2>1, FS_Singleton
<1>7. AtRank(Q, 1) = {first}
  <2>1. ASSUME NEW i \in P PROVE Cardinality({k \in Q : k <= i}) # 1
    <3>1. PICK c : c = Cardinality({k \in P : k <= i})
      OBVIOUS
    <3>2. c \in Nat \ {0} /\ Cardinality({k \in Q : k <= i}) = c + 1
      BY <1>5, <3>1
    <3> QED
      BY <3>2
  <2>2. \A i : i \in AtRank(Q, 1) <=> i \in Q /\ Cardinality({k \in Q : k <= i}) = 1
    BY DEF AtRank
  <2> QED
    BY <1>3, <1>6, <2>1, <2>2
<1>8. ASSUME NEW n \in Nat \ {0} PROVE AtRank(Q, n + 1) = AtRank(P, n)
  <2>1. \A i : i \in AtRank(Q, n + 1) <=> i \in Q /\ Cardinality({k \in Q : k <= i}) = n + 1
    BY DEF AtRank
  <2>2. \A i : i \in AtRank(P, n) <=> i \in P /\ Cardinality({k \in P : k <= i}) = n
    BY DEF AtRank
  <2>3. ASSUME NEW i \in P
        PROVE  Cardinality({k \in Q : k <= i}) = n + 1 <=> Cardinality({k \in P : k <= i}) = n
    BY <1>5
  <2>4. first \notin AtRank(Q, n + 1)
    BY <1>6, <2>1
  <2> QED
    BY <1>3, <2>1, <2>2, <2>3, <2>4
<1>9. PICK all, rest : all = CharsAt(tokens, Q) /\ rest = CharsAt(tokens, P)
  OBVIOUS
<1>10. PICK C : C = {tokens[Min(AtRank(P, n))].char : n \in 1 .. Cardinality(P)}
                      \cup {tokens[first].char}
  OBVIOUS
<1>11. rest \in Seq(C) /\ Len(rest) = Cardinality(P)
  <2>1. \A n \in 1 .. Cardinality(P) : tokens[Min(AtRank(P, n))].char \in C
    BY <1>10
  <2>2. rest \in [1 .. Cardinality(P) -> C]
    BY <1>9, <2>1 DEF CharsAt
  <2> QED
    BY <1>4, <2>2
<1>12. PICK both : both = <<tokens[first].char>> \o rest
  OBVIOUS
<1>13. /\ both \in Seq(C) /\ Len(both) = Cardinality(P) + 1 /\ both[1] = tokens[first].char
       /\ \A n \in 1 .. Cardinality(P) : both[n + 1] = rest[n]
  <2>1. tokens[first].char \in C
    BY <1>10
  <2> QED
    BY <1>4, <1>11, <1>12, <2>1
<1>14. Min({first}) = first
  <2>1. {first} \in SUBSET Nat
    OBVIOUS
  <2> QED
    BY <2>1, FirstIs
<1>15. ASSUME NEW n \in 1 .. Cardinality(P) + 1 PROVE all[n] = both[n]
  <2>1. all[n] = tokens[Min(AtRank(Q, n))].char
    BY <1>4, <1>9 DEF CharsAt
  <2>2. CASE n = 1
    BY <1>7, <1>13, <1>14, <2>1, <2>2
  <2>3. CASE n # 1
    <3>1. PICK m \in 1 .. Cardinality(P) : n = m + 1
      <4>1. n - 1 \in 1 .. Cardinality(P) /\ n = (n - 1) + 1
        BY <1>4, <2>3
      <4> QED
        BY <4>1
    <3>2. rest[m] = tokens[Min(AtRank(P, m))].char
      BY <1>9, <3>1 DEF CharsAt
    <3>3. AtRank(Q, n) = AtRank(P, m)
      BY <1>4, <1>8, <3>1
    <3> QED
      BY <1>13, <2>1, <3>1, <3>2, <3>3
  <2> QED
    BY <2>2, <2>3
<1>16. all = both
  <2>1. all = [n \in 1 .. Cardinality(P) + 1 |-> all[n]]
    BY <1>4, <1>9 DEF CharsAt
  <2>2. both = [n \in 1 .. Cardinality(P) + 1 |-> both[n]]
    BY <1>4, <1>13
  <2> QED
    BY <1>15, <2>1, <2>2
<1> QED
  BY <1>1, <1>2, <1>9, <1>12, <1>16, CharsAre

(* An escape begins at a place; every one has its two digits. *)
EscapeAt(target, i) == i \in DOMAIN target /\ target[i] = "%"

TokenAt(target, i) ==
  IF EscapeAt(target, i - 1) \/ EscapeAt(target, i - 2) THEN Nothing
  ELSE IF EscapeAt(target, i)
       THEN Escaped(Char(16 * DigitValue(target[i + 1]) + DigitValue(target[i + 2])))
  ELSE IF target[i] = "+" THEN Escaped(" ")
  ELSE Literal(target[i])

AllEscaped(target, text) ==
  \A i \in 1 .. Len(target) : EscapeAt(target, i) =>
    /\ i + 2 <= Len(target)
    /\ text[i + 1] \in Hex /\ text[i + 2] \in Hex
    /\ i + 3 <= Len(text) => text[i + 3] \notin Hex

(* What separates a name or a value from the rest *)
Separators == {"?", "&", ";", "="}

LEMMA NoHex ==
  ASSUME NEW target, NEW i, target[i] \in Hex
  PROVE  target[i] \notin Separators /\ ~EscapeAt(target, i)
BY NoDigits, Zenon DEF Hex, Separators, EscapeAt

LEMMA CharIs == \A n \in Int : Char(n) # ""
<1>1. "" \notin DigitsOf(16)
  BY DigitsAre, Zenon
<1>2. ASSUME NEW n \in Int
      PROVE  /\ n \in 48 .. 57 => Digits[n - 47] # ""
             /\ n \in 65 .. 70 => Digits[n - 54] # ""
  <2>1. n \in 48 .. 57 => n - 47 \in 1 .. 16
    OBVIOUS
  <2>2. n \in 65 .. 70 => n - 54 \in 1 .. 16
    OBVIOUS
  <2>3. \A i \in 1 .. 16 : Digits[i] \in DigitsOf(16)
    BY DEF DigitsOf
  <2> QED
    BY <1>1, <2>1, <2>2, <2>3, Zenon
<1> QED
  BY <1>2, Zenon DEF Char

LEMMA TokensDiffer ==
  /\ \A ch, other : Literal(ch) = Literal(other) <=> ch = other
  /\ \A ch, other : Literal(ch) # Escaped(other)
  /\ \A ch : Literal(ch) # Nothing
  /\ \A ch : ch # "" => Escaped(ch) # Nothing
  /\ \A ch : Literal(ch).char = ch /\ Escaped(ch).char = ch
<1>1. \A ch, other : Literal(ch) = Literal(other) <=> ch = other
  BY DEF Literal
<1>2. \A ch, other : Literal(ch) # Escaped(other)
  BY DEF Literal, Escaped
<1>3. \A ch : Literal(ch).char = ch /\ Escaped(ch).char = ch
  BY DEF Literal, Escaped
<1>4. PICK none : none = ""
  BY Zenon
<1>5. Nothing = [char |-> none, literal |-> FALSE]
  BY <1>4, Zenon DEF Nothing
<1>6. \A ch : Literal(ch) # Nothing
  BY <1>5 DEF Literal
<1>7. \A ch : ch # none => Escaped(ch) # Nothing
  BY <1>5 DEF Escaped
<1> QED
  BY <1>1, <1>2, <1>3, <1>4, <1>6, <1>7, Zenon

LEMMA TokensAre ==
  ASSUME NEW D, NEW target \in Seq(D), NEW tokens, tokens = Tokens(target)
  PROVE  Len(tokens) = Len(target) /\ \A i \in 1 .. Len(target) : tokens[i] = TokenAt(target, i)
<1>1. DOMAIN target = 1 .. Len(target) /\ Len(target) \in Nat
  OBVIOUS
<1>2. tokens = [i \in DOMAIN target |-> TokenAt(target, i)]
  BY Zenon DEF Tokens, TokenAt, EscapeAt
<1> QED
  BY <1>1, <1>2

(* A target with its tokens, and the text that it is the beginning of *)
IsTarget(D, target, text, tokens) ==
  /\ target \in Seq(D) /\ text \in Seq(D)
  /\ Len(target) <= Len(text)
  /\ \A i \in 1 .. Len(target) : text[i] = target[i]
  /\ AllEscaped(target, text)
  /\ tokens = Tokens(target)

(* A place between an escape and the end of its digits *)
Inside(target, i) == EscapeAt(target, i - 1) \/ EscapeAt(target, i - 2)

LEMMA InsideIsHex ==
  ASSUME NEW D, NEW target, NEW text, NEW tokens, IsTarget(D, target, text, tokens),
         NEW i \in Int
  PROVE  /\ Inside(target, i) => i \in 1 .. Len(target) /\ target[i] \in Hex
         /\ EscapeAt(target, i) => /\ i \in 1 .. Len(target) /\ i + 2 <= Len(target)
                                   /\ target[i + 1] \in Hex /\ target[i + 2] \in Hex
<1>1. /\ Len(target) \in Nat /\ DOMAIN target = 1 .. Len(target)
      /\ \A k \in 1 .. Len(target) : text[k] = target[k]
  BY DEF IsTarget
<1>2. \A k : EscapeAt(target, k) => k \in 1 .. Len(target)
  BY <1>1, Zenon DEF EscapeAt
<1>3. ASSUME NEW k \in Int, EscapeAt(target, k)
      PROVE  /\ k \in 1 .. Len(target) /\ k + 2 <= Len(target)
             /\ target[k + 1] \in Hex /\ target[k + 2] \in Hex
  <2>1. k \in 1 .. Len(target)
    BY <1>2, <1>3
  <2>2. k + 2 <= Len(target) /\ text[k + 1] \in Hex /\ text[k + 2] \in Hex
    BY <1>3, <2>1 DEF IsTarget, AllEscaped
  <2>3. text[k + 1] = target[k + 1] /\ text[k + 2] = target[k + 2]
    BY <1>1, <2>1, <2>2
  <2> QED
    BY <2>1, <2>2, <2>3
<1>4. EscapeAt(target, i - 1) => i \in 1 .. Len(target) /\ target[i] \in Hex
  <2> SUFFICES ASSUME EscapeAt(target, i - 1) PROVE i \in 1 .. Len(target) /\ target[i] \in Hex
    OBVIOUS
  <2>1. i - 1 \in Int /\ (i - 1) + 1 = i
    OBVIOUS
  <2>2. /\ i - 1 \in 1 .. Len(target) /\ (i - 1) + 2 <= Len(target)
        /\ target[(i - 1) + 1] \in Hex
    BY <1>3, <2>1
  <2> QED
    BY <1>1, <2>1, <2>2
<1>5. EscapeAt(target, i - 2) => i \in 1 .. Len(target) /\ target[i] \in Hex
  <2> SUFFICES ASSUME EscapeAt(target, i - 2) PROVE i \in 1 .. Len(target) /\ target[i] \in Hex
    OBVIOUS
  <2>1. i - 2 \in Int /\ (i - 2) + 2 = i
    OBVIOUS
  <2>2. /\ i - 2 \in 1 .. Len(target) /\ (i - 2) + 2 <= Len(target)
        /\ target[(i - 2) + 2] \in Hex
    BY <1>3, <2>1
  <2> QED
    BY <1>1, <2>1, <2>2
<1> QED
  BY <1>3, <1>4, <1>5 DEF Inside

LEMMA TokensOf ==
  ASSUME NEW D, NEW target, NEW text, NEW tokens, IsTarget(D, target, text, tokens),
         NEW i \in 1 .. Len(target)
  PROVE  /\ tokens[i] = Nothing <=> Inside(target, i)
         /\ \A s \in Separators : tokens[i] = Literal(s) <=> target[i] = s
         /\ target[i] \in Separators => ~Inside(target, i) /\ ~Inside(target, i + 1)
         /\ Inside(target, i + 1) => EscapeAt(target, i) \/ EscapeAt(target, i - 1)
<1>1. tokens[i] = TokenAt(target, i) /\ i \in Int /\ i + 1 \in Int
  BY TokensAre DEF IsTarget
<1>2. Inside(target, i) => tokens[i] = Nothing
  BY <1>1, Zenon DEF TokenAt, Inside
<1>3. EscapeAt(target, i) =>
        Char(16 * DigitValue(target[i + 1]) + DigitValue(target[i + 2])) # ""
  <2> SUFFICES ASSUME EscapeAt(target, i)
               PROVE  Char(16 * DigitValue(target[i + 1]) + DigitValue(target[i + 2])) # ""
    OBVIOUS
  <2>1. target[i + 1] \in Hex /\ target[i + 2] \in Hex
    BY <1>1, InsideIsHex
  <2>2. PICK a \in Nat, b \in Nat : a = DigitValue(target[i + 1]) /\ b = DigitValue(target[i + 2])
    BY <2>1, DigitValueIs DEF Hex
  <2>3. 16 * a + b \in Int
    OBVIOUS
  <2> QED
    BY <2>2, <2>3, CharIs, Zenon
<1>4. " " # ""
  BY Zenon
<1>5. ~Inside(target, i) => tokens[i] # Nothing
  BY <1>1, <1>3, <1>4, TokensDiffer, Zenon DEF TokenAt, Inside
<1>6. ASSUME NEW s \in Separators PROVE tokens[i] = Literal(s) <=> target[i] = s
  <2>1. tokens[i] = Literal(s) => target[i] = s
    <3>1. \/ tokens[i] = Nothing
          \/ \E ch : tokens[i] = Escaped(ch)
          \/ tokens[i] = Literal(target[i])
      BY <1>1, Zenon DEF TokenAt
    <3> QED
      BY <3>1, TokensDiffer
  <2>2. target[i] = s => ~Inside(target, i) /\ ~EscapeAt(target, i)
    <3>1. target[i] = s => target[i] \notin Hex
      BY NoHex
    <3>2. s # "%"
      BY Zenon DEF Separators
    <3> QED
      BY <1>1, <3>1, <3>2, InsideIsHex, Zenon DEF EscapeAt
  <2>3. s # "+"
    BY Zenon DEF Separators
  <2> QED
    BY <1>1, <2>1, <2>2, <2>3, Zenon DEF TokenAt, Inside
<1>7. Inside(target, i + 1) => EscapeAt(target, i) \/ EscapeAt(target, i - 1)
  <2>1. (i + 1) - 1 = i /\ (i + 1) - 2 = i - 1
    OBVIOUS
  <2> QED
    BY <2>1 DEF Inside
<1>8. target[i] \in Separators => ~Inside(target, i) /\ ~Inside(target, i + 1)
  <2> SUFFICES ASSUME target[i] \in Separators PROVE ~Inside(target, i) /\ ~Inside(target, i + 1)
    OBVIOUS
  <2>1. ~Inside(target, i)
    BY <1>1, InsideIsHex, NoHex
  <2>2. ~EscapeAt(target, i)
    BY Zenon DEF Separators, EscapeAt
  <2>3. ~EscapeAt(target, i - 1)
    BY <2>1 DEF Inside
  <2> QED
    BY <1>7, <2>1, <2>2, <2>3
<1> QED
  BY <1>2, <1>5, <1>6, <1>7, <1>8

(* What url_decode() makes of a view in which no escape is cut off         *)
Whole(target, tokens, first, last) ==
  /\ first <= last => tokens[first] # Nothing
  /\ \A i \in first .. last : EscapeAt(target, i) => i + 2 <= last

Read(out) == [ok |-> TRUE, out |-> out]

LEMMA NewOut ==
  ASSUME NEW ok, NEW s, NEW out, NEW r, r = [ok |-> ok, out |-> s]
  PROVE  [r EXCEPT !.out = out] = [ok |-> ok, out |-> out] /\ r.out = s
OBVIOUS

LEMMA DecodedRead ==
  ASSUME NEW ch, NEW s
  PROVE  Decoded(ch, Read(s)) = Read(<<ch>> \o s)
<1>1. PICK r : r = Read(s)
  OBVIOUS
<1>2. PICK ok : ok = TRUE
  BY Zenon
<1>3. r = [ok |-> ok, out |-> s]
  BY <1>1, <1>2, Zenon DEF Read
<1>4. PICK out : out = <<ch>> \o s
  OBVIOUS
<1>5. [r EXCEPT !.out = out] = [ok |-> ok, out |-> out] /\ r.out = s
  BY <1>3, NewOut
<1> QED
  BY <1>1, <1>2, <1>4, <1>5, Zenon DEF Decoded, Read

LEMMA DecodedChars ==
  ASSUME NEW D, NEW target, NEW text, NEW tokens, IsTarget(D, target, text, tokens),
         NEW first \in Nat \ {0}, NEW last \in Nat, first <= last + 1, last <= Len(target),
         Whole(target, tokens, first, last)
  PROVE  url_decode(text, first, last) = Read(Chars(tokens, first, last))
<1>1. PICK f : /\ \A i \in first .. last + 1 : f[i] = DecodeStep(text, last, f, i)
               /\ url_decode(text, first, last) = f[first]
  BY DecodeIs
<1>2. /\ text \in Seq(D) /\ Len(target) \in Nat /\ Len(target) <= Len(text) /\ Len(text) \in Nat
      /\ \A i \in 1 .. Len(target) : text[i] = target[i]
      /\ DOMAIN target = 1 .. Len(target)
  BY DEF IsTarget
<1> DEFINE T == {n \in first .. last + 1 :
                   (n <= last => tokens[n] # Nothing) => f[n] = Read(Chars(tokens, n, last))}
<1>3. ASSUME NEW n \in first .. last + 1, \A k \in n + 1 .. last + 1 : k \in T PROVE n \in T
  <2> SUFFICES ASSUME n <= last => tokens[n] # Nothing
               PROVE  f[n] = Read(Chars(tokens, n, last))
    OBVIOUS
  <2>1. f[n] = DecodeStep(text, last, f, n)
    BY <1>1
  <2>2. CASE n = last + 1
    <3>1. n > last
      BY <2>2
    <3>2. f[n] = Read(<<>>)
      BY <2>1, <3>1, Zenon DEF DecodeStep, EndOfView, Read
    <3> QED
      BY <2>2, <3>2, NoChars
  <2>3. CASE n # last + 1
    <3>1. /\ n \in 1 .. Len(target) /\ ~(n > last) /\ n <= last /\ n \in Nat
          /\ tokens[n] # Nothing /\ text[n] = target[n]
      BY <1>2, <2>3
    <3>2. /\ tokens[n] = TokenAt(target, n)
          /\ ~Inside(target, n)
      BY <3>1, TokensAre, TokensOf DEF IsTarget
    <3>3. \A s, ch : Decoded(ch, Read(s)) = Read(<<ch>> \o s)
      BY DecodedRead
    <3>4. Chars(tokens, n, last) = <<tokens[n].char>> \o Chars(tokens, n + 1, last)
      BY <3>1, LiveAdds
    <3>5. CASE EscapeAt(target, n)
      <4>1. /\ n + 2 <= last /\ ~(n + 2 > last)
            /\ target[n + 1] \in Hex /\ target[n + 2] \in Hex
        <5>1. n \in first .. last
          BY <3>1
        <5>2. n + 2 <= last
          BY <3>5, <5>1 DEF Whole
        <5> QED
          BY <3>1, <3>5, <5>2, InsideIsHex
      <4>2. PICK number : number = Number(SubSeq(text, n + 1, Len(text)), 16)
        OBVIOUS
      <4>3. PICK a \in Nat, b \in Nat : /\ a = DigitValue(target[n + 1]) /\ a <= 15
                                        /\ b = DigitValue(target[n + 2]) /\ b <= 15
        BY <4>1, DigitValueIs DEF Hex
      <4>4. number.found = TRUE /\ Signed(number) = 16 * a + b
        <5>1. /\ n \in 1 .. Len(text) /\ n + 2 <= Len(text)
              /\ text[n + 1] \in Hex /\ text[n + 2] \in Hex
              /\ n + 3 <= Len(text) => text[n + 3] \notin Hex
              /\ text[n + 1] = target[n + 1] /\ text[n + 2] = target[n + 2]
          <6>1. n + 1 \in 1 .. Len(target) /\ n + 2 \in 1 .. Len(target) /\ n \in 1 .. Len(text)
                /\ n + 2 <= Len(text)
            BY <1>2, <3>1, <4>1
          <6>2. n + 3 <= Len(text) => text[n + 3] \notin Hex
            BY <3>1, <3>5 DEF IsTarget, AllEscaped
          <6> QED
            BY <1>2, <4>1, <6>1, <6>2
        <5>2. /\ number.found = TRUE
              /\ Signed(number) = 16 * DigitValue(text[n + 1]) + DigitValue(text[n + 2])
          BY <1>2, <4>2, <5>1, EscapeIs
        <5> QED
          BY <4>3, <5>1, <5>2
      <4>5. PICK ch : ch = Char(16 * a + b)
        OBVIOUS
      <4>6. Signed(number) % 256 = 16 * a + b
        <5>1. PICK v \in Nat : v = 16 * a + b /\ v < 256
          BY <4>3
        <5>2. v % 256 = v
          BY <5>1
        <5> QED
          BY <4>4, <5>1, <5>2
      <4>7. f[n] = Decoded(ch, f[n + 3])
        <5>1. text[n] = "%" /\ number.found
          BY <3>1, <3>5, <4>4, Zenon DEF EscapeAt
        <5> QED
          BY <2>1, <3>1, <4>1, <4>2, <4>5, <4>6, <5>1, Zenon DEF DecodeStep
      <4>8. tokens[n] = Escaped(ch)
        BY <3>2, <3>5, <4>3, <4>5, Zenon DEF TokenAt, Inside
      <4>9. n + 1 \in Int /\ n + 2 \in Int /\ n + 3 \in Int
        BY <3>1
      <4>10. tokens[n + 1] = Nothing /\ tokens[n + 2] = Nothing
        <5>1. Inside(target, n + 1) /\ Inside(target, n + 2)
          <6>1. (n + 1) - 1 = n /\ (n + 2) - 2 = n
            BY <3>1
          <6> QED
            BY <3>5, <6>1 DEF Inside
        <5>2. n + 1 \in 1 .. Len(target) /\ n + 2 \in 1 .. Len(target)
          BY <3>1, <4>1
        <5> QED
          BY <5>1, <5>2, TokensOf
      <4>11. n + 3 <= last => tokens[n + 3] # Nothing
        <5> SUFFICES ASSUME n + 3 <= last PROVE tokens[n + 3] # Nothing
          OBVIOUS
        <5>1. ~EscapeAt(target, n + 2) /\ ~EscapeAt(target, n + 1)
          BY <4>1, NoHex
        <5>2. (n + 3) - 1 = n + 2 /\ (n + 3) - 2 = n + 1 /\ n + 3 \in 1 .. Len(target)
          BY <3>1
        <5> QED
          BY <5>1, <5>2, TokensOf DEF Inside
      <4>12. n + 3 \in T /\ n + 3 \in n + 1 .. last + 1
        BY <1>3, <3>1, <4>1
      <4>13. f[n + 3] = Read(Chars(tokens, n + 3, last))
        BY <4>11, <4>12
      <4>14. Chars(tokens, n + 1, last) = Chars(tokens, n + 3, last)
        <5>1. /\ n + 1 \in Nat /\ n + 2 \in Nat
              /\ (n + 1) + 1 = n + 2 /\ (n + 2) + 1 = n + 3
          BY <3>1
        <5>2. Chars(tokens, n + 1, last) = Chars(tokens, n + 2, last)
          BY <4>10, <5>1, DeadAdds
        <5>3. Chars(tokens, n + 2, last) = Chars(tokens, n + 3, last)
          BY <4>10, <5>1, DeadAdds
        <5> QED
          BY <5>2, <5>3
      <4>15. tokens[n].char = ch
        BY <4>8, TokensDiffer
      <4> QED
        BY <3>3, <3>4, <4>7, <4>13, <4>14, <4>15
    <3>6. CASE ~EscapeAt(target, n)
      <4>1. PICK ch : ch = IF target[n] = "+" THEN " " ELSE target[n]
        BY Zenon
      <4>2. f[n] = Decoded(ch, f[n + 1])
        <5>1. text[n] # "%"
          BY <1>2, <3>1, <3>6, Zenon DEF EscapeAt
        <5> QED
          BY <2>1, <3>1, <4>1, <5>1, Zenon DEF DecodeStep
      <4>3. tokens[n].char = ch
        <5>1. tokens[n] = IF target[n] = "+" THEN Escaped(" ") ELSE Literal(target[n])
          BY <3>2, <3>6, Zenon DEF TokenAt, Inside
        <5> QED
          BY <4>1, <5>1, TokensDiffer, Zenon
      <4>4. n + 1 <= last => tokens[n + 1] # Nothing
        <5> SUFFICES ASSUME n + 1 <= last PROVE tokens[n + 1] # Nothing
          OBVIOUS
        <5>1. ~EscapeAt(target, n - 1)
          BY <3>2 DEF Inside
        <5>2. ~Inside(target, n + 1)
          BY <3>1, <3>6, <5>1, TokensOf
        <5>3. n + 1 \in 1 .. Len(target)
          BY <3>1
        <5> QED
          BY <5>2, <5>3, TokensOf
      <4>5. n + 1 \in T
        BY <1>3, <3>1
      <4>6. f[n + 1] = Read(Chars(tokens, n + 1, last))
        BY <4>4, <4>5
      <4> QED
        BY <3>3, <3>4, <4>2, <4>3, <4>6
    <3> QED
      BY <3>5, <3>6
  <2> QED
    BY <2>2, <2>3
<1>4. first \in T
  <2> HIDE DEF T
  <2>1. last + 1 \in Nat /\ first \in Nat /\ first \in first .. last + 1
    OBVIOUS
  <2>2. \A n \in first .. last + 1 : n \in T
    BY <1>3, <2>1, PlacesBackwards
  <2> QED
    BY <2>1, <2>2
<1> QED
  BY <1>1, <1>4 DEF Whole

-----------------------------------------------------------------------------
(***************************************************************************)
(* The two readings of a target                                            *)
(***************************************************************************)

LEMMA SameFind ==
  ASSUME NEW text, NEW tokens, NEW cuts, NEW marks, NEW first \in Nat, NEW last \in Nat,
         \A i \in first .. last : text[i] \in cuts <=> tokens[i] \in marks
  PROVE  Find(text, first, last, cuts) = Find(tokens, first, last, marks)
<1>1. {i \in first .. last : text[i] \in cuts} = {i \in first .. last : tokens[i] \in marks}
  OBVIOUS
<1> QED
  BY <1>1, Zenon DEF Find

LEMMA SamePieces ==
  ASSUME NEW text, NEW tokens, NEW cuts, NEW marks, NEW first \in Nat, NEW last \in Nat,
         \A i \in first .. last : text[i] \in cuts <=> tokens[i] \in marks
  PROVE  Pieces(text, first, last, cuts) = Pieces(tokens, first, last, marks)
<1>1. ASSUME NEW a \in first .. last, NEW b \in first .. last
      PROVE  IsPiece(text, first, last, cuts, a, b) <=> IsPiece(tokens, first, last, marks, a, b)
  BY DEF IsPiece
<1>2. ASSUME NEW p
      PROVE  p \in Pieces(text, first, last, cuts) <=> p \in Pieces(tokens, first, last, marks)
  <2>1. p \in Pieces(text, first, last, cuts) <=>
          \E a, b \in first .. last :
            p = [first |-> a, last |-> b] /\ IsPiece(text, first, last, cuts, a, b)
    BY PieceIs, Zenon
  <2>2. p \in Pieces(tokens, first, last, marks) <=>
          \E a, b \in first .. last :
            p = [first |-> a, last |-> b] /\ IsPiece(tokens, first, last, marks, a, b)
    BY PieceIs, Zenon
  <2> QED
    BY <1>1, <2>1, <2>2
<1> QED
  BY <1>2, Zenon DEF Pieces

(* A view that begins and ends at the ends of the target or at separators  *)
IsView(target, first, last) ==
  /\ \/ first = 1
     \/ first - 1 \in 1 .. Len(target) /\ target[first - 1] \in Separators
  /\ \/ last = Len(target)
     \/ last + 1 \in 1 .. Len(target) /\ target[last + 1] \in Separators

LEMMA WholeView ==
  ASSUME NEW D, NEW target, NEW text, NEW tokens, IsTarget(D, target, text, tokens),
         NEW first \in Nat \ {0}, NEW last \in Nat, last <= Len(target),
         IsView(target, first, last)
  PROVE  Whole(target, tokens, first, last)
<1>1. Len(target) \in Nat
  BY DEF IsTarget
<1>2. ASSUME first <= last PROVE tokens[first] # Nothing
  <2>1. first \in 1 .. Len(target)
    BY <1>1, <1>2
  <2>2. CASE first = 1
    <3>1. ~EscapeAt(target, first - 1) /\ ~EscapeAt(target, first - 2)
      BY <2>2, InsideIsHex
    <3> QED
      BY <2>1, <3>1, TokensOf DEF Inside
  <2>3. CASE first - 1 \in 1 .. Len(target) /\ target[first - 1] \in Separators
    <3>1. PICK before \in 1 .. Len(target) : before = first - 1
      BY <2>3
    <3>2. target[before] \in Separators /\ before + 1 = first
      BY <2>3, <3>1
    <3>3. ~Inside(target, before + 1)
      BY <3>2, TokensOf
    <3> QED
      BY <2>1, <3>2, <3>3, TokensOf
  <2> QED
    BY <2>2, <2>3 DEF IsView
<1>3. ASSUME NEW i \in first .. last, EscapeAt(target, i) PROVE i + 2 <= last
  <2>1. i + 2 <= Len(target) /\ target[i + 1] \in Hex /\ target[i + 2] \in Hex
    BY <1>3, InsideIsHex
  <2>2. target[i + 1] \notin Separators /\ target[i + 2] \notin Separators
    BY <2>1, NoHex
  <2> QED
    BY <2>1, <2>2 DEF IsView
<1> QED
  BY <1>2, <1>3 DEF Whole

(* What a view is decoded to *)
LEMMA ViewDecoded ==
  ASSUME NEW D, NEW target, NEW text, NEW tokens, IsTarget(D, target, text, tokens),
         NEW first \in Nat \ {0}, NEW last \in Nat, first <= last + 1, last <= Len(target),
         IsView(target, first, last)
  PROVE  url_decode(text, first, last) = Read(Chars(tokens, first, last))
BY WholeView, DecodedChars

Ends  == {Literal("&"), Literal(";")}
Equal == {Literal("=")}
Mark  == {Literal("?")}

(* What separates a text separates its tokens.                             *)
LEMMA SameCuts ==
  ASSUME NEW D, NEW target, NEW text, NEW tokens, IsTarget(D, target, text, tokens),
         NEW i \in 1 .. Len(target)
  PROVE  /\ text[i] = target[i]
         /\ text[i] \in {"?"} <=> tokens[i] \in Mark
         /\ text[i] \in {"="} <=> tokens[i] \in Equal
         /\ text[i] \in PairEnds <=> tokens[i] \in Ends
<1>1. text[i] = target[i]
  BY DEF IsTarget
<1>2. \A s \in Separators : tokens[i] = Literal(s) <=> target[i] = s
  BY TokensOf
<1>3. /\ tokens[i] = Literal("?") <=> target[i] = "?"
      /\ tokens[i] = Literal("=") <=> target[i] = "="
      /\ tokens[i] = Literal("&") <=> target[i] = "&"
      /\ tokens[i] = Literal(";") <=> target[i] = ";"
  BY <1>2, Zenon DEF Separators
<1> QED
  BY <1>1, <1>3, Zenon DEF Mark, Equal, Ends, PairEnds

(* What a pair of the query says *)
PairMeant(tokens, p) ==
  LET sep == Find(tokens, p.first, p.last, Equal)
  IN [ok |-> TRUE, at |-> p.first,
      key |-> Chars(tokens, p.first, sep - 1),
      value |-> Chars(tokens, sep + 1, p.last)]

LEMMA NoView ==
  ASSUME NEW tokens, NEW first \in Nat, NEW last \in Nat, first > last
  PROVE  Chars(tokens, first, last) = <<>>
<1>1. Live(tokens, first, last) = {} /\ Live(tokens, last + 1, last) = {}
  BY DEF Live
<1>2. last + 1 \in Nat
  OBVIOUS
<1> QED
  BY <1>1, CharsAre, NoChars

LEMMA KeyValueIs ==
  ASSUME NEW D, NEW target, NEW text, NEW tokens, IsTarget(D, target, text, tokens),
         NEW a \in Nat \ {0}, NEW b \in Nat, a <= b, b <= Len(target), IsView(target, a, b),
         NEW p, p = [first |-> a, last |-> b]
  PROVE  KeyValue(text, p) = PairMeant(tokens, p)
<1>1. p.first = a /\ p.last = b /\ Len(target) \in Nat /\ a \in Nat
  BY DEF IsTarget
<1>2. \A i \in a .. b : i \in 1 .. Len(target)
  BY <1>1
<1>3. PICK cuts : cuts = {"="}
  BY Zenon
<1>4. PICK sep : sep = Find(text, a, b, cuts)
  OBVIOUS
<1>5. sep = Find(tokens, a, b, Equal)
  <2>1. \A i \in a .. b : text[i] \in cuts <=> tokens[i] \in Equal
    BY <1>2, <1>3, SameCuts
  <2> QED
    BY <1>1, <1>4, <2>1, SameFind
<1>6. /\ sep \in a .. b + 1
      /\ sep <= b => text[sep] \in cuts
  <2>1. a \in Nat /\ b \in Nat /\ a <= b + 1 /\ sep = Find(text, a, b, cuts)
    BY <1>1, <1>4
  <2> QED
    BY <2>1, FindIs
<1>7. sep <= b => sep \in 1 .. Len(target) /\ target[sep] \in Separators
  <2> SUFFICES ASSUME sep <= b PROVE sep \in 1 .. Len(target) /\ target[sep] \in Separators
    OBVIOUS
  <2>1. sep \in 1 .. Len(target) /\ text[sep] \in cuts
    BY <1>2, <1>6
  <2>2. text[sep] = target[sep]
    BY <2>1, SameCuts
  <2> QED
    BY <1>3, <2>1, <2>2, Zenon DEF Separators
<1>8. url_decode(text, a, sep - 1) = Read(Chars(tokens, a, sep - 1))
  <2>1. /\ sep - 1 \in Nat /\ a <= (sep - 1) + 1 /\ sep - 1 <= Len(target)
        /\ (sep - 1) + 1 = sep
    BY <1>1, <1>6
  <2>2. IsView(target, a, sep - 1)
    <3>1. CASE sep <= b
      BY <1>7, <2>1, <3>1 DEF IsView
    <3>2. CASE sep = b + 1
      BY <2>1, <3>2 DEF IsView
    <3> QED
      BY <1>1, <1>6, <3>1, <3>2
  <2> QED
    BY <2>1, <2>2, ViewDecoded
<1>9. ASSUME sep > b
      PROVE  Chars(tokens, sep + 1, b) = <<>>
  <2>1. sep + 1 \in Nat /\ sep + 1 > b
    BY <1>1, <1>6, <1>9
  <2> QED
    BY <2>1, NoView
<1>10. ASSUME ~(sep > b)
       PROVE  url_decode(text, sep + 1, b) = Read(Chars(tokens, sep + 1, b))
  <2>1. /\ sep + 1 \in Nat \ {0} /\ sep + 1 <= b + 1 /\ (sep + 1) - 1 = sep
        /\ sep \in 1 .. Len(target) /\ target[sep] \in Separators
    BY <1>1, <1>6, <1>7, <1>10
  <2>2. IsView(target, sep + 1, b)
    BY <2>1 DEF IsView
  <2> QED
    BY <2>1, <2>2, ViewDecoded
<1> DEFINE value == IF sep > b THEN EndOfView ELSE url_decode(text, sep + 1, b)
<1>11. value = Read(Chars(tokens, sep + 1, b))
  BY <1>9, <1>10, Zenon DEF EndOfView, Read
<1>12. KeyValue(text, p) =
         [ok    |-> url_decode(text, a, sep - 1).ok /\ value.ok, at |-> a,
          key   |-> url_decode(text, a, sep - 1).out, value |-> value.out]
  BY <1>1, <1>3, <1>4, Zenon DEF KeyValue, EndOfView
<1>13. PairMeant(tokens, p) =
         [ok |-> TRUE, at |-> a, key |-> Chars(tokens, a, sep - 1),
          value |-> Chars(tokens, sep + 1, b)]
  BY <1>1, <1>5, Zenon DEF PairMeant
<1>14. ASSUME NEW out PROVE Read(out).ok = TRUE /\ Read(out).out = out
  BY DEF Read
<1> HIDE DEF value
<1> QED
  BY <1>8, <1>11, <1>12, <1>13, <1>14, Zenon

PairsMeant(tokens, first, last) ==
  {PairMeant(tokens, p) : p \in Pieces(tokens, first, last, Ends)}

(* What a target says *)
TargetMeant(tokens) ==
  LET end  == Len(tokens)
      mark == Find(tokens, 1, end, Mark)
  IN [ok           |-> TRUE,
      path         |-> Chars(tokens, 1, mark - 1),
      query_params |-> PairsMeant(tokens, mark + 1, end)]

LEMMA TargetRead ==
  ASSUME NEW D, NEW target, NEW text, NEW tokens, IsTarget(D, target, text, tokens),
         NEW last, last = Len(target), NEW cuts, cuts = {"?"},
         NEW mark, mark = Find(text, 1, last, cuts),
         NEW path, path = url_decode(text, 1, mark - 1),
         NEW params, params = PairsFrom(text, mark + 1, last)
  PROVE  /\ path = Read(Chars(tokens, 1, mark - 1))
         /\ \A q \in params : q.ok
         /\ last = Len(tokens)
         /\ mark = Find(tokens, 1, last, Mark)
         /\ params = PairsMeant(tokens, mark + 1, last)
<1>1. last \in Nat /\ Len(tokens) = last
  BY TokensAre DEF IsTarget
<1>2. PICK one \in Nat : one = 1
  OBVIOUS
<1>3. mark = Find(text, one, last, cuts) /\ one <= last + 1
  BY <1>1, <1>2
<1>4. /\ mark \in one .. last + 1
      /\ mark <= last => text[mark] \in cuts
  BY <1>1, <1>3, FindIs
<1>5. mark = Find(tokens, 1, last, Mark)
  <2>1. \A i \in one .. last : text[i] \in cuts <=> tokens[i] \in Mark
    BY <1>1, <1>2, SameCuts
  <2>2. Find(text, one, last, cuts) = Find(tokens, one, last, Mark)
    BY <1>1, <2>1, SameFind
  <2> QED
    BY <1>2, <1>3, <2>2
<1>6. mark <= last => mark \in 1 .. Len(target) /\ target[mark] \in Separators
  <2> SUFFICES ASSUME mark <= last PROVE mark \in 1 .. Len(target) /\ target[mark] \in Separators
    OBVIOUS
  <2>1. mark \in 1 .. Len(target) /\ text[mark] \in cuts
    BY <1>1, <1>2, <1>4
  <2>2. text[mark] = target[mark]
    BY <2>1, SameCuts
  <2> QED
    BY <2>1, <2>2, Zenon DEF Separators
<1>7. path = Read(Chars(tokens, 1, mark - 1))
  <2>1. /\ one \in Nat \ {0} /\ mark - 1 \in Nat /\ one <= (mark - 1) + 1
        /\ mark - 1 <= Len(target) /\ (mark - 1) + 1 = mark
    BY <1>1, <1>2, <1>4
  <2>2. IsView(target, one, mark - 1)
    <3>1. mark <= last \/ mark - 1 = last
      BY <1>1, <1>2, <1>4
    <3> QED
      BY <1>2, <1>6, <2>1, <3>1 DEF IsView
  <2>3. url_decode(text, one, mark - 1) = Read(Chars(tokens, one, mark - 1))
    BY <2>1, <2>2, ViewDecoded
  <2> QED
    BY <1>2, <2>3
<1>8. PICK from \in Nat : from = mark + 1
  BY <1>1, <1>2, <1>4
<1>9. Pieces(text, from, last, PairEnds) = Pieces(tokens, from, last, Ends)
  <2>1. \A i \in from .. last : text[i] \in PairEnds <=> tokens[i] \in Ends
    <3>1. \A i \in from .. last : i \in 1 .. Len(target)
      BY <1>1, <1>2, <1>4, <1>8
    <3> QED
      BY <3>1, SameCuts
  <2> QED
    BY <1>1, <2>1, SamePieces
<1>10. ASSUME NEW p \in Pieces(text, from, last, PairEnds)
       PROVE  KeyValue(text, p) = PairMeant(tokens, p) /\ KeyValue(text, p).ok
  <2>1. PICK a \in from .. last, b \in from .. last :
          p = [first |-> a, last |-> b] /\ IsPiece(text, from, last, PairEnds, a, b)
    BY <1>1, <1>10, PieceIs
  <2>2. /\ a \in Nat \ {0} /\ b \in Nat /\ a <= b /\ b <= Len(target)
        /\ from - 1 = mark /\ mark \in 1 .. Len(target) /\ mark <= last
        /\ a = from \/ (a - 1 \in 1 .. Len(target) /\ text[a - 1] \in PairEnds)
        /\ b = Len(target) \/ (b + 1 \in 1 .. Len(target) /\ text[b + 1] \in PairEnds)
    BY <1>1, <1>2, <1>4, <1>8, <2>1 DEF IsPiece
  <2>3. \A i \in 1 .. Len(target) : text[i] \in PairEnds => target[i] \in Separators
    <3>1. PairEnds \subseteq Separators
      BY Zenon DEF PairEnds, Separators
    <3> QED
      BY <3>1, SameCuts
  <2>4. IsView(target, a, b)
    BY <1>6, <2>2, <2>3 DEF IsView
  <2>5. KeyValue(text, p) = PairMeant(tokens, p)
    BY <2>1, <2>2, <2>4, KeyValueIs
  <2>6. PairMeant(tokens, p).ok
    BY DEF PairMeant
  <2> QED
    BY <2>5, <2>6
<1>11. params = {KeyValue(text, p) : p \in Pieces(text, from, last, PairEnds)}
  BY <1>8, Zenon DEF PairsFrom
<1>12. params = {PairMeant(tokens, p) : p \in Pieces(tokens, from, last, Ends)}
  BY <1>9, <1>10, <1>11
<1>13. \A q \in params : q.ok
  BY <1>10, <1>11
<1> QED
  BY <1>1, <1>5, <1>7, <1>8, <1>12, <1>13, Zenon DEF PairsMeant

LEMMA ParsedIs ==
  ASSUME NEW D, NEW target, NEW beyond, NEW tokens, IsTarget(D, target, target \o beyond, tokens)
  PROVE  parse_uri(target, beyond) = TargetMeant(tokens)
<1>1. PICK text : text = target \o beyond
  OBVIOUS
<1>2. PICK last : last = Len(target)
  OBVIOUS
<1>3. PICK cuts : cuts = {"?"}
  BY Zenon
<1>4. PICK mark : mark = Find(text, 1, last, cuts)
  OBVIOUS
<1>5. PICK path : path = url_decode(text, 1, mark - 1)
  OBVIOUS
<1>6. PICK params : params = PairsFrom(text, mark + 1, last)
  OBVIOUS
<1>7. /\ path = Read(Chars(tokens, 1, mark - 1))
      /\ \A q \in params : q.ok
      /\ last = Len(tokens)
      /\ mark = Find(tokens, 1, last, Mark)
      /\ params = PairsMeant(tokens, mark + 1, last)
  <2>1. IsTarget(D, target, text, tokens)
    BY <1>1
  <2> QED
    BY <1>2, <1>4, <1>5, <1>6, <1>3, <2>1, TargetRead
<1>8. path.ok = TRUE /\ path.out = Chars(tokens, 1, mark - 1)
  BY <1>7 DEF Read
<1>9. PICK uri : uri = parse_uri(target, beyond)
  OBVIOUS
<1>10. \E ok, p, q : uri = [ok |-> ok, path |-> p, query_params |-> q]
  BY <1>9, Zenon DEF parse_uri
<1>11. uri.ok = (path.ok /\ \A q \in params : q.ok)
  BY <1>1, <1>2, <1>4, <1>5, <1>6, <1>9, <1>3, Zenon DEF parse_uri, PairsFrom
<1>12. uri.path = path.out /\ uri.query_params = params
  BY <1>1, <1>2, <1>4, <1>5, <1>6, <1>9, <1>3, Zenon DEF parse_uri, PairsFrom
<1>13. uri = [ok |-> TRUE, path |-> Chars(tokens, 1, mark - 1), query_params |-> params]
  <2>1. PICK yes : yes = TRUE
    BY Zenon
  <2>2. uri.ok = yes
    BY <1>7, <1>8, <1>11, <2>1, Zenon
  <2> QED
    BY <1>8, <1>10, <1>12, <2>1, <2>2
<1>14. TargetMeant(tokens) =
         [ok |-> TRUE, path |-> Chars(tokens, 1, mark - 1), query_params |-> params]
  BY <1>7, Zenon DEF TargetMeant
<1> QED
  BY <1>9, <1>13, <1>14, Zenon

(* What is said of a target whose escapes are complete depends on nothing  *)
(* beyond it.                                                              *)
LEMMA EndsAsMeant ==
  ASSUME NEW target \in Seq(STRING), NEW beyond \in Seq(STRING),
         NEW text, text = target \o beyond, AllEscaped(target, text)
  PROVE  parse_uri(target, <<>>) = parse_uri(target, beyond)
<1>1. PICK D : D = STRING
  OBVIOUS
<1>2. PICK tokens : tokens = Tokens(target)
  OBVIOUS
<1>3. /\ text \in Seq(STRING) /\ Len(target) \in Nat /\ Len(beyond) \in Nat
      /\ Len(text) = Len(target) + Len(beyond)
      /\ \A i \in 1 .. Len(target) : text[i] = target[i]
  BY TextIs
<1>4. IsTarget(D, target, text, tokens)
  BY <1>1, <1>2, <1>3 DEF IsTarget
<1>5. parse_uri(target, beyond) = TargetMeant(tokens)
  BY <1>4, ParsedIs
<1>6. AllEscaped(target, target)
  <2> SUFFICES ASSUME NEW i \in 1 .. Len(target), EscapeAt(target, i)
               PROVE  /\ i + 2 <= Len(target)
                      /\ target[i + 1] \in Hex /\ target[i + 2] \in Hex
                      /\ i + 3 <= Len(target) => target[i + 3] \notin Hex
    BY Zenon DEF AllEscaped
  <2>1. /\ i + 2 <= Len(target)
        /\ text[i + 1] \in Hex /\ text[i + 2] \in Hex
        /\ i + 3 <= Len(text) => text[i + 3] \notin Hex
    BY Zenon DEF AllEscaped
  <2> HIDE DEF Hex
  <2>2. text[i + 1] = target[i + 1] /\ text[i + 2] = target[i + 2]
    BY <1>3, <2>1
  <2>3. i + 3 <= Len(target) => i + 3 <= Len(text) /\ text[i + 3] = target[i + 3]
    BY <1>3
  <2> QED
    BY <2>1, <2>2, <2>3
<1>7. IsTarget(D, target, target, tokens)
  BY <1>1, <1>2, <1>6, <1>3 DEF IsTarget
<1>8. target \o <<>> = target
  BY NothingBeyond
<1>9. IsTarget(D, target, target \o <<>>, tokens)
  BY <1>7, <1>8, Zenon
<1>10. parse_uri(target, <<>>) = TargetMeant(tokens)
  BY <1>9, ParsedIs
<1> QED
  BY <1>5, <1>10

LEMMA UriIs ==
  ASSUME request \in Requests \cup {NoRequest}, WellEscaped
  PROVE  /\ Uri = TargetMeant(Tokens(request.target))
         /\ Meant = TargetMeant(Tokens(request.target))
<1>1. PICK D : D = STRING
  OBVIOUS
<1>2. PICK target : target = request.target
  OBVIOUS
<1>3. PICK beyond : beyond = request.beyond
  OBVIOUS
<1>4. PICK tokens : tokens = Tokens(target)
  OBVIOUS
<1>5. target \in Seq(STRING) /\ beyond \in Seq(STRING)
  BY <1>2, <1>3, RequestIs
<1>6. PICK text : text = target \o beyond
  OBVIOUS
<1>7. /\ text \in Seq(STRING) /\ Len(target) \in Nat /\ Len(beyond) \in Nat
      /\ Len(text) = Len(target) + Len(beyond)
      /\ \A i \in 1 .. Len(target) : text[i] = target[i]
  BY <1>5, <1>6, TextIs
<1>8. AllEscaped(target, text)
  BY <1>2, <1>3, <1>6, Zenon DEF WellEscaped, AllEscaped, EscapeAt
<1>9. IsTarget(D, target, text, tokens)
  BY <1>1, <1>4, <1>5, <1>7, <1>8 DEF IsTarget
<1>10. parse_uri(target, beyond) = TargetMeant(tokens)
  BY <1>6, <1>9, ParsedIs
<1>11. Uri = TargetMeant(tokens)
  BY <1>2, <1>3, <1>10, Zenon DEF Uri
<1>12. Meant = TargetMeant(tokens)
  BY <1>2, <1>4, Zenon DEF Meant, TargetMeant, PairsMeant, PairMeant, Mark, Ends, Equal
<1> QED
  BY <1>2, <1>4, <1>11, <1>12

(* The pairs and their halves, cut out before the escapes are read, say    *)
(* what they say when every escape is read first and what it stood for     *)
(* kept from separating (request.cpp:40-56): an escaped ?, &, ; or = is    *)
(* part of a name or of a value, for every target whose escapes have their *)
(* two digits and no third behind them.                                    *)
THEOREM DecodingComesLast == Spec => []DecodedAfterSplitting
<1>1. Handled => DecodedAfterSplitting
  BY UriIs DEF Handled, DecodedAfterSplitting
<1> QED
  BY <1>1, HandledHolds, PTL

(* The HTTP 1.0 server took the pairs one by one from the front of the     *)
(* query and refused a path with .. as it parsed (request_handler.cpp:34), *)
(* the one that replaced it looks at the path later                        *)
(* (request_handler.ipp:105) and at a view that does not end in a zero:    *)
(* they refuse the same targets and read the same path and pairs, for      *)
(* every target that ends its buffer, and for every one whose escapes have *)
(* two digits and no third behind them whatever the buffer holds.          *)
THEOREM ParsesAsBefore == Spec => []ParsedAsBefore
<1>1. Handled => ParsedAsBefore
  <2> SUFFICES ASSUME Handled, WellEscaped \/ request.beyond = <<>>,
                      NEW v, v = archived_parse_uri(request.target)
               PROVE  /\ v.ok <=> Uri.ok /\ Legal(Uri.path)
                      /\ v.path = Uri.path
                      /\ v.query_params = Uri.query_params
    BY DEF ParsedAsBefore, ArchivedUris
  <2>1. PICK target, beyond : target = request.target /\ beyond = request.beyond
    OBVIOUS
  <2>2. target \in Seq(STRING) /\ beyond \in Seq(STRING)
    BY <2>1, RequestIs DEF Handled
  <2>3. PICK u : u = parse_uri(target, <<>>)
    OBVIOUS
  <2>4. Uri = u
    <3>1. CASE request.beyond = <<>>
      BY <2>1, <2>3, <3>1, Zenon DEF Uri
    <3>2. CASE WellEscaped
      <4>1. PICK text : text = target \o beyond
        OBVIOUS
      <4>2. AllEscaped(target, text)
        BY <2>1, <3>2, <4>1, Zenon DEF WellEscaped, AllEscaped, EscapeAt
      <4>3. parse_uri(target, <<>>) = parse_uri(target, beyond)
        BY <2>2, <4>1, <4>2, EndsAsMeant
      <4> QED
        BY <2>1, <2>3, <4>3, Zenon DEF Uri
    <3> QED
      BY <3>1, <3>2
  <2>5. v = archived_parse_uri(target)
    BY <2>1
  <2>6. /\ v.ok <=> u.ok /\ Legal(u.path)
        /\ v.path = u.path
        /\ v.query_params = u.query_params
    BY <2>2, <2>3, <2>5, ArchivedUriIs
  <2> QED
    BY <2>4, <2>6
<1> QED
  BY <1>1, HandledHolds, PTL

(***************************************************************************)
(* Paths and numbers                                                       *)
(***************************************************************************)

IsText(text) == \E C : text \in Seq(C)

LEMMA DecodedText ==
  ASSUME NEW D, NEW text \in Seq(D), NEW first \in Nat \ {0}, NEW last \in Nat,
         first <= last + 1, last <= Len(text)
  PROVE  IsText(url_decode(text, first, last).out)
<1>1. PICK C : url_decode(text, first, last) \in [ok : BOOLEAN, out : Seq(C)]
  BY DecodedIsText
<1>2. url_decode(text, first, last).out \in Seq(C)
  BY <1>1
<1> QED
  BY <1>2 DEF IsText

LEMMA PairIsText ==
  ASSUME NEW D, NEW text \in Seq(D), NEW a \in Nat \ {0}, NEW b \in Nat, a <= b, b <= Len(text),
         NEW p, p = [first |-> a, last |-> b]
  PROVE  KeyValue(text, p).at \in Nat /\ IsText(KeyValue(text, p).value)
<1>1. p.first = a /\ p.last = b /\ Len(text) \in Nat /\ a \in Nat
  OBVIOUS
<1>2. PICK cuts : cuts = {"="}
  BY Zenon
<1>3. PICK sep : sep = Find(text, a, b, cuts)
  OBVIOUS
<1>4. sep \in a .. b + 1
  <2>1. a \in Nat /\ b \in Nat /\ a <= b + 1 /\ sep = Find(text, a, b, cuts)
    BY <1>1, <1>3
  <2> QED
    BY <2>1, FindIs
<1>5. KeyValue(text, p).at = a
  BY <1>1 DEF KeyValue
<1> DEFINE value == IF sep > b THEN EndOfView ELSE url_decode(text, sep + 1, b)
<1>6. KeyValue(text, p).value = value.out
  BY <1>1, <1>2, <1>3, Zenon DEF KeyValue, EndOfView
<1>7. CASE sep > b
  <2>1. value.out = <<>>
    BY <1>7 DEF EndOfView
  <2>2. <<>> \in Seq(D)
    OBVIOUS
  <2>3. IsText(value.out)
    BY <2>1, <2>2, Zenon DEF IsText
  <2> QED
    BY <1>1, <1>5, <1>6, <2>3, Zenon
<1>8. CASE ~(sep > b)
  <2>1. PICK from \in Nat \ {0} : from = sep + 1 /\ from <= b + 1
    BY <1>1, <1>4, <1>8
  <2>2. IsText(url_decode(text, from, b).out)
    BY <2>1, DecodedText
  <2>3. value = url_decode(text, from, b)
    BY <1>8, <2>1
  <2> HIDE DEF value
  <2> QED
    BY <1>1, <1>5, <1>6, <2>2, <2>3, Zenon
<1> QED
  BY <1>7, <1>8

(* The pairs of a query, whatever they say *)
ArePairs(pairs) == \A q \in pairs : q.at \in Nat /\ IsText(q.value)

LEMMA UriIsText ==
  ASSUME request \in Requests \cup {NoRequest}
  PROVE  IsText(Uri.path) /\ ArePairs(Uri.query_params)
<1>1. PICK D : D = STRING
  OBVIOUS
<1>2. PICK target : target = request.target
  OBVIOUS
<1>3. PICK beyond : beyond = request.beyond
  OBVIOUS
<1>4. PICK text : text = target \o beyond
  OBVIOUS
<1>5. PICK last : last = Len(target)
  OBVIOUS
<1>6. text \in Seq(D) /\ last \in Nat /\ last <= Len(text)
  <2>1. target \in Seq(STRING) /\ beyond \in Seq(STRING)
    BY <1>2, <1>3, RequestIs
  <2>2. text \in Seq(STRING) /\ last \in Nat /\ Len(text) = last + Len(beyond)
    BY <1>4, <1>5, <2>1, TextIs
  <2>3. beyond \in Seq(D)
    BY <1>1, <2>1
  <2>4. Len(beyond) \in Nat
    BY <2>3
  <2> QED
    BY <1>1, <2>2, <2>4
<1>7. PICK cuts : cuts = {"?"}
  BY Zenon
<1>8. PICK mark : mark = Find(text, 1, last, cuts)
  OBVIOUS
<1>9. mark \in 1 .. last + 1
  <2>1. PICK one \in Nat : one = 1
    OBVIOUS
  <2>2. mark = Find(text, one, last, cuts) /\ one <= last + 1
    BY <1>6, <1>8, <2>1
  <2>3. mark \in one .. last + 1
    BY <1>6, <2>2, FindIs
  <2> QED
    BY <2>1, <2>3
<1>10. PICK path : path = url_decode(text, 1, mark - 1)
  OBVIOUS
<1>11. Uri.path = path.out /\ Uri.query_params = PairsFrom(text, mark + 1, last)
  BY <1>2, <1>3, <1>4, <1>5, <1>7, <1>8, <1>10, Zenon DEF Uri, parse_uri, PairsFrom
<1>12. IsText(path.out)
  <2>1. PICK one \in Nat \ {0} : one = 1
    OBVIOUS
  <2>2. mark - 1 \in Nat /\ one <= (mark - 1) + 1 /\ mark - 1 <= Len(text)
    BY <1>6, <1>9, <2>1
  <2>3. IsText(url_decode(text, one, mark - 1).out)
    BY <1>6, <2>2, DecodedText
  <2> QED
    BY <1>10, <2>1, <2>3
<1>13. PICK from \in Nat \ {0} : from = mark + 1
  BY <1>6, <1>9
<1>14. ASSUME NEW p \in Pieces(text, from, last, PairEnds)
       PROVE  KeyValue(text, p).at \in Nat /\ IsText(KeyValue(text, p).value)
  <2>1. PICK a \in from .. last, b \in from .. last :
          p = [first |-> a, last |-> b] /\ IsPiece(text, from, last, PairEnds, a, b)
    BY <1>6, <1>14, PieceIs
  <2>2. a \in Nat \ {0} /\ b \in Nat /\ a <= b /\ b <= Len(text)
    BY <1>6, <2>1 DEF IsPiece
  <2> QED
    BY <1>6, <2>1, <2>2, PairIsText
<1>15. ArePairs(PairsFrom(text, from, last))
  BY <1>14, Zenon DEF ArePairs, PairsFrom
<1> QED
  BY <1>11, <1>12, <1>13, <1>15

LEMMA ValueIsText ==
  ASSUME NEW uri, NEW key, ArePairs(uri.query_params), Given(uri, key)
  PROVE  IsText(Value(uri, key))
<1>1. PICK pairs : pairs = uri.query_params
  OBVIOUS
<1> DEFINE Is(q) == q.key = key /\ \A r \in pairs : r.key = key => q.at <= r.at
           S == {q.at : q \in {r \in pairs : r.key = key}}
<1>2. PICK some \in pairs : some.key = key
  BY <1>1 DEF Given
<1>3. S \in SUBSET Nat /\ S # {}
  BY <1>1, <1>2 DEF ArePairs
<1>4. PICK m : m \in S /\ \A n \in S : m <= n
  <2> HIDE DEF S
  <2>1. Min(S) \in S /\ \A n \in S : Min(S) <= n
    BY <1>3, MinFacts
  <2> QED
    BY <2>1
<1>5. PICK first \in pairs : first.key = key /\ first.at = m
  BY <1>4
<1>6. Is(first)
  BY <1>4, <1>5
<1>7. PICK q : q = CHOOSE r \in pairs : Is(r)
  OBVIOUS
<1>8. q \in pairs
  <2> HIDE DEF Is
  <2> QED
    BY <1>5, <1>6, <1>7, Zenon
<1>9. Value(uri, key) = q.value
  BY <1>1, <1>7, Zenon DEF Value
<1> QED
  BY <1>1, <1>8, <1>9 DEF ArePairs

LEMMA SmallRemainder ==
  ASSUME NEW m \in Nat \ {0}, NEW n \in 0 .. m - 1
  PROVE  n % m = n /\ (-(n + 1)) % m = m - (n + 1)
OBVIOUS

LEMMA Widths ==
  /\ MaxInt \in Nat \ {0} /\ MaxLong \in Nat /\ MaxInt < MaxLong
  /\ ULongs \in Nat \ {0} /\ ULongs = 2 * MaxLong + 2
BY RequestsAssumption DEF ULongs

LEMMA ToIntIs ==
  ASSUME NEW n \in Nat
  PROVE  ToInt(n) \in Ints /\ (n <= MaxInt => ToInt(n) = n)
<1>1. PICK m \in Nat \ {0} : m = 2 * MaxInt + 2
  BY Widths
<1>2. PICK low \in 0 .. m - 1 : low = n % m
  OBVIOUS
<1>3. n <= MaxInt => low = n
  <2>1. n <= MaxInt => n \in 0 .. m - 1
    BY <1>1, Widths
  <2> QED
    BY <1>2, <2>1, SmallRemainder
<1>4. ToInt(n) = IF low > MaxInt THEN low - m ELSE low
  BY <1>1, <1>2 DEF ToInt
<1> QED
  BY <1>1, <1>2, <1>3, <1>4, Widths DEF Ints

LEMMA StoulIs ==
  ASSUME NEW text, IsText(text)
  PROVE  Stoul(text).value \in Nat
<1>1. PICK C : text \in Seq(C)
  BY DEF IsText
<1>2. PICK n \in Int : n = Signed(Number(text, 10))
  BY <1>1, NumberNat
<1>3. n % ULongs \in Nat
  BY <1>2, Widths
<1> QED
  BY <1>2, <1>3 DEF Stoul

LEMMA ParamIs ==
  ASSUME NEW uri, NEW key, ArePairs(uri.query_params), Given(uri, key)
  PROVE  Param(uri, key) \in Ints
BY ValueIsText, StoulIs, ToIntIs DEF Param

(* The run number of a text of digits *)
LEMMA SpelledArrives ==
  ASSUME NEW text, IsText(text), IsDecimal(text), Decimal(text) \in Ints
  PROVE  /\ Stoul(text).ok /\ ~IsNegative(Stoul(text).value)
         /\ ToInt(Stoul(text).value) = Decimal(text)
<1>1. PICK C : text \in Seq(C)
  BY DEF IsText
<1>2. PICK n : n = Number(text, 10)
  OBVIOUS
<1>3. PICK d \in Nat : d = Decimal(text)
  BY <1>1, <1>2, DecimalIs
<1>4. n.found = TRUE /\ n.negative = FALSE /\ n.magnitude = d
  BY <1>1, <1>2, <1>3, DecimalIs
<1>5. d <= MaxInt /\ d <= MaxLong /\ d < ULongs /\ d \in 0 .. ULongs - 1
  BY <1>3, Widths DEF Ints
<1>6. d % ULongs = d
  BY <1>5, Widths, SmallRemainder
<1>7. Stoul(text).ok /\ Stoul(text).value = d
  BY <1>2, <1>4, <1>5, <1>6 DEF Stoul, Signed
<1>8. ToInt(d) = d
  BY <1>3, <1>5, ToIntIs
<1>9. ~(d > MaxLong)
  BY <1>5, Widths
<1> QED
  BY <1>3, <1>7, <1>8, <1>9 DEF IsNegative

LEMMA NegativeRefused ==
  ASSUME NEW text, IsText(text), text # <<>>, text[1] = "-", IsDecimal(Tail(text)),
         Decimal(Tail(text)) \in 1 .. MaxLong + 1
  PROVE  IsNegative(Stoul(text).value)
<1>1. PICK C : text \in Seq(C)
  BY DEF IsText
<1>2. PICK n : n = Number(text, 10)
  OBVIOUS
<1>3. PICK d \in Nat : d = Decimal(Tail(text))
  BY <1>1, <1>2, NegativeIs
<1>4. n.negative = TRUE /\ n.magnitude = d
  BY <1>1, <1>2, <1>3, NegativeIs
<1>5. d \in 1 .. MaxLong + 1
  BY <1>3
<1>6. PICK e \in 0 .. ULongs - 1 : e + 1 = d
  <2>1. d - 1 \in 0 .. ULongs - 1 /\ (d - 1) + 1 = d
    BY <1>5, Widths
  <2> QED
    BY <2>1
<1>7. (-(e + 1)) % ULongs = ULongs - (e + 1)
  BY <1>6, Widths, SmallRemainder
<1>8. Stoul(text).value = ULongs - d
  BY <1>2, <1>4, <1>6, <1>7 DEF Stoul, Signed
<1>9. ULongs - d > MaxLong
  BY <1>5, Widths
<1> QED
  BY <1>8, <1>9 DEF IsNegative

-----------------------------------------------------------------------------
(***************************************************************************)
(* What is done for a request                                              *)
(***************************************************************************)

LEMMA ApplicationTyped ==
  ASSUME NEW uri, ArePairs(uri.query_params), NEW path
  PROVE  Application(path, uri) \in
           [status : {"none", "ok", "bad_request", "not_found"},
            call   : {"none", "popRunFile", "restart", "getStats", "getStatsOfAll"},
            run    : Ints, stopLS : Ints]
<1>1. 0 \in Ints /\ -1 \in Ints
  BY Widths DEF Ints
<1>2. ASSUME NEW key, Given(uri, key) PROVE Param(uri, key) \in Ints
  BY <1>2, ParamIs
<1> DEFINE Replies == [status : {"none", "ok", "bad_request", "not_found"},
                       call   : {"none", "popRunFile", "restart", "getStats", "getStatsOfAll"},
                       run    : Ints, stopLS : Ints]
<1>3. bad_request \in Replies
  BY <1>1 DEF bad_request, Answer
<1>4. \A run \in Ints, stopLS \in Ints :
        /\ Call("popRunFile", run, stopLS) \in Replies
        /\ Call("restart", run, stopLS) \in Replies
        /\ Call("getStats", run, stopLS) \in Replies
        /\ Call("getStatsOfAll", run, stopLS) \in Replies
        /\ Call("none", run, stopLS) \in Replies
  BY DEF Call, Answer
<1> HIDE DEF Replies
<1>5. PopFile(uri) \in Replies
  <2>1. CASE ParamOK(uri, runnumber) /\ (Given(uri, stopls) => ParamOK(uri, stopls))
    <3>1. Given(uri, runnumber)
      BY <2>1 DEF ParamOK
    <3>2. PICK stopLS \in Ints : stopLS = IF Given(uri, stopls) THEN Param(uri, stopls) ELSE -1
      BY <1>1, <1>2
    <3>3. PopFile(uri) = Call("popRunFile", Param(uri, runnumber), stopLS)
      BY <2>1, <3>2, Zenon DEF PopFile
    <3> QED
      BY <1>2, <1>4, <3>1, <3>3
  <2>2. CASE ~(ParamOK(uri, runnumber) /\ (Given(uri, stopls) => ParamOK(uri, stopls)))
    BY <1>3, <2>2, Zenon DEF PopFile
  <2> QED
    BY <2>1, <2>2
<1>6. Stats(uri) \in Replies
  <2>1. CASE Given(uri, runnumber)
    <3>1. Param(uri, runnumber) \in Ints
      BY <1>2, <2>1
    <3> QED
      BY <1>1, <1>3, <1>4, <2>1, <3>1, Zenon DEF Stats
  <2>2. CASE ~Given(uri, runnumber)
    <3>1. ~(-1 >= 0)
      OBVIOUS
    <3> QED
      BY <1>1, <1>4, <2>2, <3>1, Zenon DEF Stats
  <2> QED
    BY <2>1, <2>2
<1>7. Restart(uri) \in Replies
  BY <1>1, <1>2, <1>3, <1>4, Zenon DEF Restart, ParamOK
<1>8. Call("none", 0, 0) \in Replies
  BY <1>1, <1>4
<1> QED
  BY <1>5, <1>6, <1>7, <1>8, Zenon DEF Application, Replies

(* The type invariant: whatever a request holds, the manager is called     *)
(* with ints.                                                              *)
THEOREM RequestsTyped == Spec => []TypeOK
<1>1. Handled => TypeOK
  <2> SUFFICES ASSUME Handled PROVE TypeOK
    OBVIOUS
  <2>1. ArePairs(Uri.query_params)
    BY UriIsText DEF Handled
  <2>2. 0 \in Ints
    BY Widths DEF Ints
  <2>3. CASE Answered
    <3>1. reply = Reaction
      BY <2>3 DEF Handled
    <3>2. \/ reply = bad_request \/ reply = not_found
          \/ reply = Application(WithIndex(Uri.path), Uri)
      BY <3>1 DEF Reaction
    <3> QED
      BY <2>1, <2>2, <3>2, ApplicationTyped DEF Handled, TypeOK, bad_request, not_found, Answer
  <2>4. CASE ~Answered
    BY <2>2, <2>4 DEF Handled, Answered, TypeOK, NoReply, Answer
  <2> QED
    BY <2>3, <2>4
<1> QED
  BY <1>1, HandledHolds, PTL

LEMMA PopFilePath ==
  ASSUME NEW uri, uri.path = <<"/", "popfile">>
  PROVE  Legal(uri.path) /\ WithIndex(uri.path) = <<"/", "popfile">>
<1>1. PICK slash : slash = "/"
  BY Zenon
<1>2. PICK word : word = "popfile"
  BY Zenon
<1>3. slash # "." /\ word # "/"
  BY <1>1, <1>2, Zenon
<1>4. PICK dot : dot = "."
  BY Zenon
<1>5. uri.path = <<slash, word>> /\ slash # dot /\ word # slash
  BY <1>1, <1>2, <1>3, <1>4
<1>6. /\ uri.path # <<>> /\ uri.path[1] = slash
      /\ \A i \in 1 .. Len(uri.path) - 1 : ~(uri.path[i] = dot /\ uri.path[i + 1] = dot)
  BY <1>5
<1>7. Last(uri.path) = word
  BY <1>5 DEF Last
<1> QED
  BY <1>1, <1>2, <1>3, <1>4, <1>5, <1>6, <1>7, Zenon DEF Legal, WithIndex

LEMMA RunNumberHandled ==
  ASSUME Handled, Answered, WellEscaped, request.method = "GET",
         Meant.path = <<"/", "popfile">>, Given(Meant, runnumber), ~Given(Meant, stopls),
         NEW text, text = Value(Meant, runnumber)
  PROVE  /\ IsText(text)
         /\ reply = IF Stoul(text).ok /\ ~IsNegative(Stoul(text).value)
                    THEN Call("popRunFile", ToInt(Stoul(text).value), -1)
                    ELSE bad_request
<1>1. PICK uri : uri = Uri
  OBVIOUS
<1>2. uri = Meant /\ ArePairs(uri.query_params) /\ reply = Reaction
  BY <1>1, UriIs, UriIsText DEF Handled
<1>3. uri.ok
  BY <1>2 DEF Meant
<1>4. Legal(uri.path) /\ WithIndex(uri.path) = <<"/", "popfile">>
  BY <1>2, PopFilePath
<1>5. WithIndex(uri.path) \in handlers
  BY <1>4, Zenon DEF handlers
<1>6. reply = Application(<<"/", "popfile">>, uri)
  BY <1>1, <1>2, <1>3, <1>4, <1>5, Zenon DEF Reaction
<1>7. reply = PopFile(uri)
  BY <1>6, Zenon DEF Application
<1>8. IsText(text)
  BY <1>2, ValueIsText
<1> QED
  BY <1>2, <1>7, <1>8, Zenon DEF PopFile, ParamOK, Param

(* /popfile calls the manager with the run number that the request spells, *)
(* if an int can hold it, and not at all for a negative one, which         *)
(* strtoul() reads as a large number (main.cc:112-119): for every request  *)
(* and every width of int and long.                                        *)
THEOREM RunNumbersAsSpelled == Spec => []RunNumbersArrive
<1>1. TypeOK /\ Handled => RunNumbersArrive
  <2> SUFFICES ASSUME TypeOK, Handled,
                      Answered, WellEscaped, request.method = "GET",
                      Meant.path = <<"/", "popfile">>,
                      Given(Meant, runnumber), ~Given(Meant, stopls),
                      NEW text, text = Value(Meant, runnumber)
               PROVE  /\ IsDecimal(text) /\ Decimal(text) \in Ints =>
                           reply = Call("popRunFile", Decimal(text), -1)
                      /\ text # <<>> /\ text[1] = "-" /\ IsDecimal(Tail(text))
                           /\ Decimal(Tail(text)) \in 1 .. MaxLong + 1 =>
                           reply = bad_request
    BY Zenon DEF RunNumbersArrive
  <2>1. /\ IsText(text)
        /\ reply = IF Stoul(text).ok /\ ~IsNegative(Stoul(text).value)
                   THEN Call("popRunFile", ToInt(Stoul(text).value), -1)
                   ELSE bad_request
    BY RunNumberHandled
  <2>2. ASSUME IsDecimal(text), Decimal(text) \in Ints
        PROVE  reply = Call("popRunFile", Decimal(text), -1)
    BY <2>1, <2>2, SpelledArrives, Zenon
  <2>3. ASSUME text # <<>>, text[1] = "-", IsDecimal(Tail(text)),
               Decimal(Tail(text)) \in 1 .. MaxLong + 1
        PROVE  reply = bad_request
    BY <2>1, <2>3, NegativeRefused, Zenon
  <2> QED
    BY <2>2, <2>3
<1> QED
  BY <1>1, HandledHolds, RequestsTyped, PTL

(* Nothing is done for a path with .. in it, however its dots are spelled  *)
(* (request_handler.ipp:105): for every target whose escapes are whole.    *)
THEOREM DotsRefused == Spec => []DotsAreRefused
<1>1. Handled => DotsAreRefused
  <2> SUFFICES ASSUME Handled, Answered, WellEscaped, Dots(Meant.path)
               PROVE  reply = bad_request
    BY DEF DotsAreRefused
  <2>1. PICK path : path = Uri.path
    OBVIOUS
  <2>2. Uri.path = Meant.path /\ IsText(path) /\ reply = Reaction
    BY <2>1, UriIs, UriIsText DEF Handled
  <2>3. PICK C : path \in Seq(C)
    BY <2>2 DEF IsText
  <2>4. PICK i \in DOMAIN path : i > 1 /\ path[i - 1] = "." /\ path[i] = "."
    BY <2>1, <2>2 DEF Dots
  <2>5. PICK k \in 1 .. Len(path) - 1 : k = i - 1 /\ k + 1 = i
    BY <2>3, <2>4
  <2>6. ~Legal(path)
    BY <2>4, <2>5, Zenon DEF Legal
  <2> QED
    BY <2>1, <2>2, <2>6, Zenon DEF Reaction
<1> QED
  BY <1>1, HandledHolds, PTL
=============================================================================
