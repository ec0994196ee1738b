--------------------------- MODULE RequestTarget ---------------------------
(***************************************************************************)
(* How the target of a request is taken apart                              *)
(* (src/src/http/1.1/server/request.cpp).                                  *)
(*                                                                         *)
(* A text is a sequence of characters, where a word of ordinary letters    *)
(* that does not begin with a hex digit counts as one character.  A piece  *)
(* of the target is a view [first .. last] of the text, which goes on      *)
(* after the end of the target with whatever the memory there holds.  The  *)
(* vector of pairs is a set, where each knows its place.                   *)
(***************************************************************************)
EXTENDS Integers, Sequences, SequencesExt

Digits == <<"0", "1", "2", "3", "4", "5", "6", "7", "8", "9",
            "A", "B", "C", "D", "E", "F">>

DigitsOf(base) == {Digits[i] : i \in 1 .. base}
DigitValue(ch) == (CHOOSE i \in 1 .. 16 : Digits[i] = ch) - 1

(* The character of a byte; "other" stands for all those nothing looks at. *)
Char(byte) ==
  CASE byte = 32        -> " "
    [] byte = 37        -> "%"
    [] byte = 38        -> "&"
    [] byte = 43        -> "+"
    [] byte = 45        -> "-"
    [] byte = 46        -> "."
    [] byte = 47        -> "/"
    [] byte \in 48 .. 57 -> Digits[byte - 47]
    [] byte = 59        -> ";"
    [] byte = 61        -> "="
    [] byte = 63        -> "?"
    [] byte \in 65 .. 70 -> Digits[byte - 54]
    [] OTHER            -> "other"

(* The first position from which the text is not all in chars *)
EndOfRun(text, from, chars) ==
  Min({i \in from .. Len(text) : text[i] \notin chars} \cup {Len(text) + 1})

(* The number that a text of digits spells *)
Spelled(text, base) ==
  LET upTo[i \in 0 .. Len(text)] ==
        IF i = 0 THEN 0 ELSE base * upTo[i - 1] + DigitValue(text[i])
  IN upTo[Len(text)]

(* strtol() and strtoul(): blanks, a sign, and as many digits as there are *)
(* (without 0x, as x is no character here).                                *)
Number(text, base) ==
  LET sign  == EndOfRun(text, 1, {" "})
      first == IF sign <= Len(text) /\ text[sign] \in {"+", "-"} THEN sign + 1 ELSE sign
      end   == EndOfRun(text, first, DigitsOf(base))
  IN [found     |-> end > first,
      negative  |-> first > sign /\ text[sign] = "-",
      magnitude |-> Spelled(SubSeq(text, first, end - 1), base)]

Signed(n) == IF n.negative THEN -n.magnitude ELSE n.magnitude

-----------------------------------------------------------------------------
Undecodable == [ok |-> FALSE, out |-> <<>>]

(* strtol() reads on from the % as far as there are digits, while the loop *)
(* goes on after two characters.                                           *)
url_decode(text, first, last) ==
  LET Then(ch, rest) == [rest EXCEPT !.out = <<ch>> \o @]
      From[i \in first .. last + 1] ==
        IF i > last THEN [ok |-> TRUE, out |-> <<>>]
        ELSE IF text[i] = "%" THEN
          LET n == Number(SubSeq(text, i + 1, Len(text)), 16)
          IN IF i + 2 > last \/ ~n.found THEN Undecodable
             ELSE Then(Char(Signed(n) % 256), From[i + 3])
        ELSE Then(IF text[i] = "+" THEN " " ELSE text[i], From[i + 1])
  IN From[first]

(* The views between the cuts, the empty ones left out *)
Pieces(text, first, last, cuts) ==
  {p \in [first : first .. last, last : first .. last] :
     /\ p.first <= p.last
     /\ p.first = first \/ text[p.first - 1] \in cuts
     /\ \A i \in p.first .. p.last : text[i] \notin cuts
     /\ p.last = last \/ text[p.last + 1] \in cuts}

(* The first position of one of chars, the end of the view if there is none *)
Find(text, first, last, chars) == Min({i \in first .. last : text[i] \in chars} \cup {last + 1})

(* Plausible slip: the pair decoded before it is split, so that an escaped *)
(* = separates.                                                            *)
KeyValueDecodedFirst(text, p) ==
  LET pair == url_decode(text, p.first, p.last)
      sep  == Find(pair.out, 1, Len(pair.out), {"="})
  IN [ok    |-> pair.ok,
      at    |-> p.first,
      key   |-> SubSeq(pair.out, 1, sep - 1),
      value |-> SubSeq(pair.out, sep + 1, Len(pair.out))]

KeyValue(text, p) ==
  LET sep   == Find(text, p.first, p.last, {"="})
      key   == url_decode(text, p.first, sep - 1)
      value == IF sep > p.last THEN [ok |-> TRUE, out |-> <<>>]
                               ELSE url_decode(text, sep + 1, p.last)
  IN [ok |-> key.ok /\ value.ok, at |-> p.first, key |-> key.out, value |-> value.out]

PairEnds == {"&", ";"}

parse_uri(target, beyond) ==
  LET text   == target \o beyond
      mark   == Find(text, 1, Len(target), {"?"})
      path   == url_decode(text, 1, mark - 1)
      params == {KeyValue(text, p) : p \in Pieces(text, mark + 1, Len(target), PairEnds)}
  IN [ok           |-> path.ok /\ \A q \in params : q.ok,
      path         |-> path.out,
      query_params |-> params]

(* query(): the first pair with the key *)
Given(uri, key) == \E q \in uri.query_params : q.key = key
Value(uri, key) ==
  (CHOOSE q \in uri.query_params :
     q.key = key /\ \A r \in uri.query_params : r.key = key => q.at <= r.at).value
=============================================================================
