--------------------------- MODULE RequestGrammar ---------------------------
(***************************************************************************)
(* What an HTTP 1.0 request is, line by line: the characters of a text     *)
(* from one place to another, first to last.                               *)
(***************************************************************************)
EXTENDS RequestParser

Within(text, first, last, chars) == \A i \in first .. last : text[i] \in chars

IsVersion(text, first, last) ==
  /\ text[first] = "H" /\ text[first + 1] = "T" /\ text[first + 2] = "T"
  /\ text[first + 3] = "P" /\ text[first + 4] = Slash
  /\ \E dot \in first + 6 .. last - 1 :
       /\ text[dot] = Dot
       /\ Within(text, first + 5, dot - 1, DigitChars)
       /\ Within(text, dot + 1, last, DigitChars)

(* The version has eight characters at least. *)
IsRequestLine(text, last) ==
  \E a, b \in 2 .. last - 8 :
    /\ a < b
    /\ text[a] = SP /\ text[b] = SP
    /\ Within(text, 1, a - 1, TokenChars)
    /\ Within(text, a + 1, b - 1, Printable \ {SP})
    /\ IsVersion(text, b + 1, last)

IsHeader(text, first, last) ==
  \E colon \in first + 1 .. last - 1 :
    /\ text[colon] = Colon /\ text[colon + 1] = SP
    /\ Within(text, first, colon - 1, TokenChars)
    /\ Within(text, colon + 2, last, Printable)

IsContinuation(text, first, last) ==
  \E n \in first .. last :
    /\ Within(text, first, n, Blank)
    /\ Within(text, n + 1, last, Printable)

(* A line has its line end as its last character. *)
IsLine(text, first, last) ==
  /\ text[last] = LF
  /\ first = 1 \/ text[first - 1] = LF
  /\ \A i \in first .. last - 1 : text[i] # LF

(* Some line comes before the one that ends here. *)
Follows(text, last) == \E i \in 1 .. last - 1 : text[i] = LF

(* The request line first, then headers; the first of these is not a       *)
(* continuation.                                                           *)
WellFormed(text, first, last) ==
  /\ last > first /\ text[last - 1] = CR
  /\ \/ first = 1 /\ IsRequestLine(text, last - 2)
     \/ first > 1 /\ IsHeader(text, first, last - 2)
     \/ first > 1 /\ Follows(text, first - 1) /\ IsContinuation(text, first, last - 2)

(* The first n characters are such lines, and an empty one ends them. *)
Lines(text, n) ==
  /\ n > 0 /\ text[n] = LF
  /\ \A last \in 1 .. n : \A first \in 1 .. last :
       IsLine(text, first, last) => WellFormed(text, first, last)

IsRequest(text, n) ==
  /\ n > 2 /\ text[n - 1] = CR /\ text[n] = LF
  /\ Lines(text, n - 2)

(* Some beginning of the first n characters is a request. *)
HoldsRequest(text, n) == \E m \in 1 .. n : IsRequest(text, m)
=============================================================================
