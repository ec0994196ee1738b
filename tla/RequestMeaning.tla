--------------------------- MODULE RequestMeaning ---------------------------
(***************************************************************************)
(* What a request says, read the other way round: the escapes of the       *)
(* target are taken out first, and what was escaped is remembered not to   *)
(* separate.                                                               *)
(***************************************************************************)
EXTENDS RequestHandler

Hex == DigitsOf(16)

(* Every escape has its two digits and no third behind them, which         *)
(* strtol() would take as well (request.cpp:86).                           *)
WellEscaped ==
  LET target == request.target
      text   == target \o request.beyond
  IN \A i \in DOMAIN target : target[i] = "%" =>
       /\ i + 2 <= Len(target)
       /\ text[i + 1] \in Hex /\ text[i + 2] \in Hex
       /\ i + 3 <= Len(text) => text[i + 3] \notin Hex

Literal(ch) == [char |-> ch, literal |-> TRUE]
Escaped(ch) == [char |-> ch, literal |-> FALSE]
Nothing     == [char |-> "", literal |-> FALSE]

(* What each character stands for, an escape at its % *)
Tokens(target) ==
  LET IsEscape(i) == i \in DOMAIN target /\ target[i] = "%"
  IN [i \in DOMAIN target |->
        IF IsEscape(i - 1) \/ IsEscape(i - 2) THEN Nothing
        ELSE IF IsEscape(i)
             THEN Escaped(Char(16 * DigitValue(target[i + 1]) + DigitValue(target[i + 2])))
        ELSE IF target[i] = "+" THEN Escaped(" ")
        ELSE Literal(target[i])]

(* The characters that a view has, in their order *)
Chars(tokens, first, last) ==
  LET places == {i \in first .. last : tokens[i] # Nothing}
      Nth(n) == Min({i \in places : Cardinality({k \in places : k <= i}) = n})
  IN [n \in 1 .. Cardinality(places) |-> tokens[Nth(n)].char]

Meant ==
  LET tokens == Tokens(request.target)
      end    == Len(tokens)
      mark   == Find(tokens, 1, end, {Literal("?")})
      pieces == Pieces(tokens, mark + 1, end, {Literal("&"), Literal(";")})
      Pair(p) ==
        LET sep == Find(tokens, p.first, p.last, {Literal("=")})
        IN [ok |-> TRUE, at |-> p.first,
            key |-> Chars(tokens, p.first, sep - 1),
            value |-> Chars(tokens, sep + 1, p.last)]
  IN [ok           |-> TRUE,
      path         |-> Chars(tokens, 1, mark - 1),
      query_params |-> {Pair(p) : p \in pieces}]

IsDecimal(text) == text # <<>> /\ \A i \in DOMAIN text : text[i] \in DigitsOf(10)
Decimal(text)   == Spelled(text, 10)

Answered == reply # NoReply
Dots(path) == \E i \in DOMAIN path : i > 1 /\ path[i - 1] = "." /\ path[i] = "."

-----------------------------------------------------------------------------
(* An escaped &, ;, = or ? is part of a name or a value and separates      *)
(* nothing, as parse_uri() splits before it decodes (request.cpp:40-56).   *)
DecodedAfterSplitting == WellEscaped => Uri = Meant

(* The manager is called with ints.  /popfile calls it with the run number *)
(* that the request spells, if an int can hold it, and not at all for a    *)
(* negative one, which strtoul() reads as a large number (main.cc:112-119).*)
RunNumbersArrive ==
  LET text == Value(Meant, runnumber)
  IN
  /\ TypeOK
  /\ /\ Answered /\ WellEscaped /\ request.method = "GET"
     /\ Meant.path = <<"/", "popfile">>
     /\ Given(Meant, runnumber) /\ ~Given(Meant, stopls)
     =>
     /\ IsDecimal(text) /\ Decimal(text) \in Ints =>
          reply = Call("popRunFile", Decimal(text), -1)
     /\ text # <<>> /\ text[1] = "-" /\ IsDecimal(Tail(text))
          /\ Decimal(Tail(text)) \in 1 .. MaxLong + 1 =>
          reply = bad_request

(* Nothing is done for, nor told about, a path with .. in it, however it   *)
(* is spelled (request_handler.ipp:105).                                   *)
DotsAreRefused ==
  Answered /\ WellEscaped /\ Dots(Meant.path) => reply = bad_request
=============================================================================
