----------------------- MODULE ArchivedServer_proofs -----------------------
(***************************************************************************)
(* The connections and their manager, for every set of connections, and    *)
(* the parser, for every text and every way to cut it in pieces: that its  *)
(* automaton accepts what the grammar calls a request.                     *)
(***************************************************************************)
EXTENDS ArchivedServer, WellFoundedInduction, SequenceTheorems, FiniteSetTheorems, TLAPS

(* The functions of the model are functions, the sets of connections sets  *)
(* of connections.                                                         *)
Shape ==
  /\ client \in [Connections -> {"away", "open", "left"}]
  /\ backlog \subseteq Connections
  /\ accepted \subseteq Connections
  /\ connections \subseteq Connections
  /\ op \in [Connections -> {"none", "read", "write", "ended"}]
  /\ result \in [Connections -> Results]
  /\ open \in [Connections -> BOOLEAN]

(* The shape holds at first and after every step.                          *)
LEMMA ShapeHolds == Spec => []Shape
<1>1. Init => Shape
  BY DEF Init, Shape, Results
<1>2. Shape /\ [Next]_vars => Shape'
  <2> SUFFICES ASSUME Shape, [Next]_vars PROVE Shape'
    OBVIOUS
  <2> USE DEF Shape, Results
  <2>1. CASE OnAccept
    BY <2>1 DEF OnAccept, clientVars
  <2>2. CASE OnSignal
    BY <2>2 DEF OnSignal, clientVars
  <2>3. ASSUME NEW c \in Connections, OnRead(c) \/ OnWrite(c) PROVE Shape'
    BY <2>3 DEF OnRead, OnWrite, Begin, Ended, Abandon, Stop, clientVars, listenVars
  <2>4. ASSUME NEW c \in Connections, AcceptFinishes(c) PROVE Shape'
    BY <2>4 DEF AcceptFinishes, clientVars, connVars
  <2>5. ASSUME NEW c \in Connections, Breaks(c) \/ WriteFinishes(c) PROVE Shape'
    BY <2>5 DEF Breaks, WriteFinishes, Finish, clientVars, listenVars
  <2>6. CASE Signal
    BY <2>6 DEF Signal, clientVars, connVars
  <2>7. ASSUME NEW c \in Connections, Connect(c) \/ Leave(c) PROVE Shape'
    BY <2>7 DEF Connect, Leave, connVars, listenVars
  <2>8. ASSUME NEW c \in Connections, NEW n \in PieceSizes, ReadFinishes(c, n)
        PROVE Shape'
    BY <2>8 DEF ReadFinishes, Finish, clientVars, listenVars
  <2>9. CASE UNCHANGED vars
    BY <2>9 DEF vars, clientVars, connVars, listenVars
  <2> QED
    BY <2>1, <2>2, <2>3, <2>4, <2>5, <2>6, <2>7, <2>8, <2>9 DEF Next, Serve, Kernel
<1> QED
  BY <1>1, <1>2, PTL DEF Spec

-----------------------------------------------------------------------------
(* The manager has every connection that is open and none that has ended   *)
(* (connection_manager.cpp:20-37), through every order of handlers,        *)
(* signals and clients that leave: with the invariant.                     *)
THEOREM ConnectionsAccounted == Spec => []CInv
<1> USE DEF CInv, ManagerHasThemAll, OnTheWay, Fresh, Outstanding
<1>1. Init => CInv
  BY DEF Init
<1>2. CInv /\ Shape /\ [Next]_vars => CInv'
  <2> SUFFICES ASSUME CInv, Shape, [Next]_vars PROVE CInv'
    OBVIOUS
  <2> USE DEF Shape, Results
  <2>1. CASE OnAccept
    BY <2>1 DEF OnAccept, clientVars
  <2>2. CASE OnSignal
    BY <2>2 DEF OnSignal, clientVars
  <2>3. ASSUME NEW c \in Connections, OnRead(c) PROVE CInv'
    <3>1. CASE result[c] = "ok"
      BY <2>3, <3>1 DEF OnRead, Begin, clientVars, listenVars
    <3>2. CASE result[c] = "aborted"
      BY <2>3, <3>2 DEF OnRead, Ended, Abandon, clientVars, listenVars
    <3>3. CASE result[c] = "error"
      BY <2>3, <3>3 DEF OnRead, Ended, Stop, clientVars, listenVars
    <3> QED
      BY <2>3, <3>1, <3>2, <3>3 DEF OnRead
  <2>4. ASSUME NEW c \in Connections, OnWrite(c) PROVE CInv'
    <3>1. CASE result[c] = "aborted"
      BY <2>4, <3>1 DEF OnWrite, Ended, Abandon, clientVars, listenVars
    <3>2. CASE result[c] # "aborted"
      BY <2>4, <3>2 DEF OnWrite, Ended, Stop, clientVars, listenVars
    <3> QED
      BY <3>1, <3>2
  <2>5. ASSUME NEW c \in Connections, AcceptFinishes(c) PROVE CInv'
    BY <2>5 DEF AcceptFinishes, clientVars, connVars
  <2>6. ASSUME NEW c \in Connections, Breaks(c) \/ WriteFinishes(c) PROVE CInv'
    BY <2>6 DEF Breaks, WriteFinishes, Finish, clientVars, listenVars
  <2>7. CASE Signal
    BY <2>7 DEF Signal, clientVars, connVars
  <2>8. ASSUME NEW c \in Connections, Connect(c) \/ Leave(c) PROVE CInv'
    BY <2>8 DEF Connect, Leave, connVars, listenVars
  <2>9. ASSUME NEW c \in Connections, NEW n \in PieceSizes, ReadFinishes(c, n)
        PROVE CInv'
    BY <2>9 DEF ReadFinishes, Finish, clientVars, listenVars
  <2>10. CASE UNCHANGED vars
    BY <2>10 DEF vars, clientVars, connVars, listenVars
  <2> QED
    BY <2>1, <2>2, <2>3, <2>4, <2>5, <2>6, <2>7, <2>8, <2>9, <2>10
       DEF Next, Serve, Kernel
<1> QED
  BY <1>1, <1>2, ShapeHolds, PTL DEF Spec

(* When stop_all() closes what the manager has, it closes every socket.    *)
THEOREM NoConnectionForgotten == Spec => []ManagerHasThemAll
<1>1. CInv => ManagerHasThemAll
  BY DEF CInv
<1> QED
  BY <1>1, ConnectionsAccounted, PTL

-----------------------------------------------------------------------------
(***************************************************************************)
(* The automaton                                                           *)
(***************************************************************************)

(* From where the parser is, some move leads with this character to state. *)
Goes(p, input, state) ==
  \E m \in Moves(p) : m[1] = p.state /\ input \in m[2] /\ m[3] = state

(* The moves, one by one: with any, some header has been read.             *)
Move(from, any, input, to) ==
  \/ from = "method_start" /\ input \in TokenChars /\ to = "method"
  \/ from = "method" /\ input \in TokenChars /\ to = "method"
  \/ from = "method" /\ input = SP /\ to = "uri"
  \/ from = "uri" /\ input \in Printable \ {SP} /\ to = "uri"
  \/ from = "uri" /\ input = SP /\ to = "http_version_h"
  \/ from = "http_version_h" /\ input = "H" /\ to = "http_version_t_1"
  \/ from = "http_version_t_1" /\ input = "T" /\ to = "http_version_t_2"
  \/ from = "http_version_t_2" /\ input = "T" /\ to = "http_version_p"
  \/ from = "http_version_p" /\ input = "P" /\ to = "http_version_slash"
  \/ from = "http_version_slash" /\ input = Slash /\ to = "http_version_major_start"
  \/ from = "http_version_major_start" /\ input \in DigitChars /\ to = "http_version_major"
  \/ from = "http_version_major" /\ input \in DigitChars /\ to = "http_version_major"
  \/ from = "http_version_major" /\ input = Dot /\ to = "http_version_minor_start"
  \/ from = "http_version_minor_start" /\ input \in DigitChars /\ to = "http_version_minor"
  \/ from = "http_version_minor" /\ input \in DigitChars /\ to = "http_version_minor"
  \/ from = "http_version_minor" /\ input = CR /\ to = "expecting_newline_1"
  \/ from = "expecting_newline_1" /\ input = LF /\ to = "header_line_start"
  \/ from = "header_line_start" /\ input = CR /\ to = "expecting_newline_3"
  \/ from = "header_line_start" /\ input \in TokenChars /\ to = "header_name"
  \/ from = "header_line_start" /\ any /\ input \in Blank /\ to = "header_lws"
  \/ from = "header_lws" /\ input \in Blank /\ to = "header_lws"
  \/ from = "header_lws" /\ input = CR /\ to = "expecting_newline_2"
  \/ from = "header_lws" /\ input \in Printable \ Blank /\ to = "header_value"
  \/ from = "header_name" /\ input \in TokenChars /\ to = "header_name"
  \/ from = "header_name" /\ input = Colon /\ to = "space_before_header_value"
  \/ from = "space_before_header_value" /\ input = SP /\ to = "header_value"
  \/ from = "header_value" /\ input \in Printable /\ to = "header_value"
  \/ from = "header_value" /\ input = CR /\ to = "expecting_newline_2"
  \/ from = "expecting_newline_2" /\ input = LF /\ to = "header_line_start"
  \/ from = "expecting_newline_3" /\ input = LF /\ to = "good"

LEMMA GoesIsMove ==
  ASSUME NEW p, NEW c, NEW s
  PROVE  Goes(p, c, s) <=> Move(p.state, p.headers, c, s)
BY DEF Goes, Move, Moves, RequestLine, Version, Headers

LEMMA CharFacts ==
  /\ \A c \in {SP, HT, CR, LF, Colon, Slash} : c \notin TokenChars
  /\ TokenChars \subseteq Printable
  /\ \A c \in {CR, LF, HT} : c \notin Printable
  /\ {SP, Colon, Slash, Dot} \subseteq Printable
  /\ Blank = {SP, HT}
  /\ DigitChars \subseteq TokenChars
  /\ Dot \notin DigitChars
  /\ CR # LF /\ SP # HT /\ CR # SP /\ CR # HT /\ LF # SP /\ LF # HT
  /\ SP # Colon /\ SP # Slash /\ Colon # LF /\ Colon # CR
  /\ "H" \in TokenChars /\ "T" \in TokenChars /\ "P" \in TokenChars
BY ZenonT(60) DEF SP, HT, CR, LF, Colon, Slash, Dot, TokenChars, Printable, Chars,
   is_tspecial, is_ctl, NotAscii, LetterChars, DigitChars, Blank

LEMMA StatesAre ==
  States = {"bad", "good", "method_start", "method", "uri", "http_version_h", "http_version_t_1",
    "http_version_t_2", "http_version_p", "http_version_slash", "http_version_major_start",
    "http_version_major", "http_version_minor_start", "http_version_minor", "expecting_newline_1",
    "header_line_start", "header_lws", "header_name", "space_before_header_value", "header_value",
    "expecting_newline_2", "expecting_newline_3"}
BY DEF States, RequestLine, Version, Headers

LEMMA OneMove ==
  ASSUME NEW p, NEW c, NEW s, NEW s2, Goes(p, c, s), Goes(p, c, s2)
  PROVE  s = s2
BY GoesIsMove, CharFacts DEF Move

LEMMA GoesToState ==
  ASSUME NEW p, NEW c, NEW s, Goes(p, c, s)
  PROVE  s \in States /\ s # "bad"
BY GoesIsMove, StatesAre DEF Move

LEMMA HeadersField ==
  ASSUME NEW x, NEW s, NEW t, NEW h \in BOOLEAN, x = [state |-> s, headers |-> h \/ s = t]
  PROVE  x.headers <=> h \/ s = t
OBVIOUS

LEMMA TakeIs ==
  ASSUME NEW p \in Parsers, NEW c \in Chars
  PROVE  /\ Take[p][c] \in Parsers
         /\ Decided(p) => Take[p][c] = p
         /\ ~Decided(p) =>
              /\ Take[p][c].headers <=> p.headers \/ Take[p][c].state = "header_name"
              /\ \A s : Goes(p, c, s) => Take[p][c].state = s
              /\ Take[p][c].state # "bad" => Goes(p, c, Take[p][c].state)
<1> DEFINE moves == {m \in Moves(p) : m[1] = p.state /\ c \in m[2]}
           state == IF moves = {} THEN "bad" ELSE (CHOOSE m \in moves : TRUE)[3]
<1>1. consume[p][c] = [state |-> state, headers |-> p.headers \/ state = "header_name"]
  BY DEF consume
<1>2. Take[p][c] = IF Decided(p) THEN p ELSE consume[p][c]
  BY DEF Take
<1>3. moves # {} => Goes(p, c, state)
  <2> SUFFICES ASSUME moves # {} PROVE Goes(p, c, state)
    OBVIOUS
  <2>1. PICK m \in moves : m = CHOOSE n \in moves : TRUE
    OBVIOUS
  <2>2. state = m[3]
    BY <2>1
  <2> QED
    BY <2>2 DEF Goes
<1>4. \A s : Goes(p, c, s) => moves # {}
  BY DEF Goes
<1>5. state \in States
  BY <1>3, GoesToState, StatesAre
<1>6. p.headers \in BOOLEAN
  BY DEF Parsers
<1> HIDE DEF state, moves
<1>7. CASE Decided(p)
  BY <1>2, <1>7
<1>8. CASE ~Decided(p)
  <2>1. Take[p][c] = [state |-> state, headers |-> p.headers \/ state = "header_name"]
    BY <1>1, <1>2, <1>8
  <2>2. Take[p][c].state = state
    BY <2>1
  <2>3. Take[p][c].headers <=> p.headers \/ state = "header_name"
    <3>1. PICK h \in BOOLEAN : h = p.headers
      BY <1>6
    <3>2. PICK s, next : s = state /\ next = Take[p][c]
      OBVIOUS
    <3>3. next = [state |-> s, headers |-> h \/ s = "header_name"]
      BY <2>1, <3>1, <3>2
    <3>4. next.headers <=> h \/ s = "header_name"
      BY ONLY <3>3, HeadersField, h \in BOOLEAN
    <3> QED
      BY <3>1, <3>2, <3>4
  <2>4. Take[p][c] \in Parsers
    BY <2>1, <1>5 DEF Parsers
  <2>5. \A s : Goes(p, c, s) => state = s
    BY <1>3, <1>4, OneMove
  <2>6. state # "bad" => Goes(p, c, state)
    <3>1. moves = {} => state = "bad"
      BY DEF state
    <3> QED
      BY <3>1, <1>3
  <2> QED
    BY ONLY <2>2, <2>3, <2>4, <2>5, <2>6, <1>8
<1> QED
  BY <1>7, <1>8

-----------------------------------------------------------------------------
(* Induction over the places of a text: a set of them that has the first   *)
(* and with each place the next has them all.                              *)
LEMMA AllPlaces ==
  ASSUME NEW N \in Nat, NEW T, T \subseteq 0 .. N, 0 \in T,
         \A n \in 0 .. N - 1 : n \in T => n + 1 \in T
  PROVE  T = 0 .. N
<1> SUFFICES ASSUME (0 .. N) \ T # {} PROVE FALSE
  OBVIOUS
<1>1. (0 .. N) \ T \subseteq Nat
  OBVIOUS
<1>2. PICK m \in (0 .. N) \ T : \A k \in (0 .. N) \ T : ~ (<<k, m>> \in OpToRel(<, Nat))
  BY <1>1, WFMin, NatLessThanWellFounded
<1>3. \A k \in (0 .. N) \ T : ~ (k < m)
  BY <1>1, <1>2 DEF OpToRel
<1>4. m - 1 \in T
  BY <1>3
<1> QED
  BY <1>4

(* A reading of a text: the parser before it and after each character. *)
IsReading(g, p, t) ==
  /\ g \in [0 .. Len(t) -> Parsers]
  /\ g[0] = p
  /\ \A i \in 1 .. Len(t) : g[i] = Take[g[i - 1]][t[i]]

LEMMA ReadingExists ==
  ASSUME NEW p \in Parsers, NEW t \in Seq(Chars)
  PROVE  \E g : IsReading(g, p, t)
<1> DEFINE Reads(n, g) ==
             /\ g \in [0 .. n -> Parsers] /\ g[0] = p
             /\ \A i \in 1 .. n : g[i] = Take[g[i - 1]][t[i]]
           T == {n \in 0 .. Len(t) : \E g : Reads(n, g)}
<1>1. 0 \in T
  <2> DEFINE g == [i \in 0 .. 0 |-> p]
  <2>1. Reads(0, g)
    OBVIOUS
  <2> HIDE DEF g
  <2> QED
    BY <2>1
<1>2. ASSUME NEW n \in 0 .. Len(t) - 1, n \in T PROVE n + 1 \in T
  <2>1. PICK g : Reads(n, g)
    BY <1>2
  <2>2. Take[g[n]][t[n + 1]] \in Parsers
    BY <2>1, TakeIs
  <2> DEFINE h == [i \in 0 .. n + 1 |-> IF i = n + 1 THEN Take[g[n]][t[n + 1]] ELSE g[i]]
  <2>3. Reads(n + 1, h)
    BY <2>1, <2>2
  <2> HIDE DEF h
  <2> QED
    BY <2>3
<1>3. T = 0 .. Len(t)
  <2> HIDE DEF T
  <2>1. T \subseteq 0 .. Len(t) /\ Len(t) \in Nat
    BY DEF T
  <2> QED
    BY <1>1, <1>2, <2>1, AllPlaces
<1>4. PICK g : Reads(Len(t), g)
  <2>1. Len(t) \in T
    BY <1>3
  <2> QED
    BY <2>1
<1> QED
  BY <1>4 DEF IsReading

LEMMA AfterIsLast ==
  ASSUME NEW p \in Parsers, NEW t \in Seq(Chars), NEW g, IsReading(g, p, t)
  PROVE  After(p, t) = g[Len(t)]
<1> DEFINE Recursive(f) == f = [i \in 0 .. Len(t) |->
             IF i = 0 THEN p ELSE Take[f[i - 1]][t[i]]]
           after == CHOOSE f : Recursive(f)
<1>1. Recursive(g)
  BY DEF IsReading
<1>2. Recursive(after)
  BY <1>1
<1>3. After(p, t) = after[Len(t)]
  BY DEF After
<1>4. DOMAIN after = 0 .. Len(t) /\ after[0] = p
      /\ \A i \in 1 .. Len(t) : after[i] = Take[after[i - 1]][t[i]]
  <2>1. PICK f : f = after
    OBVIOUS
  <2>2. f = [i \in 0 .. Len(t) |-> IF i = 0 THEN p ELSE Take[f[i - 1]][t[i]]]
    <3>1. Recursive(f)
      <4> HIDE DEF after, Recursive
      <4> QED
        BY <1>2, <2>1, Zenon
    <3> HIDE DEF after
    <3> QED
      BY <3>1, Zenon
  <2>3. Len(t) \in Nat
    OBVIOUS
  <2> HIDE DEF after
  <2>4. DOMAIN f = 0 .. Len(t) /\ f[0] = p
    <3>1. 0 \in 0 .. Len(t)
      BY <2>3
    <3>2. DOMAIN f = 0 .. Len(t)
      BY ONLY <2>2
    <3>3. f[0] = IF 0 = 0 THEN p ELSE Take[f[0 - 1]][t[0]]
      BY ONLY <2>2, <3>1
    <3> QED
      BY ONLY <3>2, <3>3
  <2>5. \A i \in 1 .. Len(t) : f[i] = Take[f[i - 1]][t[i]]
    BY <2>2, <2>3
  <2> QED
    BY <2>1, <2>4, <2>5
<1> HIDE DEF after
<1> DEFINE T == {n \in 0 .. Len(t) : after[n] = g[n]}
<1>5. 0 \in T
  BY <1>4 DEF IsReading
<1>6. ASSUME NEW n \in 0 .. Len(t) - 1, n \in T PROVE n + 1 \in T
  <2>1. n + 1 \in 1 .. Len(t) /\ (n + 1) - 1 = n
    OBVIOUS
  <2> QED
    BY <1>4, <1>6, <2>1 DEF IsReading
<1>7. T = 0 .. Len(t)
  <2> HIDE DEF T
  <2>1. T \subseteq 0 .. Len(t) /\ Len(t) \in Nat
    BY DEF T
  <2> QED
    BY <1>5, <1>6, <2>1, AllPlaces
<1> QED
  BY <1>3, <1>7

(* From a place of a text to another the parser goes as if it read the     *)
(* piece between them alone.                                               *)
LEMMA AfterPiece ==
  ASSUME NEW p \in Parsers, NEW t \in Seq(Chars), NEW g, IsReading(g, p, t),
         NEW r \in 0 .. Len(t), NEW k \in r .. Len(t)
  PROVE  After(g[r], SubSeq(t, r + 1, k)) = g[k]
<1> DEFINE piece == SubSeq(t, r + 1, k)
           h == [i \in 0 .. k - r |-> g[r + i]]
<1>1. /\ piece \in Seq(Chars) /\ Len(piece) = k - r
      /\ \A i \in 1 .. k - r : piece[i] = t[r + i]
  <2>1. Len(piece) = k - r
    OBVIOUS
  <2>2. \A i \in 1 .. k - r : piece[i] = t[r + i]
    OBVIOUS
  <2>3. piece \in Seq(Chars)
    <3>1. \A i \in r + 1 .. k : t[i] \in Chars
      OBVIOUS
    <3> QED
      BY <3>1, SubSeqProperties
  <2> QED
    BY <2>1, <2>2, <2>3
<1>2. g[r] \in Parsers /\ h \in [0 .. k - r -> Parsers] /\ h[0] = g[r] /\ h[k - r] = g[k]
  <2>1. g \in [0 .. Len(t) -> Parsers] /\ Len(t) \in Nat
    BY DEF IsReading
  <2>2. \A i \in 0 .. k - r : r + i \in 0 .. Len(t)
    OBVIOUS
  <2>3. r + 0 = r /\ r + (k - r) = k /\ 0 \in 0 .. k - r /\ k - r \in 0 .. k - r
    OBVIOUS
  <2>4. h \in [0 .. k - r -> Parsers]
    BY <2>1, <2>2
  <2> QED
    BY <2>1, <2>3, <2>4
<1>3. \A i \in 1 .. k - r : h[i] = Take[h[i - 1]][t[r + i]]
  <2> SUFFICES ASSUME NEW i \in 1 .. k - r PROVE h[i] = Take[h[i - 1]][t[r + i]]
    OBVIOUS
  <2>1. r + i \in 1 .. Len(t) /\ (r + i) - 1 = r + (i - 1)
    OBVIOUS
  <2>2. g[r + i] = Take[g[r + (i - 1)]][t[r + i]]
    BY <2>1 DEF IsReading
  <2> QED
    BY <2>2
<1> HIDE DEF piece, h
<1>4. IsReading(h, g[r], piece)
  BY <1>1, <1>2, <1>3 DEF IsReading
<1>5. After(g[r], piece) = h[Len(piece)]
  BY <1>1, <1>2, <1>4, AfterIsLast
<1> QED
  BY <1>1, <1>2, <1>5 DEF piece

-----------------------------------------------------------------------------
(* One of these places, or characters of a kind after one of them. *)
From(t, n, places, chars) == \E k \in places : k <= n /\ Within(t, k + 1, n, chars)

(* What the first n characters of a text look like in each state, and      *)
(* where a piece of it may begin.                                          *)
MethodAt(t, n) == n > 0 /\ Within(t, 1, n, TokenChars)
UriBegins(t)   == {k \in Nat : MethodAt(t, k - 1) /\ t[k] = SP}
UriAt(t, n)    == From(t, n, UriBegins(t), Printable \ {SP})
TargetAt(t, n) == UriAt(t, n - 1) /\ t[n] = SP
HAt(t, n)      == TargetAt(t, n - 1) /\ t[n] = "H"
TAt(t, n)      == HAt(t, n - 1) /\ t[n] = "T"
TTAt(t, n)     == TAt(t, n - 1) /\ t[n] = "T"
PAt(t, n)      == TTAt(t, n - 1) /\ t[n] = "P"
SlashAt(t, n)  == PAt(t, n - 1) /\ t[n] = Slash
MajorBegins(t) == {k \in Nat : SlashAt(t, k - 1) /\ t[k] \in DigitChars}
MajorAt(t, n)  == From(t, n, MajorBegins(t), DigitChars)
DotAt(t, n)    == MajorAt(t, n - 1) /\ t[n] = Dot
MinorBegins(t) == {k \in Nat : DotAt(t, k - 1) /\ t[k] \in DigitChars}
MinorAt(t, n)  == From(t, n, MinorBegins(t), DigitChars)
FirstAt(t, n)  == MinorAt(t, n - 1) /\ t[n] = CR

NameBegins(t)      == {k \in Nat : Lines(t, k - 1) /\ t[k] \in TokenChars}
NameAt(t, n)       == From(t, n, NameBegins(t), TokenChars)
ColonAt(t, n)      == NameAt(t, n - 1) /\ t[n] = Colon
HeaderBegins(t)    == {k \in Nat : ColonAt(t, k - 1) /\ t[k] = SP}
HeaderAt(t, n)     == From(t, n, HeaderBegins(t), Printable)
BlankBegins(t)     == {k \in Nat : Lines(t, k - 1) /\ Follows(t, k - 1) /\ t[k] \in Blank}
BlankAt(t, n)      == From(t, n, BlankBegins(t), Blank)
ContinuedBegins(t) == {k \in Nat : BlankAt(t, k - 1) /\ t[k] \in Printable \ Blank}
ContinuedAt(t, n)  == From(t, n, ContinuedBegins(t), Printable)
ValueAt(t, n)      == HeaderAt(t, n) \/ ContinuedAt(t, n)
LineAt(t, n)       == (ValueAt(t, n - 1) \/ BlankAt(t, n - 1)) /\ t[n] = CR
EndAt(t, n)        == Lines(t, n - 1) /\ t[n] = CR

Form(t, n, state) ==
  \/ state = "method_start" /\ n = 0
  \/ state = "method" /\ MethodAt(t, n)
  \/ state = "uri" /\ UriAt(t, n)
  \/ state = "http_version_h" /\ TargetAt(t, n)
  \/ state = "http_version_t_1" /\ HAt(t, n)
  \/ state = "http_version_t_2" /\ TAt(t, n)
  \/ state = "http_version_p" /\ TTAt(t, n)
  \/ state = "http_version_slash" /\ PAt(t, n)
  \/ state = "http_version_major_start" /\ SlashAt(t, n)
  \/ state = "http_version_major" /\ MajorAt(t, n)
  \/ state = "http_version_minor_start" /\ DotAt(t, n)
  \/ state = "http_version_minor" /\ MinorAt(t, n)
  \/ state = "expecting_newline_1" /\ FirstAt(t, n)
  \/ state = "header_line_start" /\ Lines(t, n)
  \/ state = "header_name" /\ NameAt(t, n)
  \/ state = "space_before_header_value" /\ ColonAt(t, n)
  \/ state = "header_value" /\ ValueAt(t, n)
  \/ state = "header_lws" /\ BlankAt(t, n)
  \/ state = "expecting_newline_2" /\ LineAt(t, n)
  \/ state = "expecting_newline_3" /\ EndAt(t, n)
  \/ state = "good" /\ HoldsRequest(t, n)

LEMMA WithinOne ==
  ASSUME NEW t, NEW chars, NEW i \in Int, NEW n \in Int, i <= n + 1
  PROVE  Within(t, i, n + 1, chars) <=> Within(t, i, n, chars) /\ t[n + 1] \in chars
BY DEF Within

LEMMA FromMore ==
  ASSUME NEW t, NEW n \in Nat, NEW places, places \subseteq Nat, NEW chars
  PROVE  From(t, n + 1, places, chars) <=>
           n + 1 \in places \/ (From(t, n, places, chars) /\ t[n + 1] \in chars)
<1>1. ASSUME NEW k \in places, k <= n + 1, Within(t, k + 1, n + 1, chars)
      PROVE  n + 1 \in places \/ (From(t, n, places, chars) /\ t[n + 1] \in chars)
  <2>1. CASE k = n + 1
    BY <2>1
  <2>2. CASE k <= n
    BY <1>1, <2>2, WithinOne DEF From
  <2> QED
    BY <1>1, <2>1, <2>2
<1>2. n + 1 \in places => From(t, n + 1, places, chars)
  BY DEF From, Within
<1>3. ASSUME NEW k \in places, k <= n, Within(t, k + 1, n, chars), t[n + 1] \in chars
      PROVE  From(t, n + 1, places, chars)
  BY <1>3, WithinOne DEF From
<1> QED
  BY <1>1, <1>2, <1>3 DEF From

(* A character more, form by form. *)
LEMMA FormsMore ==
  ASSUME NEW t, NEW n \in Nat
  PROVE  /\ MethodAt(t, n + 1) <=> (n = 0 \/ MethodAt(t, n)) /\ t[n + 1] \in TokenChars
         /\ UriAt(t, n + 1) <=> \/ MethodAt(t, n) /\ t[n + 1] = SP
                                \/ UriAt(t, n) /\ t[n + 1] \in Printable \ {SP}
         /\ TargetAt(t, n + 1) <=> UriAt(t, n) /\ t[n + 1] = SP
         /\ HAt(t, n + 1) <=> TargetAt(t, n) /\ t[n + 1] = "H"
         /\ TAt(t, n + 1) <=> HAt(t, n) /\ t[n + 1] = "T"
         /\ TTAt(t, n + 1) <=> TAt(t, n) /\ t[n + 1] = "T"
         /\ PAt(t, n + 1) <=> TTAt(t, n) /\ t[n + 1] = "P"
         /\ SlashAt(t, n + 1) <=> PAt(t, n) /\ t[n + 1] = Slash
         /\ MajorAt(t, n + 1) <=> (SlashAt(t, n) \/ MajorAt(t, n)) /\ t[n + 1] \in DigitChars
         /\ DotAt(t, n + 1) <=> MajorAt(t, n) /\ t[n + 1] = Dot
         /\ MinorAt(t, n + 1) <=> (DotAt(t, n) \/ MinorAt(t, n)) /\ t[n + 1] \in DigitChars
         /\ FirstAt(t, n + 1) <=> MinorAt(t, n) /\ t[n + 1] = CR
         /\ NameAt(t, n + 1) <=> (Lines(t, n) \/ NameAt(t, n)) /\ t[n + 1] \in TokenChars
         /\ ColonAt(t, n + 1) <=> NameAt(t, n) /\ t[n + 1] = Colon
         /\ HeaderAt(t, n + 1) <=> \/ ColonAt(t, n) /\ t[n + 1] = SP
                                   \/ HeaderAt(t, n) /\ t[n + 1] \in Printable
         /\ BlankAt(t, n + 1) <=>
              ((Lines(t, n) /\ Follows(t, n)) \/ BlankAt(t, n)) /\ t[n + 1] \in Blank
         /\ ContinuedAt(t, n + 1) <=> \/ BlankAt(t, n) /\ t[n + 1] \in Printable \ Blank
                                      \/ ContinuedAt(t, n) /\ t[n + 1] \in Printable
         /\ LineAt(t, n + 1) <=> (ValueAt(t, n) \/ BlankAt(t, n)) /\ t[n + 1] = CR
         /\ EndAt(t, n + 1) <=> Lines(t, n) /\ t[n + 1] = CR
<1>1. (n + 1) - 1 = n /\ n + 1 \in Nat
  OBVIOUS
<1>2. MethodAt(t, n + 1) <=> (n = 0 \/ MethodAt(t, n)) /\ t[n + 1] \in TokenChars
  BY WithinOne DEF MethodAt, Within
<1>3. UriAt(t, n + 1) <=> \/ MethodAt(t, n) /\ t[n + 1] = SP
                          \/ UriAt(t, n) /\ t[n + 1] \in Printable \ {SP}
  <2>1. UriBegins(t) \subseteq Nat
    BY DEF UriBegins
  <2>2. n + 1 \in UriBegins(t) <=> MethodAt(t, n) /\ t[n + 1] = SP
    BY <1>1 DEF UriBegins
  <2> QED
    BY <2>1, <2>2, FromMore DEF UriAt
<1>4. MajorAt(t, n + 1) <=> (SlashAt(t, n) \/ MajorAt(t, n)) /\ t[n + 1] \in DigitChars
  <2>1. MajorBegins(t) \subseteq Nat
    BY DEF MajorBegins
  <2>2. n + 1 \in MajorBegins(t) <=> SlashAt(t, n) /\ t[n + 1] \in DigitChars
    BY <1>1 DEF MajorBegins
  <2> QED
    BY <2>1, <2>2, FromMore DEF MajorAt
<1>5. MinorAt(t, n + 1) <=> (DotAt(t, n) \/ MinorAt(t, n)) /\ t[n + 1] \in DigitChars
  <2>1. MinorBegins(t) \subseteq Nat
    BY DEF MinorBegins
  <2>2. n + 1 \in MinorBegins(t) <=> DotAt(t, n) /\ t[n + 1] \in DigitChars
    BY <1>1 DEF MinorBegins
  <2> QED
    BY <2>1, <2>2, FromMore DEF MinorAt
<1>6. NameAt(t, n + 1) <=> (Lines(t, n) \/ NameAt(t, n)) /\ t[n + 1] \in TokenChars
  <2>1. NameBegins(t) \subseteq Nat
    BY DEF NameBegins
  <2>2. n + 1 \in NameBegins(t) <=> Lines(t, n) /\ t[n + 1] \in TokenChars
    BY <1>1 DEF NameBegins
  <2> QED
    BY <2>1, <2>2, FromMore DEF NameAt
<1>7. HeaderAt(t, n + 1) <=> \/ ColonAt(t, n) /\ t[n + 1] = SP
                             \/ HeaderAt(t, n) /\ t[n + 1] \in Printable
  <2>1. HeaderBegins(t) \subseteq Nat
    BY DEF HeaderBegins
  <2>2. n + 1 \in HeaderBegins(t) <=> ColonAt(t, n) /\ t[n + 1] = SP
    BY <1>1 DEF HeaderBegins
  <2> QED
    BY <2>1, <2>2, FromMore DEF HeaderAt
<1>8. BlankAt(t, n + 1) <=>
        ((Lines(t, n) /\ Follows(t, n)) \/ BlankAt(t, n)) /\ t[n + 1] \in Blank
  <2>1. BlankBegins(t) \subseteq Nat
    BY DEF BlankBegins
  <2>2. n + 1 \in BlankBegins(t) <=> Lines(t, n) /\ Follows(t, n) /\ t[n + 1] \in Blank
    BY <1>1 DEF BlankBegins
  <2> QED
    BY <2>1, <2>2, FromMore DEF BlankAt
<1>9. ContinuedAt(t, n + 1) <=> \/ BlankAt(t, n) /\ t[n + 1] \in Printable \ Blank
                                \/ ContinuedAt(t, n) /\ t[n + 1] \in Printable
  <2>1. ContinuedBegins(t) \subseteq Nat
    BY DEF ContinuedBegins
  <2>2. n + 1 \in ContinuedBegins(t) <=> BlankAt(t, n) /\ t[n + 1] \in Printable \ Blank
    BY <1>1 DEF ContinuedBegins
  <2> QED
    BY <2>1, <2>2, FromMore DEF ContinuedAt
<1>10. /\ TargetAt(t, n + 1) <=> UriAt(t, n) /\ t[n + 1] = SP
       /\ HAt(t, n + 1) <=> TargetAt(t, n) /\ t[n + 1] = "H"
       /\ TAt(t, n + 1) <=> HAt(t, n) /\ t[n + 1] = "T"
       /\ TTAt(t, n + 1) <=> TAt(t, n) /\ t[n + 1] = "T"
       /\ PAt(t, n + 1) <=> TTAt(t, n) /\ t[n + 1] = "P"
       /\ SlashAt(t, n + 1) <=> PAt(t, n) /\ t[n + 1] = Slash
       /\ DotAt(t, n + 1) <=> MajorAt(t, n) /\ t[n + 1] = Dot
       /\ FirstAt(t, n + 1) <=> MinorAt(t, n) /\ t[n + 1] = CR
       /\ ColonAt(t, n + 1) <=> NameAt(t, n) /\ t[n + 1] = Colon
       /\ LineAt(t, n + 1) <=> (ValueAt(t, n) \/ BlankAt(t, n)) /\ t[n + 1] = CR
       /\ EndAt(t, n + 1) <=> Lines(t, n) /\ t[n + 1] = CR
  <2>1. TargetAt(t, n + 1) <=> UriAt(t, n) /\ t[n + 1] = SP
    BY <1>1 DEF TargetAt
  <2>2. HAt(t, n + 1) <=> TargetAt(t, n) /\ t[n + 1] = "H"
    BY <1>1 DEF HAt
  <2>3. TAt(t, n + 1) <=> HAt(t, n) /\ t[n + 1] = "T"
    BY <1>1 DEF TAt
  <2>4. TTAt(t, n + 1) <=> TAt(t, n) /\ t[n + 1] = "T"
    BY <1>1 DEF TTAt
  <2>5. PAt(t, n + 1) <=> TTAt(t, n) /\ t[n + 1] = "P"
    BY <1>1 DEF PAt
  <2>6. SlashAt(t, n + 1) <=> PAt(t, n) /\ t[n + 1] = Slash
    BY <1>1 DEF SlashAt
  <2>7. DotAt(t, n + 1) <=> MajorAt(t, n) /\ t[n + 1] = Dot
    BY <1>1 DEF DotAt
  <2> QED
    BY <1>1, <2>1, <2>2, <2>3, <2>4, <2>5, <2>6, <2>7 DEF FirstAt, ColonAt, LineAt, EndAt
<1> QED
  BY <1>2, <1>3, <1>4, <1>5, <1>6, <1>7, <1>8, <1>9, <1>10

(* The forms are those of the grammar. *)
LEMMA RequestLineIs ==
  ASSUME NEW t, NEW m \in Nat
  PROVE  MinorAt(t, m) <=> IsRequestLine(t, m)
<1>1. ASSUME MinorAt(t, m) PROVE IsRequestLine(t, m)
  <2>1. PICK k \in Nat : /\ k <= m /\ DotAt(t, k - 1) /\ t[k] \in DigitChars
                         /\ Within(t, k + 1, m, DigitChars)
    BY <1>1 DEF MinorAt, From, MinorBegins
  <2>2. MajorAt(t, (k - 1) - 1) /\ t[k - 1] = Dot
    BY <2>1 DEF DotAt
  <2>3. PICK j \in Nat : /\ j <= k - 2 /\ SlashAt(t, j - 1) /\ t[j] \in DigitChars
                         /\ Within(t, j + 1, k - 2, DigitChars)
    BY <2>2 DEF MajorAt, From, MajorBegins
  <2>4. PICK b \in Int : b = j - 6
    OBVIOUS
  <2>5. /\ TargetAt(t, b) /\ t[b + 1] = "H" /\ t[b + 2] = "T" /\ t[b + 3] = "T"
        /\ t[b + 4] = "P" /\ t[b + 5] = Slash
    <3>1. PAt(t, b + 4) /\ t[b + 5] = Slash
      BY <2>3, <2>4 DEF SlashAt
    <3>2. TTAt(t, b + 3) /\ t[b + 4] = "P"
      BY <3>1 DEF PAt
    <3>3. TAt(t, b + 2) /\ t[b + 3] = "T"
      BY <3>2 DEF TTAt
    <3>4. HAt(t, b + 1) /\ t[b + 2] = "T"
      BY <3>3 DEF TAt
    <3>5. TargetAt(t, b) /\ t[b + 1] = "H"
      BY <3>4 DEF HAt
    <3> QED
      BY <3>1, <3>2, <3>3, <3>4, <3>5
  <2>6. UriAt(t, b - 1) /\ t[b] = SP
    BY <2>5 DEF TargetAt
  <2>7. PICK a \in Nat : /\ a <= b - 1 /\ MethodAt(t, a - 1) /\ t[a] = SP
                         /\ Within(t, a + 1, b - 1, Printable \ {SP})
    BY <2>6 DEF UriAt, From, UriBegins
  <2>8. a - 1 > 0 /\ Within(t, 1, a - 1, TokenChars)
    BY <2>7 DEF MethodAt
  <2>9. Within(t, b + 6, k - 2, DigitChars) /\ Within(t, k, m, DigitChars)
    BY <2>1, <2>3, <2>4 DEF Within
  <2>10. IsVersion(t, b + 1, m)
    <3>1. /\ t[(b + 1) + 1] = "T" /\ t[(b + 1) + 2] = "T"
          /\ t[(b + 1) + 3] = "P" /\ t[(b + 1) + 4] = Slash
      BY <2>5
    <3>2. k - 1 \in (b + 1) + 6 .. m - 1
      BY <2>1, <2>3, <2>4
    <3>3. Within(t, (b + 1) + 5, (k - 1) - 1, DigitChars) /\ Within(t, (k - 1) + 1, m, DigitChars)
      BY <2>9
    <3> QED
      BY <2>2, <2>5, <3>1, <3>2, <3>3 DEF IsVersion
  <2>11. a \in 2 .. m - 8 /\ b \in 2 .. m - 8 /\ a < b
    BY <2>1, <2>3, <2>4, <2>7, <2>8
  <2> QED
    BY <2>6, <2>7, <2>8, <2>10, <2>11 DEF IsRequestLine
<1>2. ASSUME IsRequestLine(t, m) PROVE MinorAt(t, m)
  <2>1. PICK a \in 2 .. m - 8, b \in 2 .. m - 8 :
          /\ a < b /\ t[a] = SP /\ t[b] = SP
          /\ Within(t, 1, a - 1, TokenChars) /\ Within(t, a + 1, b - 1, Printable \ {SP})
          /\ IsVersion(t, b + 1, m)
    BY <1>2 DEF IsRequestLine
  <2>2. PICK dot \in (b + 1) + 6 .. m - 1 :
          /\ t[dot] = Dot /\ Within(t, (b + 1) + 5, dot - 1, DigitChars)
          /\ Within(t, dot + 1, m, DigitChars)
    BY <2>1 DEF IsVersion
  <2>3. MethodAt(t, a - 1)
    BY <2>1 DEF MethodAt
  <2>4. UriAt(t, b - 1)
    BY <2>1, <2>3 DEF UriAt, From, UriBegins
  <2>5. TargetAt(t, b)
    BY <2>1, <2>4 DEF TargetAt
  <2>6. /\ t[b + 1] = "H" /\ t[b + 2] = "T" /\ t[b + 3] = "T"
        /\ t[b + 4] = "P" /\ t[b + 5] = Slash
    BY <2>1 DEF IsVersion
  <2>7. HAt(t, b + 1)
    BY <2>5, <2>6 DEF HAt
  <2>8. TAt(t, b + 2)
    BY <2>6, <2>7 DEF TAt
  <2>9. TTAt(t, b + 3)
    BY <2>6, <2>8 DEF TTAt
  <2>10. PAt(t, b + 4)
    BY <2>6, <2>9 DEF PAt
  <2>11. SlashAt(t, b + 5)
    BY <2>6, <2>10 DEF SlashAt
  <2>12. b + 6 \in MajorBegins(t)
    <3>1. t[b + 6] \in DigitChars
      BY <2>2 DEF Within
    <3> QED
      BY <2>11, <3>1 DEF MajorBegins
  <2>13. MajorAt(t, dot - 1)
    <3>1. Within(t, (b + 6) + 1, dot - 1, DigitChars)
      BY <2>2 DEF Within
    <3> QED
      BY <2>2, <2>12, <3>1 DEF MajorAt, From
  <2>14. DotAt(t, dot)
    BY <2>2, <2>13 DEF DotAt
  <2>15. dot + 1 \in MinorBegins(t)
    <3>1. t[dot + 1] \in DigitChars
      BY <2>2 DEF Within
    <3> QED
      BY <2>14, <3>1 DEF MinorBegins
  <2>16. Within(t, (dot + 1) + 1, m, DigitChars)
    BY <2>2 DEF Within
  <2> QED
    BY <2>15, <2>16 DEF MinorAt, From
<1> QED
  BY <1>1, <1>2

LEMMA HeaderIs ==
  ASSUME NEW t, NEW m \in Nat
  PROVE  HeaderAt(t, m) <=> \E first \in 2 .. m : Lines(t, first - 1) /\ IsHeader(t, first, m)
<1>1. ASSUME HeaderAt(t, m)
      PROVE  \E first \in 2 .. m : Lines(t, first - 1) /\ IsHeader(t, first, m)
  <2>1. PICK k \in Nat : k <= m /\ ColonAt(t, k - 1) /\ t[k] = SP /\ Within(t, k + 1, m, Printable)
    BY <1>1 DEF HeaderAt, From, HeaderBegins
  <2>2. NameAt(t, (k - 1) - 1) /\ t[k - 1] = Colon
    BY <2>1 DEF ColonAt
  <2>3. PICK f \in Nat : /\ f <= k - 2 /\ Lines(t, f - 1) /\ t[f] \in TokenChars
                         /\ Within(t, f + 1, k - 2, TokenChars)
    BY <2>2 DEF NameAt, From, NameBegins
  <2>4. f - 1 > 0
    BY <2>3 DEF Lines
  <2>5. Within(t, f, (k - 1) - 1, TokenChars)
    BY <2>3 DEF Within
  <2>6. Within(t, (k - 1) + 2, m, Printable) /\ t[(k - 1) + 1] = SP
    BY <2>1 DEF Within
  <2>7. k - 1 \in f + 1 .. m - 1 /\ f \in 2 .. m
    BY <2>1, <2>3, <2>4
  <2>8. IsHeader(t, f, m)
    BY <2>2, <2>5, <2>6, <2>7 DEF IsHeader
  <2> QED
    BY <2>3, <2>7, <2>8
<1>2. ASSUME NEW f \in 2 .. m, Lines(t, f - 1), IsHeader(t, f, m) PROVE HeaderAt(t, m)
  <2>1. PICK colon \in f + 1 .. m - 1 :
          /\ t[colon] = Colon /\ t[colon + 1] = SP
          /\ Within(t, f, colon - 1, TokenChars) /\ Within(t, colon + 2, m, Printable)
    BY <1>2 DEF IsHeader
  <2>2. f \in NameBegins(t)
    <3>1. t[f] \in TokenChars
      BY <2>1 DEF Within
    <3> QED
      BY <1>2, <3>1 DEF NameBegins
  <2>3. Within(t, f + 1, colon - 1, TokenChars)
    BY <2>1 DEF Within
  <2>4. NameAt(t, colon - 1)
    BY <2>1, <2>2, <2>3 DEF NameAt, From
  <2>5. colon + 1 \in HeaderBegins(t)
    BY <2>1, <2>4 DEF ColonAt, HeaderBegins
  <2>6. Within(t, (colon + 1) + 1, m, Printable)
    BY <2>1 DEF Within
  <2> QED
    BY <2>5, <2>6 DEF HeaderAt, From
<1> QED
  BY <1>1, <1>2

(* Blanks to the end of a piece, or to its first other character. *)
LEMMA FirstOther ==
  ASSUME NEW t, NEW chars, NEW first \in Nat, NEW last \in Nat, first <= last, t[first] \in chars
  PROVE  \/ Within(t, first, last, chars)
         \/ \E k \in first + 1 .. last : Within(t, first, k - 1, chars) /\ t[k] \notin chars
<1> DEFINE N == last - first
           T == {n \in 0 .. N : Within(t, first, first + n, chars)}
<1> SUFFICES ASSUME \A k \in first + 1 .. last : Within(t, first, k - 1, chars) => t[k] \in chars
             PROVE  Within(t, first, last, chars)
  OBVIOUS
<1>1. 0 \in T
  BY DEF Within
<1>2. ASSUME NEW n \in 0 .. N - 1, n \in T PROVE n + 1 \in T
  <2>1. first + n + 1 \in first + 1 .. last /\ (first + n + 1) - 1 = first + n
    OBVIOUS
  <2>2. t[first + n + 1] \in chars
    BY <1>2, <2>1
  <2>3. Within(t, first, (first + n) + 1, chars)
    BY <1>2, <2>2, WithinOne
  <2> QED
    BY <2>3
<1>3. T = 0 .. N
  <2> HIDE DEF T
  <2>1. T \subseteq 0 .. N /\ N \in Nat
    BY DEF T
  <2> HIDE DEF N
  <2> QED
    BY <1>1, <1>2, <2>1, AllPlaces
<1>4. N \in T
  BY <1>3
<1> QED
  BY <1>4

LEMMA ContinuationIs ==
  ASSUME NEW t, NEW m \in Nat
  PROVE  BlankAt(t, m) \/ ContinuedAt(t, m)
           <=> \E first \in 2 .. m : /\ Lines(t, first - 1) /\ Follows(t, first - 1)
                                    /\ IsContinuation(t, first, m)
<1>1. ASSUME NEW k \in Nat, BlankAt(t, k)
      PROVE  \E first \in 2 .. k : /\ Lines(t, first - 1) /\ Follows(t, first - 1)
                                  /\ Within(t, first, k, Blank)
  <2>1. PICK f \in Nat : /\ f <= k /\ Lines(t, f - 1) /\ Follows(t, f - 1) /\ t[f] \in Blank
                         /\ Within(t, f + 1, k, Blank)
    BY <1>1 DEF BlankAt, From, BlankBegins
  <2>2. f - 1 > 0
    BY <2>1 DEF Lines
  <2>3. Within(t, f, k, Blank)
    BY <2>1 DEF Within
  <2> QED
    BY <2>1, <2>2, <2>3
<1>2. ASSUME BlankAt(t, m)
      PROVE  \E first \in 2 .. m : /\ Lines(t, first - 1) /\ Follows(t, first - 1)
                                  /\ IsContinuation(t, first, m)
  <2>1. Within(t, m + 1, m, Printable)
    BY DEF Within
  <2> QED
    BY <1>1, <1>2, <2>1 DEF IsContinuation
<1>3. ASSUME ContinuedAt(t, m)
      PROVE  \E first \in 2 .. m : /\ Lines(t, first - 1) /\ Follows(t, first - 1)
                                  /\ IsContinuation(t, first, m)
  <2>1. PICK k \in Nat : /\ k <= m /\ BlankAt(t, k - 1) /\ t[k] \in Printable \ Blank
                         /\ Within(t, k + 1, m, Printable)
    BY <1>3 DEF ContinuedAt, From, ContinuedBegins
  <2>2. k - 1 \in Nat
    BY <2>1 DEF BlankAt, From, BlankBegins
  <2>3. PICK f \in 2 .. k - 1 : /\ Lines(t, f - 1) /\ Follows(t, f - 1)
                                /\ Within(t, f, k - 1, Blank)
    BY <1>1, <2>1, <2>2
  <2>4. Within(t, (k - 1) + 1, m, Printable)
    BY <2>1 DEF Within
  <2> QED
    BY <2>1, <2>3, <2>4 DEF IsContinuation
<1>4. ASSUME NEW f \in 2 .. m, Lines(t, f - 1), Follows(t, f - 1), IsContinuation(t, f, m)
      PROVE  BlankAt(t, m) \/ ContinuedAt(t, m)
  <2>1. PICK n \in f .. m : Within(t, f, n, Blank) /\ Within(t, n + 1, m, Printable)
    BY <1>4 DEF IsContinuation
  <2>2. t[f] \in Blank
    BY <2>1 DEF Within
  <2>3. f \in BlankBegins(t)
    BY <1>4, <2>2 DEF BlankBegins
  <2>4. CASE Within(t, f, m, Blank)
    <3>1. Within(t, f + 1, m, Blank)
      BY <2>4 DEF Within
    <3> QED
      BY <2>3, <3>1 DEF BlankAt, From
  <2>5. ASSUME NEW k \in f + 1 .. m, Within(t, f, k - 1, Blank), t[k] \notin Blank
        PROVE  ContinuedAt(t, m)
    <3>1. Within(t, f + 1, k - 1, Blank)
      BY <2>5 DEF Within
    <3>2. BlankAt(t, k - 1)
      BY <2>3, <3>1 DEF BlankAt, From
    <3>3. k > n
      BY <2>1, <2>5 DEF Within
    <3>4. t[k] \in Printable /\ Within(t, k + 1, m, Printable)
      BY <2>1, <3>3 DEF Within
    <3>5. k \in ContinuedBegins(t)
      BY <2>5, <3>2, <3>4 DEF ContinuedBegins
    <3> QED
      BY <3>4, <3>5 DEF ContinuedAt, From
  <2> QED
    BY <2>2, <2>4, <2>5, FirstOther
<1> QED
  BY <1>2, <1>3, <1>4

(* The line in which a place is. *)
LEMMA LastLine ==
  ASSUME NEW t, NEW n \in Nat
  PROVE  \E first \in 1 .. n + 1 : /\ first = 1 \/ t[first - 1] = LF
                                  /\ \A i \in first .. n : t[i] # LF
<1> DEFINE Begins(m, f) == (f = 1 \/ t[f - 1] = LF) /\ \A i \in f .. m : t[i] # LF
           T == {m \in 0 .. n : \E f \in 1 .. m + 1 : Begins(m, f)}
<1>1. 0 \in T
  <2>1. Begins(0, 1)
    OBVIOUS
  <2> QED
    BY <2>1
<1>2. ASSUME NEW m \in 0 .. n - 1, m \in T PROVE m + 1 \in T
  <2>1. CASE t[m + 1] = LF
    <3>1. Begins(m + 1, m + 2)
      BY <2>1
    <3> QED
      BY <3>1
  <2>2. CASE t[m + 1] # LF
    <3>1. PICK f \in 1 .. m + 1 : Begins(m, f)
      BY <1>2
    <3>2. Begins(m + 1, f)
      BY <2>2, <3>1
    <3> QED
      BY <3>2
  <2> QED
    BY <2>1, <2>2
<1>3. T = 0 .. n
  <2> HIDE DEF T
  <2>1. T \subseteq 0 .. n
    BY DEF T
  <2> QED
    BY <1>1, <1>2, <2>1, AllPlaces
<1>4. n \in T
  BY <1>3
<1> QED
  BY <1>4

(* A line more. *)
LEMMA LinesExtend ==
  ASSUME NEW t, NEW n \in Nat, NEW f \in 1 .. n, t[n] = LF,
         f = 1 \/ t[f - 1] = LF, \A i \in f .. n - 1 : t[i] # LF
  PROVE  Lines(t, n) <=> (f = 1 \/ Lines(t, f - 1)) /\ WellFormed(t, f, n)
<1>1. IsLine(t, f, n)
  BY DEF IsLine
<1>2. ASSUME Lines(t, n) PROVE (f = 1 \/ Lines(t, f - 1)) /\ WellFormed(t, f, n)
  BY <1>1, <1>2 DEF Lines
<1>3. ASSUME f = 1 \/ Lines(t, f - 1), WellFormed(t, f, n) PROVE Lines(t, n)
  <2> SUFFICES ASSUME NEW last \in 1 .. n, NEW first \in 1 .. last, IsLine(t, first, last)
               PROVE  WellFormed(t, first, last)
    BY DEF Lines
  <2>1. CASE last < f
    BY <1>3, <2>1 DEF Lines
  <2>2. CASE last >= f
    <3>1. last = n
      BY <2>2 DEF IsLine
    <3>2. first = f
      BY <3>1 DEF IsLine
    <3> QED
      BY <1>3, <3>1, <3>2
  <2> QED
    BY <2>1, <2>2
<1> QED
  BY <1>2, <1>3

LEMMA NoLineEndWithin ==
  ASSUME NEW t, NEW f \in Nat, NEW n \in Nat, WellFormed(t, f, n)
  PROVE  \A i \in f .. n - 1 : t[i] # LF
<1>1. t[n - 1] = CR
  BY DEF WellFormed
<1>2. /\ \A c \in TokenChars \cup Printable \cup DigitChars \cup Blank : c # LF
      /\ LF \notin {SP, Colon, Slash, Dot, CR, "H", "T", "P"}
  BY CharFacts
<1> SUFFICES ASSUME NEW i \in f .. n - 2 PROVE t[i] # LF
  BY <1>1, <1>2
<1>3. CASE f = 1 /\ IsRequestLine(t, n - 2)
  <2>1. PICK a \in 2 .. (n - 2) - 8, b \in 2 .. (n - 2) - 8 :
          /\ a < b /\ t[a] = SP /\ t[b] = SP
          /\ Within(t, 1, a - 1, TokenChars) /\ Within(t, a + 1, b - 1, Printable \ {SP})
          /\ IsVersion(t, b + 1, n - 2)
    BY <1>3 DEF IsRequestLine
  <2>2. /\ t[b + 1] = "H" /\ t[b + 2] = "T" /\ t[b + 3] = "T"
        /\ t[b + 4] = "P" /\ t[b + 5] = Slash
    BY <2>1 DEF IsVersion
  <2>3. PICK dot \in (b + 1) + 6 .. (n - 2) - 1 :
          /\ t[dot] = Dot /\ Within(t, (b + 1) + 5, dot - 1, DigitChars)
          /\ Within(t, dot + 1, n - 2, DigitChars)
    BY <2>1 DEF IsVersion
  <2>4. CASE i <= b
    BY <1>2, <1>3, <2>1, <2>4 DEF Within
  <2>5. CASE i \in b + 1 .. b + 5
    BY <1>2, <2>2, <2>5
  <2>6. CASE i > b + 5
    BY <1>2, <2>3, <2>6 DEF Within
  <2> QED
    BY <2>4, <2>5, <2>6
<1>4. CASE IsHeader(t, f, n - 2)
  BY <1>2, <1>4 DEF IsHeader, Within
<1>5. CASE IsContinuation(t, f, n - 2)
  BY <1>2, <1>5 DEF IsContinuation, Within
<1> QED
  BY <1>3, <1>4, <1>5 DEF WellFormed

(* The characters before a line end make a line that is well formed. *)
LEMMA FirstWellFormed ==
  ASSUME NEW t, NEW n \in Nat, FirstAt(t, n)
  PROVE  n > 0 /\ WellFormed(t, 1, n + 1)
<1>1. MinorAt(t, n - 1) /\ t[n] = CR
  BY DEF FirstAt
<1>2. n - 1 \in Nat
  BY <1>1 DEF MinorAt, From, MinorBegins
<1>3. IsRequestLine(t, n - 1)
  BY <1>1, <1>2, RequestLineIs
<1>4. (n + 1) - 1 = n /\ (n + 1) - 2 = n - 1
  OBVIOUS
<1> QED
  BY <1>1, <1>2, <1>3, <1>4 DEF WellFormed

LEMMA LineWellFormed ==
  ASSUME NEW t, NEW n \in Nat, LineAt(t, n)
  PROVE  \E f \in 2 .. n : Lines(t, f - 1) /\ WellFormed(t, f, n + 1)
<1>1. (HeaderAt(t, n - 1) \/ ContinuedAt(t, n - 1) \/ BlankAt(t, n - 1)) /\ t[n] = CR
  BY DEF LineAt, ValueAt
<1>2. n - 1 \in Nat
  BY <1>1 DEF HeaderAt, ContinuedAt, BlankAt, From, HeaderBegins, ContinuedBegins, BlankBegins
<1>3. PICK f \in 2 .. n - 1 :
        /\ Lines(t, f - 1)
        /\ IsHeader(t, f, n - 1) \/ (Follows(t, f - 1) /\ IsContinuation(t, f, n - 1))
  BY <1>1, <1>2, HeaderIs, ContinuationIs
<1>4. (n + 1) - 1 = n /\ (n + 1) - 2 = n - 1
  OBVIOUS
<1> QED
  BY <1>1, <1>2, <1>3, <1>4 DEF WellFormed

LEMMA LinesMore ==
  ASSUME NEW t, NEW n \in Nat
  PROVE  Lines(t, n + 1) <=> (FirstAt(t, n) \/ LineAt(t, n)) /\ t[n + 1] = LF
<1>1. ASSUME Lines(t, n + 1) PROVE (FirstAt(t, n) \/ LineAt(t, n)) /\ t[n + 1] = LF
  <2>1. t[n + 1] = LF
    BY <1>1 DEF Lines
  <2>2. PICK f \in 1 .. n + 1 : (f = 1 \/ t[f - 1] = LF) /\ \A i \in f .. n : t[i] # LF
    BY LastLine
  <2>3. (f = 1 \/ Lines(t, f - 1)) /\ WellFormed(t, f, n + 1)
    BY <1>1, <2>1, <2>2, LinesExtend
  <2>4. n + 1 > f /\ t[n] = CR
    BY <2>3 DEF WellFormed
  <2>5. n - 1 \in Nat /\ (n + 1) - 2 = n - 1
    BY <2>4
  <2>6. CASE f = 1 /\ IsRequestLine(t, n - 1)
    BY <2>1, <2>4, <2>5, <2>6, RequestLineIs DEF FirstAt
  <2>7. CASE f > 1 /\ IsHeader(t, f, n - 1)
    <3>1. f \in 2 .. n - 1
      BY <2>5, <2>7 DEF IsHeader
    <3>2. HeaderAt(t, n - 1)
      BY <2>3, <2>5, <2>7, <3>1, HeaderIs
    <3> QED
      BY <2>1, <2>4, <3>2 DEF LineAt, ValueAt
  <2>8. CASE f > 1 /\ Follows(t, f - 1) /\ IsContinuation(t, f, n - 1)
    <3>1. f \in 2 .. n - 1
      BY <2>5, <2>8 DEF IsContinuation
    <3>2. BlankAt(t, n - 1) \/ ContinuedAt(t, n - 1)
      BY <2>3, <2>5, <2>8, <3>1, ContinuationIs
    <3> QED
      BY <2>1, <2>4, <3>2 DEF LineAt, ValueAt
  <2> QED
    BY <2>3, <2>5, <2>6, <2>7, <2>8 DEF WellFormed
<1>2. ASSUME NEW f \in 1 .. n, f = 1 \/ Lines(t, f - 1), t[n + 1] = LF,
             WellFormed(t, f, n + 1)
      PROVE  Lines(t, n + 1)
  <2>1. f = 1 \/ t[f - 1] = LF
    BY <1>2 DEF Lines
  <2>2. \A i \in f .. (n + 1) - 1 : t[i] # LF
    BY <1>2, NoLineEndWithin
  <2> QED
    BY <1>2, <2>1, <2>2, LinesExtend
<1>3. ASSUME FirstAt(t, n), t[n + 1] = LF PROVE Lines(t, n + 1)
  BY <1>2, <1>3, FirstWellFormed
<1>4. ASSUME LineAt(t, n), t[n + 1] = LF PROVE Lines(t, n + 1)
  BY <1>2, <1>4, LineWellFormed
<1> QED
  BY <1>1, <1>3, <1>4

LEMMA GoodMore ==
  ASSUME NEW t, NEW n \in Nat
  PROVE  HoldsRequest(t, n + 1) <=> HoldsRequest(t, n) \/ (EndAt(t, n) /\ t[n + 1] = LF)
<1>1. IsRequest(t, n + 1) <=> EndAt(t, n) /\ t[n + 1] = LF
  <2>1. (n + 1) - 1 = n /\ (n + 1) - 2 = n - 1
    OBVIOUS
  <2>2. Lines(t, n - 1) => n + 1 > 2
    BY DEF Lines
  <2> QED
    BY <2>1, <2>2 DEF IsRequest, EndAt
<1>2. HoldsRequest(t, n + 1) <=> HoldsRequest(t, n) \/ IsRequest(t, n + 1)
  BY DEF HoldsRequest
<1> QED
  BY <1>1, <1>2

(* Before the first character there is nothing but the beginning. *)
LEMMA FormsOfNothing ==
  ASSUME NEW t, NEW s
  PROVE  Form(t, 0, s) <=> s = "method_start"
<1>1. ASSUME NEW n \in Int
      PROVE  /\ MethodAt(t, n) => n > 0
             /\ UriAt(t, n) => n > 0
             /\ Lines(t, n) => n > 0
  BY DEF MethodAt, UriAt, From, UriBegins, Lines
<1>2. ASSUME NEW n \in Int PROVE SlashAt(t, n) => n > 5
  <2>1. PAt(t, n - 1) => TargetAt(t, n - 5)
    BY DEF PAt, TTAt, TAt, HAt
  <2>2. TargetAt(t, n - 5) => n > 6
    BY <1>1 DEF TargetAt
  <2> QED
    BY <2>1, <2>2 DEF SlashAt
<1>3. ASSUME NEW n \in Int PROVE MajorAt(t, n) => n > 0
  BY <1>2 DEF MajorAt, From, MajorBegins
<1>4. ASSUME NEW n \in Int PROVE MinorAt(t, n) => n > 0
  BY <1>3 DEF MinorAt, From, MinorBegins, DotAt
<1>5. ASSUME NEW n \in Int PROVE NameAt(t, n) => n > 0
  BY <1>1 DEF NameAt, From, NameBegins
<1>6. ASSUME NEW n \in Int PROVE HeaderAt(t, n) => n > 0
  BY <1>5 DEF HeaderAt, From, HeaderBegins, ColonAt
<1>7. ASSUME NEW n \in Int PROVE BlankAt(t, n) => n > 0
  BY <1>1 DEF BlankAt, From, BlankBegins
<1>8. ASSUME NEW n \in Int PROVE ContinuedAt(t, n) => n > 0
  BY <1>7 DEF ContinuedAt, From, ContinuedBegins
<1>9. /\ ~MethodAt(t, 0) /\ ~UriAt(t, 0) /\ ~MajorAt(t, 0) /\ ~MinorAt(t, 0) /\ ~Lines(t, 0)
      /\ ~NameAt(t, 0) /\ ~ValueAt(t, 0) /\ ~BlankAt(t, 0) /\ ~SlashAt(t, 0)
  BY <1>1, <1>2, <1>3, <1>4, <1>5, <1>6, <1>7, <1>8 DEF ValueAt
<1>10. /\ ~UriAt(t, -1) /\ ~MajorAt(t, -1) /\ ~MinorAt(t, -1) /\ ~Lines(t, -1)
       /\ ~NameAt(t, -1) /\ ~ValueAt(t, -1) /\ ~BlankAt(t, -1)
  BY <1>1, <1>3, <1>4, <1>5, <1>6, <1>7, <1>8 DEF ValueAt
<1>11. 0 - 1 = -1
  OBVIOUS
<1>12. /\ ~TargetAt(t, 0) /\ ~DotAt(t, 0) /\ ~FirstAt(t, 0)
       /\ ~ColonAt(t, 0) /\ ~LineAt(t, 0) /\ ~EndAt(t, 0)
  BY <1>10, <1>11 DEF TargetAt, DotAt, FirstAt, ColonAt, LineAt, EndAt
<1>13. \A n \in Int : TargetAt(t, n) => n > 0
  BY <1>1 DEF TargetAt
<1>14. ~HAt(t, 0) /\ ~TAt(t, 0) /\ ~TTAt(t, 0) /\ ~PAt(t, 0)
  BY <1>13 DEF HAt, TAt, TTAt, PAt
<1>15. ~HoldsRequest(t, 0)
  BY DEF HoldsRequest
<1> QED
  BY <1>9, <1>12, <1>14, <1>15 DEF Form

(* A move leads from form to form, and every form is where a move led from *)
(* another.                                                                *)
LEMMA MoveForward ==
  ASSUME NEW t, NEW n \in Nat, NEW s, NEW s2, Form(t, n, s), Move(s, Follows(t, n), t[n + 1], s2)
  PROVE  Form(t, n + 1, s2)
BY FormsMore, LinesMore, GoodMore DEF Form, Move, ValueAt

LEMMA MoveBack ==
  ASSUME NEW t, NEW n \in Nat, NEW s2, Form(t, n + 1, s2)
  PROVE  \/ s2 = "good" /\ HoldsRequest(t, n)
         \/ \E s : Form(t, n, s) /\ Move(s, Follows(t, n), t[n + 1], s2)
<1> DEFINE Led == \/ s2 = "good" /\ HoldsRequest(t, n)
                  \/ \E s : Form(t, n, s) /\ Move(s, Follows(t, n), t[n + 1], s2)
<1> SUFFICES Led
  OBVIOUS
<1> USE DEF Form, Move
<1>1. CASE s2 = "method" /\ MethodAt(t, n + 1)
  BY <1>1, FormsMore
<1>2. CASE s2 = "uri" /\ UriAt(t, n + 1)
  BY <1>2, FormsMore
<1>3. CASE s2 = "http_version_h" /\ TargetAt(t, n + 1)
  BY <1>3, FormsMore
<1>4. CASE s2 = "http_version_t_1" /\ HAt(t, n + 1)
  BY <1>4, FormsMore
<1>5. CASE s2 = "http_version_t_2" /\ TAt(t, n + 1)
  BY <1>5, FormsMore
<1>6. CASE s2 = "http_version_p" /\ TTAt(t, n + 1)
  BY <1>6, FormsMore
<1>7. CASE s2 = "http_version_slash" /\ PAt(t, n + 1)
  BY <1>7, FormsMore
<1>8. CASE s2 = "http_version_major_start" /\ SlashAt(t, n + 1)
  BY <1>8, FormsMore
<1>9. CASE s2 = "http_version_major" /\ MajorAt(t, n + 1)
  BY <1>9, FormsMore
<1>10. CASE s2 = "http_version_minor_start" /\ DotAt(t, n + 1)
  BY <1>10, FormsMore
<1>11. CASE s2 = "http_version_minor" /\ MinorAt(t, n + 1)
  BY <1>11, FormsMore
<1>12. CASE s2 = "expecting_newline_1" /\ FirstAt(t, n + 1)
  BY <1>12, FormsMore
<1>13. CASE s2 = "header_line_start" /\ Lines(t, n + 1)
  BY <1>13, LinesMore
<1>14. CASE s2 = "header_name" /\ NameAt(t, n + 1)
  BY <1>14, FormsMore
<1>15. CASE s2 = "space_before_header_value" /\ ColonAt(t, n + 1)
  BY <1>15, FormsMore
<1>16. CASE s2 = "header_value" /\ ValueAt(t, n + 1)
  <2>1. HeaderAt(t, n + 1) \/ ContinuedAt(t, n + 1)
    BY <1>16 DEF ValueAt
  <2>2. \/ ColonAt(t, n) /\ t[n + 1] = SP
        \/ ValueAt(t, n) /\ t[n + 1] \in Printable
        \/ BlankAt(t, n) /\ t[n + 1] \in Printable \ Blank
    BY ONLY <2>1, n \in Nat, FormsMore DEF ValueAt
  <2> QED
    BY <1>16, <2>2
<1>17. CASE s2 = "header_lws" /\ BlankAt(t, n + 1)
  BY <1>17, FormsMore
<1>18. CASE s2 = "expecting_newline_2" /\ LineAt(t, n + 1)
  BY <1>18, FormsMore
<1>19. CASE s2 = "expecting_newline_3" /\ EndAt(t, n + 1)
  BY <1>19, FormsMore
<1>20. CASE s2 = "good" /\ HoldsRequest(t, n + 1)
  BY <1>20, GoodMore
<1>21. n + 1 # 0
  OBVIOUS
<1> HIDE DEF Led, Move
<1> QED
  BY <1>1, <1>2, <1>3, <1>4, <1>5, <1>6, <1>7, <1>8, <1>9, <1>10, <1>11,
     <1>12, <1>13, <1>14, <1>15, <1>16, <1>17, <1>18, <1>19, <1>20, <1>21

(* What the parser is after n characters. *)
Agrees(t, n, p) ==
  /\ p \in Parsers
  /\ p.state # "bad" => Form(t, n, p.state)
  /\ \A s : Form(t, n, s) => p.state = s
  /\ p.state \in {"method_start", "method", "uri", "http_version_h", "http_version_t_1",
                  "http_version_t_2", "http_version_p", "http_version_slash",
                  "http_version_major_start", "http_version_major", "http_version_minor_start",
                  "http_version_minor", "expecting_newline_1"} => ~p.headers
  /\ p.state \in {"header_name", "space_before_header_value", "header_value", "header_lws",
                  "expecting_newline_2"} => p.headers
  /\ p.state = "header_line_start" => (p.headers <=> Follows(t, n))

LEMMA NewAgrees ==
  ASSUME NEW t
  PROVE  Agrees(t, 0, NewParser)
BY FormsOfNothing, StatesAre DEF Agrees, NewParser, Parsers

LEMMA TakeAgrees ==
  ASSUME NEW t, NEW n \in Nat, t[n + 1] \in Chars, NEW p, Agrees(t, n, p)
  PROVE  Agrees(t, n + 1, Take[p][t[n + 1]])
<1>1. PICK c, q : c = t[n + 1] /\ q = Take[p][c]
  OBVIOUS
<1>2. p \in Parsers /\ c \in Chars
  BY <1>1 DEF Agrees
<1>3. /\ q \in Parsers
      /\ Decided(p) => q = p
      /\ ~Decided(p) => /\ q.headers <=> p.headers \/ q.state = "header_name"
                        /\ \A s : Goes(p, c, s) => q.state = s
                        /\ q.state # "bad" => Goes(p, c, q.state)
  BY <1>1, <1>2, TakeIs
<1>4. \A s : Move(p.state, p.headers, c, s) <=> Move(p.state, Follows(t, n), c, s)
  BY DEF Agrees, Move
<1>5. ASSUME q.state # "bad" PROVE Form(t, n + 1, q.state)
  <2>1. CASE p.state = "good"
    <3>1. HoldsRequest(t, n)
      BY <2>1 DEF Agrees, Form
    <3>2. HoldsRequest(t, n + 1)
      BY <3>1, GoodMore
    <3> QED
      BY <1>3, <2>1, <3>2 DEF Form, Decided
  <2>2. CASE p.state = "bad"
    BY <1>3, <1>5, <2>2 DEF Decided
  <2>3. CASE ~Decided(p)
    <3>1. Move(p.state, Follows(t, n), c, q.state)
      BY <1>3, <1>4, <1>5, <2>3, GoesIsMove
    <3>2. Form(t, n, p.state)
      BY <2>3 DEF Agrees, Decided
    <3> QED
      BY <1>1, <3>1, <3>2, MoveForward
  <2> QED
    BY <2>1, <2>2, <2>3 DEF Decided
<1>6. ASSUME NEW s, Form(t, n + 1, s) PROVE q.state = s
  <2>1. CASE s = "good" /\ HoldsRequest(t, n)
    <3>1. p.state = "good"
      BY <2>1 DEF Agrees, Form
    <3> QED
      BY <1>3, <2>1, <3>1 DEF Decided
  <2>2. ASSUME NEW s1, Form(t, n, s1), Move(s1, Follows(t, n), c, s) PROVE q.state = s
    <3>1. p.state = s1
      BY <2>2 DEF Agrees
    <3>2. Goes(p, c, s)
      BY <1>4, <2>2, <3>1, GoesIsMove
    <3>3. ~Decided(p)
      BY <2>2, <3>1 DEF Move, Decided
    <3> QED
      BY <1>3, <3>2, <3>3
  <2> QED
    BY <1>1, <1>6, <2>1, <2>2, MoveBack
<1>7. CASE Decided(p)
  <2>1. q.state \in {"good", "bad"}
    BY <1>3, <1>7 DEF Decided
  <2> QED
    BY <1>1, <1>3, <1>5, <1>6, <2>1 DEF Agrees
<1>8. CASE ~Decided(p) /\ q.state = "bad"
  BY <1>1, <1>3, <1>5, <1>6, <1>8 DEF Agrees
<1>9. CASE ~Decided(p) /\ q.state # "bad"
  <2>1. Move(p.state, p.headers, c, q.state)
    BY <1>3, <1>9, GoesIsMove
  <2>2. q.headers <=> p.headers \/ q.state = "header_name"
    BY <1>3, <1>9
  <2>3. Form(t, n, p.state)
    BY <1>9 DEF Agrees, Decided
  <2>4. ASSUME q.state = "header_line_start" PROVE q.headers <=> Follows(t, n + 1)
    <3>1. CASE p.state = "expecting_newline_1"
      <4>1. FirstAt(t, n)
        BY <2>3, <3>1 DEF Form
      <4>2. \A i \in 1 .. n : t[i] # LF
        BY <4>1, FirstWellFormed, NoLineEndWithin
      <4>3. ~Follows(t, n + 1)
        BY <4>2 DEF Follows
      <4> QED
        BY <2>2, <2>4, <3>1, <4>3 DEF Agrees
    <3>2. CASE p.state = "expecting_newline_2"
      <4>1. LineAt(t, n)
        BY <2>3, <3>2 DEF Form
      <4>2. PICK f \in 2 .. n : Lines(t, f - 1)
        BY <4>1, LineWellFormed
      <4>3. Follows(t, n + 1)
        BY <4>2 DEF Follows, Lines
      <4> QED
        BY <2>2, <2>4, <3>2, <4>3 DEF Agrees
    <3> QED
      BY <2>1, <2>4, <3>1, <3>2 DEF Move
  <2> QED
    BY <1>1, <1>3, <1>5, <1>6, <2>1, <2>2, <2>4 DEF Agrees, Move
<1> QED
  BY <1>7, <1>8, <1>9

(* Through a whole text. *)
LEMMA ReadingAgrees ==
  ASSUME NEW t \in Seq(Chars), NEW g, IsReading(g, NewParser, t), NEW n \in 0 .. Len(t)
  PROVE  Agrees(t, n, g[n])
<1> DEFINE T == {i \in 0 .. Len(t) : Agrees(t, i, g[i])}
<1>1. 0 \in T
  BY NewAgrees DEF IsReading
<1>2. ASSUME NEW i \in 0 .. Len(t) - 1, i \in T PROVE i + 1 \in T
  <2>1. i + 1 \in 1 .. Len(t) /\ (i + 1) - 1 = i
    OBVIOUS
  <2>2. t[i + 1] \in Chars
    BY <2>1
  <2>3. g[i + 1] = Take[g[i]][t[i + 1]]
    BY <2>1 DEF IsReading
  <2> QED
    BY <1>2, <2>1, <2>2, <2>3, TakeAgrees
<1>3. T = 0 .. Len(t)
  <2> HIDE DEF T
  <2>1. T \subseteq 0 .. Len(t) /\ Len(t) \in Nat
    BY DEF T
  <2> QED
    BY <1>1, <1>2, <2>1, AllPlaces
<1> QED
  BY <1>3

(* The parser is good when a beginning of what it has read is a request,   *)
(* and bad only when nothing that could follow makes it one.               *)
LEMMA ReadingIsGrammar ==
  ASSUME NEW t \in Seq(Chars), NEW g, IsReading(g, NewParser, t), NEW n \in 0 .. Len(t)
  PROVE  /\ g[n].state = "good" <=> HoldsRequest(t, n)
         /\ g[n].state = "bad" => ~HoldsRequest(t, Len(t))
<1>1. \A i \in 0 .. Len(t) : g[i].state = "good" <=> HoldsRequest(t, i)
  BY ReadingAgrees DEF Agrees, Form
<1>2. ASSUME g[n].state = "bad" PROVE g[Len(t)].state = "bad"
  <2> DEFINE T == {i \in 0 .. Len(t) : i >= n => g[i].state = "bad"}
  <2>1. 0 \in T
    BY <1>2
  <2>2. ASSUME NEW i \in 0 .. Len(t) - 1, i \in T PROVE i + 1 \in T
    <3>1. CASE i >= n
      <4>1. i + 1 \in 1 .. Len(t) /\ (i + 1) - 1 = i
        OBVIOUS
      <4>2. g[i + 1] = Take[g[i]][t[i + 1]] /\ g[i] \in Parsers /\ t[i + 1] \in Chars
        BY <4>1 DEF IsReading
      <4>3. g[i].state = "bad"
        BY <2>2, <3>1
      <4> QED
        BY <4>1, <4>2, <4>3, TakeIs DEF Decided
    <3>2. CASE i + 1 = n
      BY <1>2, <3>2
    <3>3. CASE i + 1 < n
      BY <3>3
    <3> QED
      BY <3>1, <3>2, <3>3
  <2>3. T = 0 .. Len(t)
    <3> HIDE DEF T
    <3>1. T \subseteq 0 .. Len(t) /\ Len(t) \in Nat
      BY DEF T
    <3> QED
      BY <2>1, <2>2, <3>1, AllPlaces
  <2>4. Len(t) \in T
    BY <2>3
  <2> QED
    BY <2>4
<1> QED
  BY <1>1, <1>2

-----------------------------------------------------------------------------
(***************************************************************************)
(* What the connections have read                                          *)
(***************************************************************************)

(* A parser is where it would be if the text had come in one piece.        *)
Uncut == \A c \in Connections : parser[c] = After(NewParser, SubSeq(text[c], 1, received[c]))

Reading ==
  /\ text \in Sendings
  /\ buffer \in [Connections -> Nat]
  /\ received \in [Connections -> Nat]
  /\ \A c \in Connections : buffer[c] + received[c] <= Len(text[c])
  /\ parser \in [Connections -> Parsers]
  /\ Uncut

LEMMA ReadOn ==
  ASSUME NEW t \in Seq(Chars), NEW r \in Nat, NEW b \in Nat, r + b <= Len(t)
  PROVE  LET p == After(NewParser, SubSeq(t, 1, r))
             q == parse(p, SubSeq(t, r + 1, r + b))
         IN q = After(NewParser, SubSeq(t, 1, r + b)) /\ q \in Parsers
<1>1. NewParser \in Parsers
  BY StatesAre DEF NewParser, Parsers
<1>2. PICK g : IsReading(g, NewParser, t)
  BY <1>1, ReadingExists
<1>3. 0 \in 0 .. Len(t) /\ r \in 0 .. Len(t) /\ r + b \in 0 .. Len(t) /\ r + b \in r .. Len(t)
  OBVIOUS
<1>4. g[0] = NewParser /\ g[r + b] \in Parsers
  BY <1>2, <1>3 DEF IsReading
<1>5. ASSUME NEW k \in 0 .. Len(t) PROVE After(NewParser, SubSeq(t, 1, k)) = g[k]
  <2>1. After(g[0], SubSeq(t, 0 + 1, k)) = g[k]
    BY <1>1, <1>2, <1>3, AfterPiece
  <2> QED
    BY <1>4, <2>1
<1>6. After(g[r], SubSeq(t, r + 1, r + b)) = g[r + b]
  BY <1>1, <1>2, <1>3, AfterPiece
<1> QED
  BY <1>3, <1>4, <1>5, <1>6 DEF parse

LEMMA ReadingHolds == Spec => []Reading
<1>1. Init => Reading
  <2> SUFFICES ASSUME Init PROVE Reading
    OBVIOUS
  <2>1. \A c \in Connections : text[c] \in Seq(Chars)
    BY ClientsAssumption DEF Init
  <2>2. NewParser \in Parsers
    BY StatesAre DEF NewParser, Parsers
  <2>3. ASSUME NEW c \in Connections PROVE NewParser = After(NewParser, SubSeq(text[c], 1, 0))
    <3>1. PICK g : IsReading(g, NewParser, text[c])
      BY <2>1, <2>2, ReadingExists
    <3>2. 0 \in 0 .. Len(text[c]) /\ g[0] = NewParser
      BY <2>1, <3>1 DEF IsReading
    <3>3. After(g[0], SubSeq(text[c], 0 + 1, 0)) = g[0]
      BY <2>1, <2>2, <3>1, <3>2, AfterPiece
    <3> QED
      BY <3>2, <3>3
  <2> QED
    BY <2>1, <2>2, <2>3 DEF Init, Reading, Uncut
<1>2. Reading /\ [Next]_vars => Reading'
  <2> SUFFICES ASSUME Reading, [Next]_vars PROVE Reading'
    OBVIOUS
  <2>1. \A c \in Connections : text[c] \in Seq(Chars)
    BY ClientsAssumption DEF Reading
  <2>2. ASSUME NEW c \in Connections, OnRead(c), result[c] = "ok" PROVE Reading'
    <3>1. PICK r \in Nat, b \in Nat, p \in Parsers :
            r = received[c] /\ b = buffer[c] /\ p = parser[c]
      BY DEF Reading
    <3>2. PICK q : q = parse(p, SubSeq(text[c], r + 1, r + b))
      OBVIOUS
    <3>3. /\ parser' = [parser EXCEPT ![c] = q]
          /\ received' = [received EXCEPT ![c] = r + b]
          /\ buffer' = [buffer EXCEPT ![c] = 0]
          /\ text' = text
      BY <2>2, <3>1, <3>2 DEF OnRead, clientVars, Reading
    <3>4. p = After(NewParser, SubSeq(text[c], 1, r)) /\ r + b <= Len(text[c])
      BY <3>1 DEF Reading, Uncut
    <3>5. q = After(NewParser, SubSeq(text[c], 1, r + b)) /\ q \in Parsers
      BY <2>1, <3>2, <3>4, ReadOn
    <3> QED
      BY <3>3, <3>4, <3>5 DEF Reading, Uncut
  <2>3. ASSUME NEW c \in Connections, OnRead(c), result[c] # "ok" PROVE Reading'
    BY <2>3 DEF OnRead, clientVars, Reading, Uncut
  <2>4. ASSUME NEW c \in Connections, NEW n \in PieceSizes, ReadFinishes(c, n)
        PROVE  Reading'
    <3>1. n \in Nat
      BY ClientsAssumption
    <3>2. /\ buffer' = [buffer EXCEPT ![c] = n] /\ received[c] + n <= Len(text[c])
          /\ UNCHANGED <<text, received, parser>>
      BY <2>4 DEF ReadFinishes, clientVars
    <3> QED
      BY <3>1, <3>2 DEF Reading, Uncut
  <2>5. CASE UNCHANGED <<text, buffer, received, parser>>
    BY <2>5 DEF Reading, Uncut
  <2>6. CASE OnAccept \/ OnSignal \/ Signal
    BY <2>5, <2>6 DEF OnAccept, OnSignal, Signal, clientVars, connVars
  <2>7. ASSUME NEW c \in Connections,
               OnWrite(c) \/ AcceptFinishes(c) \/ Breaks(c) \/ WriteFinishes(c)
               \/ Connect(c) \/ Leave(c)
        PROVE  Reading'
    BY <2>5, <2>7
       DEF OnWrite, AcceptFinishes, Breaks, WriteFinishes, Connect, Leave, clientVars, connVars
  <2>8. CASE UNCHANGED vars
    BY <2>5, <2>8 DEF vars, clientVars, connVars
  <2> QED
    BY <2>2, <2>3, <2>4, <2>6, <2>7, <2>8 DEF Next, Serve, Kernel
<1> QED
  BY <1>1, <1>2, PTL DEF Spec

(* However a request is cut by the reads of do_read(), the parser of a     *)
(* connection is where the whole of what came would have brought it.       *)
THEOREM PiecesDoNotMatter == Spec => []Uncut
<1>1. Reading => Uncut
  BY DEF Reading
<1> QED
  BY <1>1, ReadingHolds, PTL

-----------------------------------------------------------------------------
(***************************************************************************)
(* What the connections are answered                                       *)
(***************************************************************************)

Modest ==
  /\ acceptor \in BOOLEAN
  /\ accept \in Results \cup {"none"}
  /\ Cardinality(accepted) <= 1
  /\ stopping \in {"no", "raised", "handled"}

(* One connection at a time in the socket_ of the server. *)
LEMMA ModestHolds == Spec => []Modest
<1>1. Cardinality({}) = 0 /\ \A c : Cardinality({c}) = 1
  BY FS_EmptySet, FS_Singleton
<1>2. Init => Modest
  BY <1>1 DEF Init, Modest, Results
<1>3. Modest /\ [Next]_vars => Modest'
  <2> SUFFICES ASSUME Modest, [Next]_vars PROVE Modest'
    OBVIOUS
  <2> USE <1>1 DEF Modest, Results
  <2>1. CASE OnAccept
    BY <2>1 DEF OnAccept
  <2>2. CASE OnSignal
    BY <2>2 DEF OnSignal
  <2>3. CASE Signal
    BY <2>3 DEF Signal
  <2>4. ASSUME NEW c \in Connections, AcceptFinishes(c) PROVE Modest'
    <3>1. /\ acceptor' = acceptor /\ stopping' = stopping
          /\ accept' \in Results
      BY <2>4 DEF AcceptFinishes
    <3>2. accepted' = {c} \/ accepted' = accepted
      BY <2>4 DEF AcceptFinishes
    <3>3. Cardinality(accepted') <= 1
      <4>1. CASE accepted' = {c}
        <5>1. Cardinality({c}) = 1
          BY FS_Singleton
        <5> QED
          BY <4>1, <5>1
      <4>2. CASE accepted' = accepted
        BY <4>2
      <4> QED
        BY <3>2, <4>1, <4>2
    <3> QED
      BY <3>1, <3>3
  <2>5. ASSUME NEW c \in Connections, Connect(c) PROVE Modest'
    BY <2>5 DEF Connect
  <2>6. ASSUME NEW c \in Connections,
               OnRead(c) \/ OnWrite(c) \/ Breaks(c) \/ WriteFinishes(c) \/ Leave(c)
               \/ \E n \in PieceSizes : ReadFinishes(c, n)
        PROVE  Modest'
    BY <2>6 DEF OnRead, OnWrite, Breaks, WriteFinishes, Leave, ReadFinishes, listenVars
  <2>7. CASE UNCHANGED vars
    BY <2>7 DEF vars, listenVars
  <2> QED
    BY <2>1, <2>2, <2>3, <2>4, <2>5, <2>6, <2>7 DEF Next, Serve, Kernel
<1> QED
  BY <1>2, <1>3, PTL DEF Spec

(* A connection that was answered has nothing more to write, and one that  *)
(* is being answered has sent enough to know the answer.                   *)
Once ==
  /\ answers \in [Connections -> 0 .. 1]
  /\ \A c \in Connections :
       /\ answers[c] = 1 => op[c] = "ended" \/ (op[c] = "write" /\ result[c] # "pending")
       /\ op[c] = "write" \/ answers[c] = 1 => Decided(parser[c])

(* Every handler keeps to that, in whatever order they run.                *)
LEMMA OnceHolds == Spec => []Once
<1>1. Init => Once
  BY DEF Init, Once
<1>2. Once /\ Shape /\ CInv /\ Reading /\ [Next]_vars => Once'
  <2> SUFFICES ASSUME Once, Shape, CInv, Reading, [Next]_vars PROVE Once'
    OBVIOUS
  <2> USE DEF Once, Shape, Results
  <2>1. CASE OnAccept
    <3>1. \A c \in accepted : op[c] = "none"
      BY DEF CInv, OnTheWay, Fresh
    <3> QED
      BY <2>1, <3>1 DEF OnAccept
  <2>2. CASE OnSignal
    BY <2>2 DEF OnSignal
  <2>3. ASSUME NEW c \in Connections, OnRead(c) PROVE Once'
    <3>1. answers[c] = 0 /\ answers' = answers
      BY <2>3 DEF OnRead
    <3>2. CASE result[c] = "ok"
      <4>1. PICK q : parser' = [parser EXCEPT ![c] = q]
        BY <2>3, <3>2 DEF OnRead
      <4>2. PICK w : w = IF Decided(q) THEN "write" ELSE "read"
        OBVIOUS
      <4>3. parser'[c] = q
        BY <4>1 DEF Reading
      <4>4. /\ op' = [op EXCEPT ![c] = w]
            /\ \E r : result' = [result EXCEPT ![c] = r]
        BY <2>3, <3>2, <4>2, <4>3 DEF OnRead, Begin
      <4> QED
        BY <3>1, <4>1, <4>2, <4>3, <4>4
    <3>3. CASE result[c] # "ok"
      BY <2>3, <3>1, <3>3 DEF OnRead, Ended, Abandon, Stop
    <3> QED
      BY <3>2, <3>3
  <2>4. ASSUME NEW c \in Connections, OnWrite(c) PROVE Once'
    BY <2>4 DEF OnWrite, Ended, Abandon, Stop
  <2>5. ASSUME NEW c \in Connections, Breaks(c) PROVE Once'
    BY <2>5 DEF Breaks, Finish
  <2>6. ASSUME NEW c \in Connections, WriteFinishes(c) PROVE Once'
    <3>1. answers[c] = 0
      BY <2>6 DEF WriteFinishes
    <3> QED
      BY <2>6, <3>1 DEF WriteFinishes, Finish
  <2>7. ASSUME NEW c \in Connections, NEW n \in PieceSizes, ReadFinishes(c, n) PROVE Once'
    BY <2>7 DEF ReadFinishes, Finish
  <2>8. ASSUME NEW c \in Connections, AcceptFinishes(c) \/ Connect(c) \/ Leave(c) PROVE Once'
    BY <2>8 DEF AcceptFinishes, Connect, Leave, connVars
  <2>9. CASE Signal \/ UNCHANGED vars
    BY <2>9 DEF Signal, vars, connVars
  <2> QED
    BY <2>1, <2>2, <2>3, <2>4, <2>5, <2>6, <2>7, <2>8, <2>9 DEF Next, Serve, Kernel
<1> QED
  BY <1>1, <1>2, ShapeHolds, ConnectionsAccounted, ReadingHolds, PTL DEF Spec

(* The variables of acceptor, connections and parsers keep their types:    *)
(* the socket_ of the server (server.cpp:60) never has two connections to  *)
(* lose, a reader never goes beyond what was sent (connection.cpp:41), a   *)
(* connection is answered at most once.                                    *)
THEOREM ServerTypeCorrect == Spec => []TypeOK
<1>1. Shape /\ Modest /\ Reading /\ Once => TypeOK
  <2> SUFFICES ASSUME Shape, Modest, Reading, Once PROVE TypeOK
    OBVIOUS
  <2>1. ASSUME NEW c \in Connections PROVE buffer[c] + received[c] \in 0 .. Len(text[c])
    <3>1. text[c] \in Seq(Chars)
      BY ClientsAssumption DEF Reading
    <3> QED
      BY <3>1 DEF Reading
  <2> QED
    BY <2>1 DEF TypeOK, Shape, Modest, Reading, Once
<1> QED
  BY <1>1, ShapeHolds, ModestHolds, ReadingHolds, OnceHolds, PTL

(* Whatever the clients send and however it is cut into reads, the parser  *)
(* of request_parser.cpp says good as soon as, and only if, what was read  *)
(* begins with a request of the grammar, says bad only if nothing of what  *)
(* the client sends would make it one, and connection.cpp:46-62 answers    *)
(* then, once, and never before.                                           *)
THEOREM AnswersByTheGrammar == Spec => []AnsweredByTheGrammar
<1>1. TypeOK /\ Reading /\ Once => AnsweredByTheGrammar
  <2> SUFFICES ASSUME TypeOK, Reading, Once, NEW c \in Connections
               PROVE  /\ parser[c].state = "good" <=> HoldsRequest(text[c], received[c])
                      /\ parser[c].state = "bad" => ~HoldsRequest(text[c], Len(text[c]))
                      /\ op[c] = "write" \/ answers[c] > 0 => Decided(parser[c])
    BY DEF AnsweredByTheGrammar
  <2>1. text[c] \in Seq(Chars)
    BY ClientsAssumption DEF Reading
  <2>2. NewParser \in Parsers
    BY StatesAre DEF NewParser, Parsers
  <2>3. PICK g : IsReading(g, NewParser, text[c])
    BY <2>1, <2>2, ReadingExists
  <2>4. /\ 0 \in 0 .. Len(text[c])
        /\ received[c] \in 0 .. Len(text[c])
    BY <2>1 DEF Reading
  <2>5. After(g[0], SubSeq(text[c], 0 + 1, received[c])) = g[received[c]] /\ g[0] = NewParser
    BY <2>1, <2>2, <2>3, <2>4, AfterPiece DEF IsReading
  <2>6. parser[c] = g[received[c]]
    BY <2>5 DEF Reading, Uncut
  <2>7. op[c] = "write" \/ answers[c] > 0 => Decided(parser[c])
    BY DEF Once
  <2> QED
    BY <2>1, <2>3, <2>4, <2>6, <2>7, ReadingIsGrammar
<1> QED
  BY <1>1, ServerTypeCorrect, ReadingHolds, OnceHolds, PTL
=============================================================================
