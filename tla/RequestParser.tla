--------------------------- MODULE RequestParser ---------------------------
(***************************************************************************)
(* The automaton that reads an HTTP 1.0 request                            *)
(* (src/src/http/1.0/server/request_parser.cpp), as the table of its       *)
(* moves: from a state, with a character of a set, to a state.  A          *)
(* character for which there is no move makes the request bad.             *)
(***************************************************************************)
EXTENDS Integers, Sequences

(* The characters that part a request, as RFC 1945 names them *)
SP == " "
HT == "\t"
CR == "\r"
LF == "\n"
Colon == ":"
Slash == "/"
Dot == "."

DigitChars == {"0", "1"}
LetterChars == {"G", "H", "T", "P", Dot}
is_tspecial == {SP, HT, Slash, Colon, "?"}
is_ctl      == {HT, CR, LF, "ctl"}
NotAscii    == {"high"}    \* a negative char

Chars == DigitChars \cup LetterChars \cup is_tspecial \cup is_ctl \cup NotAscii

TokenChars == Chars \ (is_tspecial \cup is_ctl \cup NotAscii)
Printable  == Chars \ is_ctl
Blank      == {SP, HT}

RequestLine ==
  {<<"method_start",              TokenChars,                 "method">>,
   <<"method",                    TokenChars,                 "method">>,
   <<"method",                    {SP},                       "uri">>,
   <<"uri",                       Printable \ {SP},           "uri">>,
   <<"uri",                       {SP},                       "http_version_h">>}

Version ==
  {<<"http_version_h",            {"H"},                      "http_version_t_1">>,
   <<"http_version_t_1",          {"T"},                      "http_version_t_2">>,
   <<"http_version_t_2",          {"T"},                      "http_version_p">>,
   <<"http_version_p",            {"P"},                      "http_version_slash">>,
   <<"http_version_slash",        {Slash},                    "http_version_major_start">>,
   <<"http_version_major_start",  DigitChars,                 "http_version_major">>,
   <<"http_version_major",        DigitChars,                 "http_version_major">>,
   <<"http_version_major",        {Dot},                      "http_version_minor_start">>,
   <<"http_version_minor_start",  DigitChars,                 "http_version_minor">>,
   <<"http_version_minor",        DigitChars,                 "http_version_minor">>,
   <<"http_version_minor",        {CR},                       "expecting_newline_1">>,
   <<"expecting_newline_1",       {LF},                       "header_line_start">>}

(* A line that begins with a blank continues the header before it.         *)
Headers(any) ==
  {<<"header_line_start",         {CR},                       "expecting_newline_3">>,
   <<"header_line_start",         TokenChars,                 "header_name">>,
   <<"header_line_start",         IF any THEN Blank ELSE {},  "header_lws">>,
   <<"header_lws",                Blank,                      "header_lws">>,
   <<"header_lws",                {CR},                       "expecting_newline_2">>,
   <<"header_lws",                Printable \ Blank,          "header_value">>,
   <<"header_name",               TokenChars,                 "header_name">>,
   <<"header_name",               {Colon},                    "space_before_header_value">>,
   <<"space_before_header_value", {SP},                       "header_value">>,
   <<"header_value",              Printable,                  "header_value">>,
   <<"header_value",              {CR},                       "expecting_newline_2">>,
   <<"expecting_newline_2",       {LF},                       "header_line_start">>,
   <<"expecting_newline_3",       {LF},                       "good">>}

-----------------------------------------------------------------------------
(* headers: some header has been read *)
NewParser == [state |-> "method_start", headers |-> FALSE]

Moves(parser) == RequestLine \cup Version \cup Headers(parser.headers)

States == {"bad"} \cup UNION {{m[1], m[3]} : m \in RequestLine \cup Version \cup Headers(TRUE)}

Parsers == [state : States, headers : BOOLEAN]

Decided(parser) == parser.state \in {"good", "bad"}

consume == [parser \in Parsers |-> [input \in Chars |->
  LET moves == {m \in Moves(parser) : m[1] = parser.state /\ input \in m[2]}
      state == IF moves = {} THEN "bad" ELSE (CHOOSE m \in moves : TRUE)[3]
  IN [state |-> state, headers |-> parser.headers \/ state = "header_name"]]]

(* What follows a request, or the character that spoils it, is not looked  *)
(* at.                                                                     *)
Take == [parser \in Parsers |-> [input \in Chars |->
  IF Decided(parser) THEN parser ELSE consume[parser][input]]]

After(parser, piece) ==
  LET after[i \in 0 .. Len(piece)] ==
        IF i = 0 THEN parser ELSE Take[after[i - 1]][piece[i]]
  IN after[Len(piece)]

(* Plausible slip: each piece of a request parsed from the beginning.      *)
parseAnew(parser, piece) == After(NewParser, piece)

(* Goes on where the last piece ended.                                     *)
parse(parser, piece) == After(parser, piece)
=============================================================================
