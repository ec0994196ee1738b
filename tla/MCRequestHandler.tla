--------------------------- MODULE MCRequestHandler ---------------------------
(* Requests for TLC: short values at length, the other parts by example. *)
EXTENDS ArchivedReply

Root  == <<"/">>
Path(word) == <<"/", word>>

Paths ==
  {<<>>, Root, Path("popfile"), Path("restart"), Path("stats"), Path("nosuch"),
   Path("test"), <<"/", "test", "2">>, <<"/", "test", "%", "3", "3">>,
   <<"/", "html", "/", "stats">>, <<"popfile">>,
   <<"%", "2", "F", "popfile">>, <<"%", "2", "F", "%", "3", "F">>,
   <<"/", "popfile", "%", "2">>, <<"/", "popfile", "/", ".", ".">>,
   <<"/", ".", "%", "2", "E", "/", "popfile">>, <<"/", "%", "2", "E", "stats">>}

Characters == {"%", "2", "6", "-", "+", "&"}

Values == UNION {[1 .. n -> Characters] : n \in 0 .. 4}

Keys == {<<"runnumber">>, <<"stopls">>}

(* Pairs of all kinds, to go before or after another. *)
Pairs ==
  {<<>>, <<"runnumber", "=", "6">>, <<"stopls", "=", "2">>, <<"stopls", "=", "-", "2">>,
   <<"stopls", "%", "3", "D", "=", "2">>, <<"stopls">>}

(* All values for one key of /popfile, and all paths with a few queries. *)
Targets ==
  {Path("popfile") \o <<"?">> \o key \o <<"=">> \o value : key \in Keys, value \in Values}
  \cup
  {Path("popfile") \o <<"?">> \o first \o <<cut>> \o second :
     first \in Pairs, second \in Pairs, cut \in {"&", ";"}}
  \cup
  {path \o query : path \in Paths,
                   query \in {<<>>, <<"?">>} \cup {<<"?">> \o pair : pair \in Pairs}}

SmallRequests ==
  [method : {"GET"}, target : Targets, beyond : {<<>>, <<"6">>}]
  \cup
  {[method |-> "POST", target |-> Path("popfile"), beyond |-> <<>>]}

(* With lines, and lines left empty, of its own. *)
SmallContents ==
  {<<>>, <<"file">>, <<crlf, crlf, "file">>, <<"file", crlf, crlf>>}
=============================================================================
