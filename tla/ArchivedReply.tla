--------------------------- MODULE ArchivedReply ---------------------------
(***************************************************************************)
(* What the archived HTTP 1.0 server answers to the same requests          *)
(* (src/src/http/1.0/server/request_handler.cpp), how the answer goes over *)
(* the wire (reply.cpp) and what the example client makes of it            *)
(* (src/client/C++/http_client.cpp).                                       *)
(*                                                                         *)
(* A text is a sequence of words; one of them is the end of a line.        *)
(***************************************************************************)
EXTENDS RequestMeaning

CONSTANT Contents   \* the pages that an application may answer

ASSUME ContentsAssumption == Contents \subseteq Seq(STRING)

crlf == "\r\n"

-----------------------------------------------------------------------------
(***************************************************************************)
(* request_handler.cpp                                                     *)
(***************************************************************************)

(* Word for word that of request.cpp. *)
archived_url_decode(text, first, last) == url_decode(text, first, last)

(* Pair after pair is taken from the front of the query. *)
QueryParams(text, first, last) ==
  LET from[i \in first .. last + 1] ==
        LET cut == Find(text, i, last, PairEnds)
        IN (IF cut > i THEN {KeyValue(text, [first |-> i, last |-> cut - 1])} ELSE {})
             \cup (IF cut > last THEN {} ELSE from[cut + 1])
  IN from[first]

(* Plausible slip: .. looked for in the target as it was sent. *)
archived_parse_uri_undecoded(target) ==
  LET uri == parse_uri(target, <<>>)
  IN [uri EXCEPT !.ok = @ /\ Legal(target)]

(* The target is a string of its own, with nothing beyond its end. *)
archived_parse_uri(target) ==
  LET mark   == Find(target, 1, Len(target), {"?"})
      path   == archived_url_decode(target, 1, mark - 1)
      params == IF mark >= Len(target) THEN {} ELSE QueryParams(target, mark + 1, Len(target))
  IN [ok           |-> /\ \A q \in params : q.ok
                       /\ path.ok
                       /\ Legal(path.out),
      path         |-> path.out,
      query_params |-> params]

-----------------------------------------------------------------------------
(***************************************************************************)
(* reply.cpp                                                               *)
(***************************************************************************)

(* The code of a status line, as far as it is told apart *)
Code(status) == IF status = "ok" THEN "200" ELSE "error"

StatusLine(status) == <<"HTTP/1.0", Code(status), "phrase", crlf>>

(* The page that goes with a status; only ok has none. *)
StockContent(status) == IF status = "ok" THEN <<>> ELSE <<"page">>

(* The number of the length is one word, which no client looks at. *)
WithHeaders(status, content, content_type) ==
  [status  |-> status,
   headers |-> <<<<"Content-Length", "length">>,
                 <<"Content-Type", content_type>>>>,
   content |-> content]

stock_reply(status) == WithHeaders(status, StockContent(status), "text/html")

Line(header) == <<header[1], ": ", header[2], crlf>>

(* Plausible slip: no blank line after the headers. *)
to_buffersUnended(rep) ==
  StatusLine(rep.status) \o Line(rep.headers[1]) \o Line(rep.headers[2]) \o rep.content

to_buffers(rep) ==
  StatusLine(rep.status) \o Line(rep.headers[1]) \o Line(rep.headers[2])
    \o <<crlf>> \o rep.content

-----------------------------------------------------------------------------
(***************************************************************************)
(* handle_request(), and the handlers of main.cpp                          *)
(***************************************************************************)

archived_handlers ==
  {<<"/", "index.html">>, <<"/", "test">>, <<"/", "test", "2">>, <<"/", "test", "3">>}

ContentType(path) ==
  IF path = <<"/", "index.html">> THEN "text/html" ELSE "text/plain"

(* The replies to a target that was parsed to uri; any method will do. *)
ArchivedReplies(uri) ==
  IF ~uri.ok THEN {stock_reply("bad_request")}
  ELSE IF WithIndex(uri.path) \notin archived_handlers THEN {stock_reply("not_found")}
  ELSE {WithHeaders("ok", content, ContentType(WithIndex(uri.path))) : content \in Contents}

-----------------------------------------------------------------------------
(***************************************************************************)
(* http_client.cpp                                                         *)
(***************************************************************************)

(* What http_get() returns and what it has printed, a word of its own for  *)
(* each message of the client                                              *)
Outcome(result, shown) == [result |-> result, shown |-> shown]

eol       == "\n"
Exception == <<"Exception">>
Invalid   == Outcome(1, <<"Invalid response">>)
NotOK     == Outcome(1, <<"Response returned with status code">>)

(* An exception is printed and no failure is returned. *)
Thrown    == Outcome(0, Exception)

(* read_until(), from a position: where the pattern begins, 0 if the       *)
(* connection ends before                                                  *)
ReadUntil(text, from, pattern) ==
  LET at == {i \in from .. Len(text) - Len(pattern) + 1 :
               SubSeq(text, i, i + Len(pattern) - 1) = pattern}
  IN IF at = {} THEN 0 ELSE Min(at)

(* text arrives, then the connection ends: it is closed, or broken.  The   *)
(* lines of the headers are printed, the blank line behind them is printed *)
(* without its carriage return, and then the content as it comes.          *)
http_get(text, broken) ==
  LET line    == ReadUntil(text, 1, <<crlf>>)
      headers == ReadUntil(text, line + 1, <<crlf, crlf>>)
  IN IF line = 0 THEN Thrown
     ELSE IF text[1] # "HTTP/1.0" THEN Invalid
     ELSE IF text[2] # "200" THEN NotOK
     ELSE IF headers = 0 THEN Thrown
     ELSE Outcome(0, SubSeq(text, line + 1, headers) \o <<eol>>
                       \o SubSeq(text, headers + 2, Len(text))
                       \o (IF broken THEN Exception ELSE <<>>))

-----------------------------------------------------------------------------
(***************************************************************************)
(* Properties                                                              *)
(***************************************************************************)

(* What the request at hand is parsed to (a set, to be evaluated once) *)
ArchivedUris == {archived_parse_uri(request.target)}

(* The server that replaced the archived one reads a target as that did:   *)
(* whatever is escaped or left out of it, both refuse the same targets and *)
(* tell their applications of the same path and parameters.  They differ   *)
(* for an escape at the end of the target when a hex digit comes next in   *)
(* Beast's buffer; the string of the archived request has ended there.     *)
ParsedAsBefore ==
  WellEscaped \/ request.beyond = <<>> =>
    \A uri \in ArchivedUris :
      /\ uri.ok <=> Uri.ok /\ Legal(Uri.path)
      /\ uri.path = Uri.path
      /\ uri.query_params = Uri.query_params

(* What a client shows of a whole reply *)
Shown(rep) ==
  Line(rep.headers[1]) \o Line(rep.headers[2]) \o <<eol>> \o rep.content

(* A beginning of a text, or one that the client's exception follows *)
Begins(shown, text) ==
  \E n \in 0 .. Len(text) :
    LET beginning == SubSeq(text, 1, n)
    IN shown = beginning \/ shown = beginning \o Exception

StatusArrived(text) == \E i \in DOMAIN text : text[i] = crlf

(* The client shows the headers of a reply and its whole content, empty    *)
(* lines of its own included, and fails on every status but ok.  When the  *)
(* connection ends early, it shows a beginning of that and perhaps its     *)
(* exception, never another word; it returns a failure exactly when the    *)
(* reply is not ok and its status line has arrived: cut before that, a     *)
(* failure is returned as a success, with the exception alone to be seen.  *)
RepliesReadBack ==
  Answered =>
    \A uri \in ArchivedUris : \A rep \in ArchivedReplies(uri) : \A text \in {to_buffers(rep)} :
      /\ http_get(text, FALSE) = IF rep.status = "ok" THEN Outcome(0, Shown(rep)) ELSE NotOK
      /\ \A n \in 0 .. Len(text), broken \in BOOLEAN :
         \A early \in {http_get(SubSeq(text, 1, n), broken)} :
           /\ early.result = 1 <=> rep.status # "ok" /\ StatusArrived(SubSeq(text, 1, n))
           /\ IF rep.status = "ok"
              THEN Begins(early.shown, Shown(rep))
              ELSE early \in {Thrown, NotOK}
=============================================================================
