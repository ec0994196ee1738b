--------------------------- MODULE RequestHandler ---------------------------
(***************************************************************************)
(* What a request is answered and what it makes the broker do              *)
(* (src/src/http/1.1/server/request_handler.ipp, and the web applications  *)
(* of src/src/main.cc).                                                    *)
(***************************************************************************)
EXTENDS RequestTarget

CONSTANTS
  Requests,   \* [method, target, beyond]
  MaxInt,     \* INT_MAX, 2 ^ 31 - 1
  MaxLong     \* LONG_MAX, 2 ^ 63 - 1

ASSUME RequestsAssumption ==
  /\ Requests \subseteq [method : STRING, target : Seq(STRING), beyond : Seq(STRING)]
  /\ MaxInt \in Nat \ {0}
  /\ MaxLong \in Nat
  /\ MaxInt < MaxLong

VARIABLES
  request,   \* the request at hand
  reply      \* what was done for it

vars == <<request, reply>>

NoRequest == [method |-> "none", target |-> <<>>, beyond |-> <<>>]

Answer(status, call, run, stopLS) ==
  [status |-> status, call |-> call, run |-> run, stopLS |-> stopLS]

NoReply     == Answer("none", "none", 0, 0)
bad_request == Answer("bad_request", "none", 0, 0)
not_found   == Answer("not_found", "none", 0, 0)
Call(call, run, stopLS) == Answer("ok", call, run, stopLS)

Ints == -(MaxInt + 1) .. MaxInt

TypeOK ==
  /\ request \in Requests \cup {NoRequest}
  /\ reply \in [status : {"none", "ok", "bad_request", "not_found"},
                call   : {"none", "popRunFile", "restart", "getStats", "getStatsOfAll"},
                run    : Ints,
                stopLS : Ints]

Init ==
  /\ request = NoRequest
  /\ reply = NoReply

-----------------------------------------------------------------------------
(***************************************************************************)
(* Parameters                                                              *)
(***************************************************************************)

(* The numbers of unsigned long *)
ULongs == 2 * MaxLong + 2

(* std::stoul() *)
Stoul(text) ==
  LET n == Number(text, 10)
  IN [ok    |-> n.found /\ n.magnitude < ULongs,
      value |-> Signed(n) % ULongs]

(* (long)value < 0 *)
IsNegative(value) == value > MaxLong

(* Plausible slip: the sign not looked at.                                 *)
ParamOKUnsigned(uri, key) == Given(uri, key) /\ Stoul(Value(uri, key)).ok

ParamOK(uri, key) ==
  /\ Given(uri, key)
  /\ Stoul(Value(uri, key)).ok
  /\ ~IsNegative(Stoul(Value(uri, key)).value)

(* unsigned long stored in an int *)
ToInt(value) ==
  LET low == value % (2 * MaxInt + 2)
  IN IF low > MaxInt THEN low - (2 * MaxInt + 2) ELSE low

Param(uri, key) == ToInt(Stoul(Value(uri, key)).value)

runnumber == <<"runnumber">>
stopls    == <<"stopls">>

-----------------------------------------------------------------------------
(***************************************************************************)
(* Web applications                                                        *)
(***************************************************************************)

PopFile(uri) ==
  IF ParamOK(uri, runnumber) /\ (Given(uri, stopls) => ParamOK(uri, stopls))
  THEN Call("popRunFile", Param(uri, runnumber),
            IF Given(uri, stopls) THEN Param(uri, stopls) ELSE -1)
  ELSE bad_request

(* Its parameter is not checked for being negative.                        *)
Stats(uri) ==
  LET run == IF Given(uri, runnumber) THEN Param(uri, runnumber) ELSE -1
  IN IF Given(uri, runnumber) /\ ~Stoul(Value(uri, runnumber)).ok THEN bad_request
     ELSE IF run >= 0 THEN Call("getStats", run, 0)
     ELSE Call("getStatsOfAll", 0, 0)

Restart(uri) ==
  IF ParamOK(uri, runnumber)
  THEN Call("restart", Param(uri, runnumber), 0)
  ELSE bad_request

handlers ==
  {<<"/", "popfile">>, <<"/", "stats">>, <<"/", "html", "/", "stats">>,
   <<"/", "index.html">>, <<"/", "restart">>}

Application(path, uri) ==
  CASE path = <<"/", "popfile">>    -> PopFile(uri)
    [] path = <<"/", "restart">>    -> Restart(uri)
    [] path = <<"/", "index.html">> -> Call("none", 0, 0)
    [] OTHER                        -> Stats(uri)

-----------------------------------------------------------------------------
(***************************************************************************)
(* A request                                                               *)
(***************************************************************************)

(* Plausible slip: only a path that begins with .. is refused.             *)
LegalStart(path) ==
  /\ path # <<>>
  /\ path[1] = "/"
  /\ ~(Len(path) > 2 /\ path[2] = "." /\ path[3] = ".")

Legal(path) ==
  /\ path # <<>>
  /\ path[1] = "/"
  /\ \A i \in 1 .. Len(path) - 1 : ~(path[i] = "." /\ path[i + 1] = ".")

WithIndex(path) == IF Last(path) = "/" THEN Append(path, "index.html") ELSE path

Uri == parse_uri(request.target, request.beyond)

Unanswered == request # NoRequest /\ reply = NoReply

Respond(answer) == reply' = answer /\ UNCHANGED request

Receive ==
  /\ request = NoRequest
  /\ request' \in Requests
  /\ UNCHANGED reply

UnsupportedMethod ==
  /\ Unanswered
  /\ request.method # "GET"
  /\ Respond(bad_request)

ParserFails ==
  /\ Unanswered
  /\ request.method = "GET"
  /\ ~Uri.ok
  /\ Respond(bad_request)

IllegalTarget ==
  /\ Unanswered
  /\ request.method = "GET"
  /\ Uri.ok
  /\ ~Legal(Uri.path)
  /\ Respond(bad_request)

NotFound ==
  /\ Unanswered
  /\ request.method = "GET"
  /\ Uri.ok
  /\ Legal(Uri.path)
  /\ WithIndex(Uri.path) \notin handlers
  /\ Respond(not_found)

Handle ==
  /\ Unanswered
  /\ request.method = "GET"
  /\ Uri.ok
  /\ Legal(Uri.path)
  /\ WithIndex(Uri.path) \in handlers
  /\ Respond(Application(WithIndex(Uri.path), Uri))

Sent ==
  /\ reply # NoReply
  /\ request' = NoRequest
  /\ reply' = NoReply

Next ==
  \/ Receive
  \/ UnsupportedMethod \/ ParserFails \/ IllegalTarget \/ NotFound \/ Handle
  \/ Sent

Spec == Init /\ [][Next]_vars
=============================================================================
