--------------------------- MODULE ArchivedServer ---------------------------
(***************************************************************************)
(* The HTTP 1.0 server kept in src/src/http/1.0/server: one thread runs    *)
(* the completion handlers of the acceptor, of the signals and of the      *)
(* connections, which a manager keeps to be able to stop them.             *)
(*                                                                         *)
(* An operation is pending, then finished with a result that waits for its *)
(* handler to run.  To close a socket aborts what is pending; what has     *)
(* finished stays as it is, and its handler finds the socket closed.       *)
(***************************************************************************)
EXTENDS RequestGrammar, FiniteSets

CONSTANTS
  Connections,   \* those that clients open
  Sendings,      \* what the clients may send: a text for each connection
  PieceSizes     \* bound: how much arrives at once

ASSUME ClientsAssumption ==
  /\ Sendings \subseteq [Connections -> Seq(Chars)]
  /\ PieceSizes \subseteq Nat \ {0}

VARIABLES
  text,         \* what each client sends
  client,       \* "away", "open" or "left"
  backlog,      \* connections the kernel has for the acceptor
  acceptor,     \* the acceptor: its socket is open
  accept,       \* its operation
  accepted,     \* the connection in the socket_ of the server
  stopping,     \* the signal: "no", "raised" or "handled"
  connections,  \* those in the connection manager
  op,           \* what each connection waits for
  result,       \* the result of that operation
  open,         \* the socket of the connection is open
  buffer,       \* how much the last read put into buffer_
  received,     \* how much of the text the parser has been given
  parser,       \* the parser of the connection
  answers       \* replies that have gone out

listenVars == <<backlog, acceptor, accept, accepted, stopping>>
clientVars == <<text, client>>
connVars   == <<op, result, open, buffer, received, parser, answers>>
vars == <<listenVars, clientVars, connections, connVars>>

Results == {"pending", "ok", "error", "aborted"}

TypeOK ==
  /\ text \in Sendings
  /\ client \in [Connections -> {"away", "open", "left"}]
  /\ backlog \subseteq Connections
  /\ acceptor \in BOOLEAN
  /\ accept \in Results \cup {"none"}
  /\ accepted \subseteq Connections /\ Cardinality(accepted) <= 1
  /\ stopping \in {"no", "raised", "handled"}
  /\ connections \subseteq Connections
  /\ op \in [Connections -> {"none", "read", "write", "ended"}]
  /\ result \in [Connections -> Results]
  /\ open \in [Connections -> BOOLEAN]
  /\ \A c \in Connections : buffer[c] + received[c] \in 0 .. Len(text[c])
  /\ parser \in [Connections -> Parsers]
  /\ answers \in [Connections -> 0 .. 1]

Init ==
  /\ text \in Sendings
  /\ client = [c \in Connections |-> "away"]
  /\ backlog = {}
  /\ acceptor = TRUE
  /\ accept = "pending"
  /\ accepted = {}
  /\ stopping = "no"
  /\ connections = {}
  /\ op = [c \in Connections |-> "none"]
  /\ result = [c \in Connections |-> "pending"]
  /\ open = [c \in Connections |-> FALSE]
  /\ buffer = [c \in Connections |-> 0]
  /\ received = [c \in Connections |-> 0]
  /\ parser = [c \in Connections |-> NewParser]
  /\ answers = [c \in Connections |-> 0]

-----------------------------------------------------------------------------
(***************************************************************************)
(* The clients and the kernel                                              *)
(***************************************************************************)

Connect(c) ==
  /\ client[c] = "away"
  /\ acceptor
  /\ client' = [client EXCEPT ![c] = "open"]
  /\ backlog' = backlog \cup {c}
  /\ UNCHANGED <<text, acceptor, accept, accepted, stopping, connections, connVars>>

Leave(c) ==
  /\ client[c] = "open"
  /\ client' = [client EXCEPT ![c] = "left"]
  /\ UNCHANGED <<text, listenVars, connections, connVars>>

Signal ==
  /\ stopping = "no"
  /\ stopping' = "raised"
  /\ UNCHANGED <<clientVars, backlog, acceptor, accept, accepted, connections, connVars>>

(* A connection is accepted into socket_, or found broken. *)
AcceptFinishes(c) ==
  /\ accept = "pending"
  /\ c \in backlog
  /\ backlog' = backlog \ {c}
  /\ \/ accept' = "ok" /\ accepted' = {c}
     \/ client[c] = "left" /\ accept' = "error" /\ UNCHANGED accepted
  /\ UNCHANGED <<clientVars, acceptor, stopping, connections, connVars>>

Finish(c, how) == result' = [result EXCEPT ![c] = how]

(* A piece of the request arrives. *)
ReadFinishes(c, n) ==
  /\ op[c] = "read" /\ result[c] = "pending"
  /\ client[c] # "away"
  /\ received[c] + n <= Len(text[c])
  /\ Finish(c, "ok")
  /\ buffer' = [buffer EXCEPT ![c] = n]
  /\ UNCHANGED <<clientVars, listenVars, connections, op, open, received, parser, answers>>

(* The client has gone. *)
Breaks(c) ==
  /\ op[c] \in {"read", "write"} /\ result[c] = "pending"
  /\ client[c] = "left"
  /\ Finish(c, "error")
  /\ UNCHANGED <<clientVars, listenVars, connections, op, open, buffer, received, parser, answers>>

WriteFinishes(c) ==
  /\ op[c] = "write" /\ result[c] = "pending"
  /\ Finish(c, "ok")
  /\ answers' = [answers EXCEPT ![c] = @ + 1]
  /\ UNCHANGED <<clientVars, listenVars, connections, op, open, buffer, received, parser>>

-----------------------------------------------------------------------------
(***************************************************************************)
(* The server                                                              *)
(***************************************************************************)

(* An operation begins; on a closed socket it fails at once. *)
Begin(c, what, isOpen) ==
  /\ op' = [op EXCEPT ![c] = what]
  /\ result' = [result EXCEPT ![c] = IF isOpen THEN "pending" ELSE "error"]

(* Plausible slip: the handler does not look whether the acceptor is open. *)
OnAcceptUnchecked ==
  /\ accept \in {"ok", "error", "aborted"}
  /\ accept' = IF acceptor THEN "pending" ELSE "error"
  /\ accepted' = {}
  /\ connections' = connections \cup accepted
  /\ open' = [c \in Connections |-> open[c] \/ c \in accepted]
  /\ op' = [c \in Connections |-> IF c \in accepted THEN "read" ELSE op[c]]
  /\ UNCHANGED <<clientVars, backlog, acceptor, stopping, result, buffer, received, parser, answers>>

(* The handler of do_accept(): stopped meanwhile, or a connection for the  *)
(* manager, and another is accepted.                                       *)
OnAccept ==
  /\ accept \in {"ok", "error", "aborted"}
  /\ IF ~acceptor
     THEN /\ accept' = "none"
          /\ UNCHANGED <<accepted, connections, op, open>>
     ELSE /\ accept' = "pending"
          /\ accepted' = {}
          /\ connections' = connections \cup accepted
          /\ open' = [c \in Connections |-> open[c] \/ c \in accepted]
          /\ op' = [c \in Connections |-> IF c \in accepted THEN "read" ELSE op[c]]
  /\ UNCHANGED <<clientVars, backlog, acceptor, stopping, result, buffer, received, parser, answers>>

(* Plausible slip: the connection is closed and stays with the manager.    *)
StopCloses(c) ==
  /\ open' = [open EXCEPT ![c] = FALSE]
  /\ op' = [op EXCEPT ![c] = "ended"]
  /\ UNCHANGED connections

(* connection_manager::stop() *)
Stop(c) ==
  /\ connections' = connections \ {c}
  /\ open' = [open EXCEPT ![c] = FALSE]
  /\ op' = [op EXCEPT ![c] = "ended"]

(* Aborted: the connection has been stopped, and nothing else is to do.    *)
Abandon(c) ==
  /\ op' = [op EXCEPT ![c] = "ended"]
  /\ UNCHANGED <<connections, open>>

Ended(c) ==
  /\ IF result[c] = "aborted" THEN Abandon(c) ELSE Stop(c)
  /\ UNCHANGED result

(* The handler of do_read(): a reply to a request good or bad, or more to  *)
(* read.                                                                   *)
OnRead(c) ==
  /\ op[c] = "read" /\ result[c] # "pending"
  /\ IF result[c] = "ok"
     THEN LET piece == SubSeq(text[c], received[c] + 1, received[c] + buffer[c]) IN
          /\ parser' = [parser EXCEPT ![c] = parse(@, piece)]
          /\ received' = [received EXCEPT ![c] = @ + buffer[c]]
          /\ buffer' = [buffer EXCEPT ![c] = 0]
          /\ Begin(c, IF Decided(parser'[c]) THEN "write" ELSE "read", open[c])
          /\ UNCHANGED <<connections, open>>
     ELSE Ended(c) /\ UNCHANGED <<buffer, received, parser>>
  /\ UNCHANGED <<clientVars, listenVars, answers>>

(* A connection is for one request: whatever came of the reply, it ends.   *)
OnWrite(c) ==
  /\ op[c] = "write" /\ result[c] # "pending"
  /\ Ended(c)
  /\ UNCHANGED <<clientVars, listenVars, buffer, received, parser, answers>>

(* The handler of do_await_stop(): the acceptor closed, every connection   *)
(* stopped.                                                                *)
OnSignal ==
  /\ stopping = "raised"
  /\ stopping' = "handled"
  /\ acceptor' = FALSE
  /\ accept' = IF accept = "pending" THEN "aborted" ELSE accept
  /\ backlog' = {}
  /\ connections' = {}
  /\ open' = [c \in Connections |-> open[c] /\ c \notin connections]
  /\ result' = [c \in Connections |->
                  IF c \in connections /\ result[c] = "pending" THEN "aborted" ELSE result[c]]
  /\ UNCHANGED <<clientVars, accepted, op, buffer, received, parser, answers>>

Serve ==
  \/ OnAccept
  \/ OnSignal
  \/ \E c \in Connections : OnRead(c) \/ OnWrite(c)

Kernel ==
  \E c \in Connections :
    AcceptFinishes(c) \/ Breaks(c) \/ WriteFinishes(c)

Next ==
  \/ Serve
  \/ Kernel
  \/ Signal
  \/ \E c \in Connections :
       \/ Connect(c) \/ Leave(c)
       \/ \E n \in PieceSizes : ReadFinishes(c, n)

Spec == Init /\ [][Next]_vars

(* Handlers run in turn, and the kernel does its part; a client that stays *)
(* need not send anything.                                                 *)
Fairness == WF_vars(Serve) /\ WF_vars(Kernel)

FairSpec == Spec /\ Fairness

-----------------------------------------------------------------------------
(***************************************************************************)
(* Properties                                                              *)
(***************************************************************************)

Outstanding(c) == op[c] \in {"read", "write"}

(* io_service_.run() has nothing left to wait for. *)
RunReturns ==
  /\ accept = "none"
  /\ stopping = "handled"
  /\ \A c \in Connections : ~Outstanding(c)

(* The manager has every connection that is open and none that has ended,  *)
(* so that stop_all() reaches them all (connection_manager.cpp:32).        *)
ManagerHasThemAll ==
  \A c \in Connections :
    /\ c \in connections => open[c] /\ Outstanding(c)
    /\ open[c] => c \in connections

(* The inductive invariant behind it: a connection is on its way to the    *)
(* server, with the manager, or done; one that is aborted has left the     *)
(* manager (connection.cpp:65, 86 rely on it).                             *)
OnTheWay == backlog \cup accepted

Fresh(c) == op[c] = "none" /\ result[c] = "pending" /\ ~open[c]

CInv ==
  /\ ManagerHasThemAll
  /\ backlog \cap accepted = {}
  /\ \A c \in Connections :
       /\ client[c] = "away" \/ c \in OnTheWay => Fresh(c)
       /\ client[c] = "away" => c \notin OnTheWay
       /\ result[c] = "aborted" => c \notin connections

(* server.cpp:84-88: when a signal has been handled every operation ends   *)
(* and run() returns, whatever was finished and not yet handled.           *)
StopEndsTheServer == stopping = "handled" ~> RunReturns

(* Whatever pieces it arrives in, a connection is answered as it sends a   *)
(* request or something that cannot become one, once, and never before.    *)
AnsweredByTheGrammar ==
  /\ TypeOK
  /\ \A c \in Connections :
       /\ parser[c].state = "good" <=> HoldsRequest(text[c], received[c])
       /\ parser[c].state = "bad" => ~HoldsRequest(text[c], Len(text[c]))
       /\ op[c] = "write" \/ answers[c] > 0 => Decided(parser[c])
=============================================================================
