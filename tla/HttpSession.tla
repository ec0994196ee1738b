---------------------------- MODULE HttpSession ----------------------------
(***************************************************************************)
(* The HTTP server (src/src/http/1.1/server): a listener that accepts      *)
(* connections, a session for each, and the threads of the io_context that *)
(* run their completion handlers.                                          *)
(*                                                                         *)
(* A session is kept alive by the operation it waits for, one at a time:   *)
(* read, handle, write, and again.  The request handler runs in the thread *)
(* that completed the read and keeps it; the other handlers are short and  *)
(* need a free thread.  expires_after() sets one deadline when a read      *)
(* starts, which covers the write as well; when it passes during either,   *)
(* the socket is closed.                                                   *)
(***************************************************************************)
EXTENDS Integers, FiniteSets

CONSTANTS
  Connections,   \* those that clients open
  Threads,       \* --threads
  MaxRequests,   \* bound: requests sent on each connection
  Unruly         \* bound: those whose clients may send what is no request,
                 \* or stop reading

ASSUME SessionAssumption ==
  /\ Threads \in Nat \ {0}
  /\ MaxRequests \in [Connections -> Nat]
  /\ Unruly \subseteq Connections

VARIABLES
  up,          \* the process runs
  accepting,   \* an async_accept is outstanding
  backlog,     \* connections the kernel has accepted and the listener has not
  client,      \* what each client is doing
  sent,        \* requests it has sent
  ending,      \* what follows them: "more"; "nothing", the last asks to close
               \* the connection; "garbage", something that is no request
  heard,       \* replies it has got
  op,          \* what the session waits for
  taken,       \* requests the session has read
  timedOut     \* its deadline has passed: the socket is closed

serverVars == <<up, accepting>>
clientVars == <<client, sent, ending>>
sessionVars == <<op, taken, timedOut>>
vars == <<serverVars, backlog, clientVars, heard, sessionVars>>

TypeOK ==
  /\ up \in BOOLEAN
  /\ accepting \in BOOLEAN
  /\ backlog \subseteq Connections
  /\ client \in [Connections -> {"away", "open", "stopped", "left"}]
  /\ sent \in [Connections -> Nat]
  /\ ending \in [Connections -> {"more", "nothing", "garbage"}]
  /\ heard \in [Connections -> Nat]
  /\ op \in [Connections -> {"none", "read", "handle", "write", "written", "ended"}]
  /\ taken \in [Connections -> Nat]
  /\ timedOut \in [Connections -> BOOLEAN]
  /\ \A c \in Connections : taken[c] <= sent[c] /\ sent[c] <= MaxRequests[c]

Init ==
  /\ up = TRUE
  /\ accepting = TRUE
  /\ backlog = {}
  /\ client = [c \in Connections |-> "away"]
  /\ sent = [c \in Connections |-> 0]
  /\ ending = [c \in Connections |-> "more"]
  /\ heard = [c \in Connections |-> 0]
  /\ op = [c \in Connections |-> "none"]
  /\ taken = [c \in Connections |-> 0]
  /\ timedOut = [c \in Connections |-> FALSE]

-----------------------------------------------------------------------------
(***************************************************************************)
(* Clients                                                                 *)
(***************************************************************************)

Connect(c) ==
  /\ up
  /\ client[c] = "away"
  /\ client' = [client EXCEPT ![c] = "open"]
  /\ backlog' = backlog \cup {c}
  /\ UNCHANGED <<serverVars, sent, ending, heard, sessionVars>>

(* With the process its connections are gone. *)
There(c) == up /\ client[c] \in {"open", "stopped"}

(* A client may send requests ahead of the replies. *)
Send(c) ==
  /\ There(c)
  /\ sent[c] < MaxRequests[c]
  /\ ending[c] = "more"
  /\ sent' = [sent EXCEPT ![c] = @ + 1]
  /\ \E e \in {"more", "nothing"} : ending' = [ending EXCEPT ![c] = e]
  /\ UNCHANGED <<serverVars, backlog, client, heard, sessionVars>>

(* Something that Beast's parser refuses; no request can follow. *)
SendMalformed(c) ==
  /\ c \in Unruly
  /\ There(c)
  /\ ending[c] = "more"
  /\ ending' = [ending EXCEPT ![c] = "garbage"]
  /\ UNCHANGED <<serverVars, backlog, client, sent, heard, sessionVars>>

(* A client may keep the connection and no longer read its replies. *)
StopReading(c) ==
  /\ c \in Unruly
  /\ up
  /\ client[c] = "open"
  /\ client' = [client EXCEPT ![c] = "stopped"]
  /\ UNCHANGED <<serverVars, backlog, sent, ending, heard, sessionVars>>

Leave(c) ==
  /\ There(c)
  /\ client' = [client EXCEPT ![c] = "left"]
  /\ UNCHANGED <<serverVars, backlog, sent, ending, heard, sessionVars>>

-----------------------------------------------------------------------------
(***************************************************************************)
(* The listener and the threads                                            *)
(***************************************************************************)

(* A thread of the io_context is free for a completion handler. *)
ThreadFree == up /\ Cardinality({c \in Connections : op[c] = "handle"}) < Threads

DoRead(c) ==
  /\ op' = [op EXCEPT ![c] = "read"]
  /\ timedOut' = [timedOut EXCEPT ![c] = FALSE]

EndSession(c) == op' = [op EXCEPT ![c] = "ended"]

(* on_accept(): the session is created and reads; another is accepted. *)
OnAccept(c) ==
  /\ ThreadFree
  /\ accepting
  /\ c \in backlog
  /\ backlog' = backlog \ {c}
  /\ DoRead(c)
  /\ UNCHANGED <<serverVars, clientVars, heard, taken>>

(* Plausible slip: the listener gives up after an error. *)
OnAcceptErrorStops(c) ==
  /\ ThreadFree
  /\ accepting
  /\ c \in backlog
  /\ client[c] = "left"
  /\ backlog' = backlog \ {c}
  /\ accepting' = FALSE
  /\ UNCHANGED <<up, clientVars, heard, sessionVars>>

(* The connection was broken while it waited; the error is only logged. *)
OnAcceptError(c) ==
  /\ ThreadFree
  /\ accepting
  /\ c \in backlog
  /\ client[c] = "left"
  /\ backlog' = backlog \ {c}
  /\ UNCHANGED <<serverVars, clientVars, heard, sessionVars>>

-----------------------------------------------------------------------------
(***************************************************************************)
(* A session                                                               *)
(***************************************************************************)

(* Plausible slip: the deadline taken off before the response is written. *)
MayExpireReading(c) == op[c] = "read"

MayExpire(c) == op[c] \in {"read", "write", "written"}

(* The deadline passes; the socket is closed and the operation fails. *)
Expire(c) ==
  /\ ThreadFree
  /\ MayExpire(c)
  /\ ~timedOut[c]
  /\ timedOut' = [timedOut EXCEPT ![c] = TRUE]
  /\ UNCHANGED <<serverVars, backlog, clientVars, heard, op, taken>>

(* A request is read, perhaps from the buffer of the session, and handled  *)
(* in this thread.                                                         *)
OnRead(c) ==
  /\ ThreadFree
  /\ op[c] = "read"
  /\ ~timedOut[c]
  /\ taken[c] < sent[c]
  /\ taken' = [taken EXCEPT ![c] = @ + 1]
  /\ op' = [op EXCEPT ![c] = "handle"]
  /\ UNCHANGED <<serverVars, backlog, clientVars, heard, timedOut>>

(* end_of_stream: the client has closed the connection between requests. *)
OnReadEnd(c) ==
  /\ ThreadFree
  /\ op[c] = "read"
  /\ ~timedOut[c]
  /\ client[c] = "left"
  /\ taken[c] = sent[c] /\ ending[c] # "garbage"
  /\ EndSession(c)
  /\ UNCHANGED <<serverVars, backlog, clientVars, heard, taken, timedOut>>

(* Timed out, or reset by the client, or what it sent cannot be parsed. *)
OnReadError(c) ==
  /\ ThreadFree
  /\ op[c] = "read"
  /\ timedOut[c] \/ client[c] = "left" \/ (taken[c] = sent[c] /\ ending[c] = "garbage")
  /\ EndSession(c)
  /\ UNCHANGED <<serverVars, backlog, clientVars, heard, taken, timedOut>>

(* Plausible slip: a handler that forgets to send its response. *)
HandledUnsent(c) ==
  /\ up
  /\ op[c] = "handle"
  /\ DoRead(c)
  /\ UNCHANGED <<serverVars, backlog, clientVars, heard, taken>>

(* handle_request() returns; it has started to write the response. *)
Handled(c) ==
  /\ up
  /\ op[c] = "handle"
  /\ op' = [op EXCEPT ![c] = "write"]
  /\ UNCHANGED <<serverVars, backlog, clientVars, heard, taken, timedOut>>

(* A handler throws, which ends every thread and the process. *)
HandlerThrows(c) ==
  /\ up
  /\ op[c] = "handle"
  /\ up' = FALSE
  /\ accepting' = FALSE
  /\ backlog' = {}
  /\ op' = [d \in Connections |-> "ended"]
  /\ UNCHANGED <<clientVars, heard, taken, timedOut>>

(* The response goes out and reaches a client that is still there. *)
Written(c) ==
  /\ up
  /\ op[c] = "write"
  /\ client[c] # "stopped"
  /\ ~timedOut[c]
  /\ heard' = [heard EXCEPT ![c] = IF client[c] = "open" THEN taken[c] ELSE @]
  /\ op' = [op EXCEPT ![c] = "written"]
  /\ UNCHANGED <<serverVars, backlog, clientVars, taken, timedOut>>

(* The response fits into the buffers of the connection, where it stays;   *)
(* nothing says that it does.                                              *)
WrittenUnread(c) ==
  /\ up
  /\ op[c] = "write"
  /\ client[c] = "stopped"
  /\ ~timedOut[c]
  /\ op' = [op EXCEPT ![c] = "written"]
  /\ UNCHANGED <<serverVars, backlog, clientVars, heard, taken, timedOut>>

(* on_write(): close if the request asked for it, read the next otherwise. *)
OnWrite(c) ==
  /\ ThreadFree
  /\ op[c] = "written"
  /\ ~timedOut[c]
  /\ IF ending[c] = "nothing" /\ taken[c] = sent[c]
     THEN EndSession(c) /\ UNCHANGED timedOut
     ELSE DoRead(c)
  /\ UNCHANGED <<serverVars, backlog, clientVars, heard, taken>>

(* Timed out, before or after the response went out, or reset. *)
OnWriteError(c) ==
  /\ ThreadFree
  /\ \/ op[c] \in {"write", "written"} /\ timedOut[c]
     \/ op[c] = "write" /\ client[c] = "left"
  /\ EndSession(c)
  /\ UNCHANGED <<serverVars, backlog, clientVars, heard, taken, timedOut>>

Listen(c) == OnAccept(c) \/ OnAcceptError(c)

Serve(c) ==
  \/ OnRead(c) \/ OnReadEnd(c) \/ OnReadError(c)
  \/ Handled(c)
  \/ Written(c) \/ OnWrite(c) \/ OnWriteError(c)

Next ==
  \E c \in Connections :
    \/ Connect(c) \/ Send(c) \/ SendMalformed(c) \/ StopReading(c) \/ Leave(c)
    \/ Listen(c) \/ Serve(c) \/ WrittenUnread(c) \/ Expire(c) \/ HandlerThrows(c)

Spec == Init /\ [][Next]_vars

(* The queue of the io_context is served in turn, handlers return and      *)
(* deadlines pass; clients may do nothing, and a write that a client does  *)
(* not read may never complete.                                            *)
Fairness ==
  \A c \in Connections : SF_vars(Listen(c)) /\ SF_vars(Serve(c)) /\ SF_vars(Expire(c))

FairSpec == Spec /\ Fairness

-----------------------------------------------------------------------------
(***************************************************************************)
(* Properties                                                              *)
(***************************************************************************)

Over == [c \in Connections |-> op[c] = "ended"]
Deaf == [c \in Connections |-> client[c] \in {"stopped", "left"}]

Contract == INSTANCE Exchange WITH over <- Over, gone <- Deaf

(* Replies match the requests of a connection one by one, also when the    *)
(* client sends ahead, sends what is no request, stops reading, leaves or  *)
(* is timed out: a session has one operation at a time (session.hpp:92,    *)
(* 44).                                                                    *)
ImplementsExchange == Contract!Spec

(* A handled request stays without a reply only if its client has left or  *)
(* stopped reading, its deadline has passed, or the process has died.      *)
(* /popfile has renamed a file by then.                                    *)
LostOnlyWhenBroken ==
  \A c \in Connections :
    heard[c] < taken[c] =>
      \/ op[c] \in {"handle", "write"}
      \/ Deaf[c]
      \/ timedOut[c]
      \/ ~up

(* Every request of a client that waits is answered unless its session is  *)
(* timed out, also when it sends what is no request behind it, and when    *)
(* other clients break their connections.                                  *)
EveryRequestAnswered ==
  \A c \in Connections : \A n \in 1 .. MaxRequests[c] :
    sent[c] >= n ~> heard[c] >= n \/ Deaf[c] \/ timedOut[c] \/ ~up

(* A client that falls silent does not keep its session for ever, neither  *)
(* by sending no more nor by reading no more of what it is sent            *)
(* (session.hpp:89: one deadline for both).                                *)
SilentSessionsEnd ==
  \A c \in Connections : \A n \in 0 .. MaxRequests[c] :
    sent[c] = n /\ op[c] # "none" ~> sent[c] > n \/ op[c] = "ended"
=============================================================================
