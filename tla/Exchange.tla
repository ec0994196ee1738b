------------------------------ MODULE Exchange ------------------------------
(***************************************************************************)
(* What an HTTP connection promises its client: requests are taken one at  *)
(* a time in the order in which they were sent, each once, and the next is *)
(* taken only when the client has heard the reply to the last, or is gone. *)
(* When the exchange is over nothing more is taken or heard.               *)
(***************************************************************************)
EXTENDS Integers

CONSTANT Connections

VARIABLES
  taken,   \* requests taken by the server
  heard,   \* replies heard by the client
  gone,    \* the client has left
  over     \* the server has ended the exchange

exchangeVars == <<taken, heard, gone, over>>

Init ==
  /\ taken = [c \in Connections |-> 0]
  /\ heard = [c \in Connections |-> 0]
  /\ gone = [c \in Connections |-> FALSE]
  /\ over = [c \in Connections |-> FALSE]

Take(c) ==
  /\ ~over[c]
  /\ gone[c] \/ heard[c] = taken[c]
  /\ taken' = [taken EXCEPT ![c] = @ + 1]
  /\ UNCHANGED <<heard, gone, over>>

Hear(c) ==
  /\ ~over[c]
  /\ ~gone[c]
  /\ heard[c] + 1 = taken[c]
  /\ heard' = [heard EXCEPT ![c] = @ + 1]
  /\ UNCHANGED <<taken, gone, over>>

Leave(c) ==
  /\ gone' = [gone EXCEPT ![c] = TRUE]
  /\ UNCHANGED <<taken, heard, over>>

(* One connection, or all of them at once, with the process. *)
End ==
  /\ over' \in [Connections -> BOOLEAN]
  /\ \A c \in Connections : over[c] => over'[c]
  /\ UNCHANGED <<taken, heard, gone>>

Next == (\E c \in Connections : Take(c) \/ Hear(c) \/ Leave(c)) \/ End

Spec == Init /\ [][Next]_exchangeVars
=============================================================================
