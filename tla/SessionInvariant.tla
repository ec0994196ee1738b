-------------------------- MODULE SessionInvariant --------------------------
(***************************************************************************)
(* The inductive invariant of HttpSession: how far the replies that a      *)
(* client has heard lag behind the requests its session has taken.         *)
(***************************************************************************)
EXTENDS HttpSession

(* No session before the listener has made it. *)
Unserved ==
  \A c \in Connections :
    /\ c \in backlog => op[c] = "none" /\ client[c] # "away"
    /\ client[c] = "away" => op[c] = "none" \/ ~up
    /\ op[c] = "none" => heard[c] = 0 /\ taken[c] = 0

(* A client that reads has heard all but the reply that is being made.     *)
InStep ==
  \A c \in Connections :
    ~Deaf[c] =>
      /\ op[c] \in {"read", "written"} => heard[c] = taken[c]
      /\ op[c] \in {"handle", "write"} => heard[c] + 1 = taken[c]

Broken ==
  \A c \in Connections :
    op[c] = "ended" /\ heard[c] < taken[c] =>
      Deaf[c] \/ timedOut[c] \/ ~up

SInv ==
  /\ TypeOK
  /\ Unserved
  /\ InStep
  /\ Broken
=============================================================================
