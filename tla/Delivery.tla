------------------------------ MODULE Delivery ------------------------------
(***************************************************************************)
(* What the broker promises of each index file: it is moved out of the run *)
(* directory, then given to a filter unit (FU), once.  A file that has     *)
(* been moved and is never given (its reply was lost, or the process died) *)
(* is left for whoever looks into the output directory; it is never given  *)
(* a second time.                                                          *)
(***************************************************************************)
EXTENDS Integers

CONSTANT Data    \* the index files of the run

VARIABLES
  moved,   \* files in the output directory
  given    \* how often each file was given to an FU

deliveryVars == <<moved, given>>

Init ==
  /\ moved = {}
  /\ given = [f \in Data |-> 0]

Move(f) ==
  /\ f \in Data \ moved
  /\ moved' = moved \cup {f}
  /\ UNCHANGED given

Give(f) ==
  /\ f \in moved
  /\ given[f] = 0
  /\ given' = [given EXCEPT ![f] = 1]
  /\ UNCHANGED moved

Next == \E f \in Data : Move(f) \/ Give(f)

Spec == Init /\ [][Next]_deliveryVars
=============================================================================
