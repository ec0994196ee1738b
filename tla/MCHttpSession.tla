---------------------------- MODULE MCHttpSession ----------------------------
(* A small server for TLC. *)
EXTENDS SessionInvariant

CONSTANTS c1, c2

TwoConnections == {c1, c2}
OneConnection == {c2}

OneAndTwo == [c \in {c1, c2} |-> IF c = c1 THEN 1 ELSE 2]
=============================================================================
