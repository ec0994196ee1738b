--------------------------- MODULE MCArchivedServer ---------------------------
(* A client that sends a request with one character put in place of        *)
(* another beside one that sends nothing, or a good request beside one     *)
(* that sends a short request and the beginning of another.                *)
EXTENDS ArchivedServer

CONSTANTS c1, c2

TwoConnections == {c1, c2}

Line   == <<"G", " ", "/", " ", "H", "T", "T", "P", "/", "1", ".", "0", "\r", "\n">>
Header == <<"P", ":", " ", "1", "\r", "\n">>
More   == <<" ", "\t", "1", "\r", "\n">>
End    == <<"\r", "\n">>

Short == Line \o End \o Line
Long  == Line \o Header \o More \o End

Spoilers == {" ", "\t", "\r", "\n", ":", "G", "high"}

Spoiled == {[Long EXCEPT ![i] = ch] : i \in DOMAIN Long, ch \in Spoilers}

(* The one alone sends, or both. *)
OneSpoiled == {[c \in TwoConnections |-> IF c = c1 THEN s ELSE <<>>] : s \in Spoiled}
Both       == {[c \in TwoConnections |-> IF c = c1 THEN Long ELSE Short]}

TwoSendings == OneSpoiled \cup Both

Pieces == {12, 15}
=============================================================================
