----------------------------- MODULE MCDownload -----------------------------
(* A node with the first block only, a node with the whole chain that opens *)
(* no connections, and a peer of the first that does not answer.           *)
EXTENDS Download

CONSTANTS A, H, S, g, h1, h2, h3

MCBlock == {g, h1, h2, h3}

MCpprev == [b \in MCBlock \ {g} |->
              CASE b = h1 -> g [] b = h2 -> h1 [] b = h3 -> h2]

MCChain == LET path[b \in MCBlock] == IF b = g THEN {g} ELSE path[MCpprev[b]] \cup {b}
           IN  path

(* The height, and the trust: the chain with more blocks has more.          *)
MCnHeight == [b \in MCBlock |-> Cardinality(MCChain[b]) - 1]

Empty == [b \in MCBlock |-> <<>>]

Nothing == [t \in {} |-> {}]

MCInitial == [n \in {A, H} |-> IF n = A THEN g ELSE h3]

MCNeighbours == [n \in {A, H} |-> IF n = A THEN {H, S} ELSE {A}]
============================================================================
