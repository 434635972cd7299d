------------------------- MODULE MCBlockAcceptance -------------------------
(***************************************************************************)
(* Two branches above s.  x2 and b3 stake the same output k of s; b4 may   *)
(* be checkpointed although branch x has more trust than b3.               *)
(*                                                                         *)
(*        Genesis -- s -- x2 -- x3                                          *)
(*                     \- b2 -- b3 -- b4                                    *)
(***************************************************************************)
EXTENDS BlockAcceptance, TLC

CONSTANTS G, s, x2, x3, b2, b3, b4, k, sx, sb

MCBlock == {G, s, x2, x3, b2, b3, b4}

MCpprev == s :> G @@ x2 :> s @@ x3 :> x2 @@ b2 :> s @@ b3 :> b2 @@ b4 :> b3

MCnHeight == G :> 0 @@ s :> 1 @@ x2 :> 2 @@ x3 :> 3 @@ b2 :> 2 @@ b3 :> 3 @@ b4 :> 4

MCbnChainTrust == G :> 0 @@ s :> 1 @@ x2 :> 3 @@ x3 :> 6 @@ b2 :> 2 @@ b3 :> 4 @@ b4 :> 5

MCChain == LET path[b \in MCBlock] == IF b = G THEN {G} ELSE path[MCpprev[b]] \cup {b}
           IN  path

(* k is made in s; sx and sb are the coinstakes that spend it. *)
MCTx == {k, sx, sb}

MCvin == k :> {} @@ sx :> {k} @@ sb :> {k}

MCvtx == [b \in MCBlock |-> CASE b = s -> <<k>> [] b = x2 -> <<sx>>
                             [] b = b3 -> <<sb>> [] OTHER -> <<>>]

MCprevoutStake == [b \in MCBlock |-> IF b \in {x2, b3} THEN k ELSE NoStake]

MCnStakeTime == [b \in MCBlock |-> 0]
============================================================================
