----------------------------- MODULE MCMempool -----------------------------
(***************************************************************************)
(* p and q both spend k, c spends p, e spends c, m spends the coinbase g,  *)
(* and d spends c and m.  The branches both confirm m.  z is a coinstake of *)
(* g, which the pool spends by m and so do both branches.                   *)
(*                                                                         *)
(*        Genesis -- s {g, k} -- a2 {p} -- a3 {c} -- a4 {m}                 *)
(*                            \- b2     -- b3 {q, m}                        *)
(***************************************************************************)
EXTENDS Mempool, TLC

CONSTANTS G, s, a2, a3, a4, b2, b3, g, k, p, q, c, d, e, m, z

MCBlock == {G, s, a2, a3, a4, b2, b3}

MCpprev == s :> G @@ a2 :> s @@ a3 :> a2 @@ a4 :> a3 @@ b2 :> s @@ b3 :> b2

MCnHeight == G :> 0 @@ s :> 1 @@ a2 :> 2 @@ a3 :> 3 @@ a4 :> 4 @@ b2 :> 2 @@ b3 :> 3

MCbnChainTrust == G :> 0 @@ s :> 1 @@ a2 :> 2 @@ a3 :> 3 @@ a4 :> 5 @@ b2 :> 2 @@ b3 :> 4

MCChain == LET path[b \in MCBlock] == IF b = G THEN {G} ELSE path[MCpprev[b]] \cup {b}
           IN  path

MCTx == {g, k, p, q, c, d, e, m, z}

MCvin == g :> {} @@ k :> {} @@ p :> {k} @@ q :> {k} @@ c :> {p} @@ d :> {c, m} @@ e :> {c} @@ m :> {g} @@ z :> {g}

MCvtx == [b \in MCBlock |-> CASE b = s -> <<g, k>> [] b = a2 -> <<p>>
                             [] b = a3 -> <<c>> [] b = a4 -> <<m>>
                             [] b = b3 -> <<q, m>> [] OTHER -> <<>>]
============================================================================
