---------------------------- MODULE MCBestChain ----------------------------
(***************************************************************************)
(* A tree of blocks for TLC.  Two branches fork above s and overtake each  *)
(* other; k is a coinbase output both spend, in different blocks.          *)
(*                                                                         *)
(*        Genesis -- s -- a2 -- a3 -- a4 -- a5                              *)
(*                     |                 \- d5                              *)
(*                     \- b2 -- b3 -- b4 -- b5                              *)
(*                            \- c3                                         *)
(***************************************************************************)
EXTENDS BestChain, TLC

CONSTANTS G, s, a2, a3, a4, a5, b2, b3, b4, b5, c3, d5,
          k, ca2, ca3, ca4, ca5, cb2, cb3, cb4, cb5, cc3, cd5, p, q, r, m

MCBlock == {G, s, a2, a3, a4, a5, b2, b3, b4, b5, c3, d5}

MCpprev == s :> G @@ a2 :> s @@ a3 :> a2 @@ a4 :> a3 @@ a5 :> a4
             @@ b2 :> s @@ b3 :> b2 @@ b4 :> b3 @@ b5 :> b4 @@ c3 :> b2 @@ d5 :> a4

MCnHeight == G :> 0 @@ s :> 1 @@ a2 :> 2 @@ a3 :> 3 @@ a4 :> 4 @@ a5 :> 5
               @@ b2 :> 2 @@ b3 :> 3 @@ b4 :> 4 @@ b5 :> 5 @@ c3 :> 3 @@ d5 :> 5

MCbnChainTrust == G :> 0 @@ s :> 1 @@ a2 :> 2 @@ a3 :> 3 @@ a4 :> 5 @@ a5 :> 7
                    @@ b2 :> 2 @@ b3 :> 4 @@ b4 :> 6 @@ b5 :> 8 @@ c3 :> 9 @@ d5 :> 6

MCChain == LET path[b \in MCBlock] == IF b = G THEN {G} ELSE path[MCpprev[b]] \cup {b}
           IN  path

Coinbases == {k, ca2, ca3, ca4, ca5, cb2, cb3, cb4, cb5, cc3, cd5}

MCTx == Coinbases \cup {p, q, r, m}

(* p and q both spend the coinbase k of s; r spends p.  a5 spends k a second *)
(* time; d5 holds p and r again; c3 spends the coinbase of b2 too early.     *)
MCvin == [t \in MCTx |-> CASE t \in {p, q} -> {k} [] t = r -> {p}
                        [] t = m -> {cb2} [] OTHER -> {}]

MCvtx == G :> <<>> @@ s :> <<k>>
           @@ a2 :> <<ca2>> @@ a3 :> <<ca3, p>> @@ a4 :> <<ca4, r>> @@ a5 :> <<ca5, q>>
           @@ b2 :> <<cb2>> @@ b3 :> <<cb3, p, r>> @@ b4 :> <<cb4>> @@ b5 :> <<cb5>>
           @@ c3 :> <<cc3, m>> @@ d5 :> <<cd5, p, r>>
============================================================================
