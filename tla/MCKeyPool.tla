----------------------------- MODULE MCKeyPool -----------------------------
(* Two CReserveKey objects, alike but for their names. *)
EXTENDS KeyPool, TLC

MCSymmetry == Permutations(User)
============================================================================
