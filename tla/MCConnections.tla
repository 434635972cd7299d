--------------------------- MODULE MCConnections ---------------------------
(* Two threads open connections: one in bursts, one for added nodes. *)
EXTENDS Connections

CONSTANTS seeker, adder

MCOpener == {seeker, adder}
============================================================================
