---------------------------- MODULE MCForwarder ----------------------------
(* An instance of Forwarder for TLC.  Calls of forward() share no state, so *)
(* one call has every interleaving of its two threads.                      *)
EXTENDS Forwarder

CONSTANT r1    \* a call of forward()

MCReq == {r1}
=============================================================================
