----------------------------- MODULE MCGateway -----------------------------
(* An instance of Gateway for TLC. *)
EXTENDS Gateway

CONSTANTS r1, r2    \* requests for the provider

MCReq == {r1, r2}

MCQueueTimeouts == {2}
=============================================================================
