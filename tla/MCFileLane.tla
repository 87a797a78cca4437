----------------------------- MODULE MCFileLane -----------------------------
(* An instance of FileLane for TLC. *)
EXTENDS FileLane

CONSTANTS p1, p2, p3,   \* processes
          none

MCProcess  == {p1, p2, p3}
MCTimeouts == {0, 2}
MCNaps     == {1, 3}
=============================================================================
