------------------------------- MODULE MCLane -------------------------------
(* An instance of Lane for TLC. *)
EXTENDS Lane

CONSTANTS c1, c2, c3, c4,   \* invocations of acquire()
          h1, h2            \* the holder they pass, and a stranger

MCCall     == {c1, c2, c3, c4}
MCHolder   == {h1, h2}
MCHolderOf == [c \in Call |-> h1]

MCTimeouts == {0, 2}
=============================================================================
