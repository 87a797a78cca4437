------------------------------ MODULE MCServer ------------------------------
(* An instance of Server for TLC. *)
EXTENDS Server, TLC

CONSTANTS t1, t2,         \* clients, and the threads that serve them
          p1, p2,         \* where ADP may have kept the credential
          good, garbled,  \* what it may have kept there
          s1, s2, s3      \* bearer secrets

MCThread     == {t1, t2}
MCPath       == {p1, p2}
MCValue      == {good, garbled}
MCValidValue == {good}
MCSecret     == {s1, s2, s3}
=============================================================================
