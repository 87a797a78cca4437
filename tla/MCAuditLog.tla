----------------------------- MODULE MCAuditLog -----------------------------
(* An instance of AuditLog for TLC. *)
EXTENDS AuditLog, TLC

CONSTANTS t1, t2, t3    \* ingress threads

MCThread == {t1, t2, t3}
MCLines  == {1, 2}

MCSymmetry == Permutations(Thread)
=============================================================================
