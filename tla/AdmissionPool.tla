---------------------------- MODULE AdmissionPool ----------------------------
(***************************************************************************)
(* What a bounded admission primitive of AALP promises to its callers,     *)
(* whatever algorithm is behind it.  One element of Call is one attempt to *)
(* be admitted.  An attempt is outside, perhaps waits, and then either     *)
(* holds one of Capacity places or is refused; a holder's place may be     *)
(* taken back at any time (released, or its lease lapsed), and an attempt  *)
(* that is over never comes back.  Nothing is promised about order.        *)
(*                                                                         *)
(* Lane implements this specification; Coalescing is written on top of it. *)
(***************************************************************************)
EXTENDS Integers, FiniteSets

CONSTANTS Call,      \* the attempts
          Capacity   \* how many of them may hold a place at once

VARIABLE status

Statuses == {"outside", "waiting", "holding", "refused", "gone"}

Holding == {c \in Call : status[c] = "holding"}

Init == status = [c \in Call |-> "outside"]

\* The places of the attempts in lost are taken back.
Without(lost) ==
    [c \in Call |-> IF c \in lost THEN "gone" ELSE status[c]]

Queue(c, lost) ==
    /\ status[c] = "outside"
    /\ status' = [Without(lost) EXCEPT ![c] = "waiting"]

Admit(c, lost) ==
    /\ status[c] \in {"outside", "waiting"}
    /\ Cardinality(Holding \ lost) < Capacity
    /\ status' = [Without(lost) EXCEPT ![c] = "holding"]

Refuse(c, lost) ==
    /\ status[c] \in {"outside", "waiting"}
    /\ status' = [Without(lost) EXCEPT ![c] = "refused"]

TakeBack(lost) == status' = Without(lost)

Next == \E lost \in SUBSET Holding :
            \/ TakeBack(lost)
            \/ \E c \in Call : Queue(c, lost) \/ Admit(c, lost) \/ Refuse(c, lost)

\* An attempt that waits is admitted or refused in the end.
Settle(c) ==
    /\ status[c] = "waiting"
    /\ \E lost \in SUBSET Holding : Admit(c, lost) \/ Refuse(c, lost)

Spec == Init /\ [][Next]_status

FairSpec == Spec /\ \A c \in Call : WF_status(Settle(c))

TypeOK == status \in [Call -> Statuses]

\* Never more than Capacity places are held.
Bounded == Cardinality(Holding) <= Capacity
=============================================================================
