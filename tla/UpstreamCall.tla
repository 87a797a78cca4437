---------------------------- MODULE UpstreamCall ----------------------------
(***************************************************************************)
(* What forward() promises to the gateway about one upstream request each. *)
(* The call is answered while the request runs or after it ended.  If the  *)
(* answer is the request's own result, it says whether the connection is   *)
(* confirmed closed; a caller that gave up instead may still be told so    *)
(* later, once.  Nobody is told "closed" of a request that may be running. *)
(*                                                                         *)
(* Forwarder implements this specification; Gateway is written on top.     *)
(***************************************************************************)
CONSTANT Req

VARIABLES call,       \* what the caller of forward() has been told
          upstream    \* the request in the provider's hands

Told == {"idle", "pending", "confirmed", "unconfirmed", "gaveup",
         "lateConfirmed", "lateUnconfirmed"}

Init ==
    /\ call = [r \in Req |-> "idle"]
    /\ upstream = [r \in Req |-> "idle"]

Start(r) ==
    /\ call[r] = "idle"
    /\ call' = [call EXCEPT ![r] = "pending"]
    /\ upstream' = [upstream EXCEPT ![r] = "running"]

\* The connection is closed, or close() failed and nobody can tell.
Finish(r) ==
    /\ upstream[r] = "running"
    /\ \E end \in {"stopped", "unknown"} : upstream' = [upstream EXCEPT ![r] = end]
    /\ UNCHANGED call

Ended(r) == upstream[r] \in {"stopped", "unknown"}

Answer(r) ==
    /\ call[r] = "pending"
    /\ Ended(r)
    /\ call' = [call EXCEPT ![r] = IF upstream[r] = "stopped" THEN "confirmed"
                                                             ELSE "unconfirmed"]
    /\ UNCHANGED upstream

GiveUp(r) ==
    /\ call[r] = "pending"
    /\ call' = [call EXCEPT ![r] = "gaveup"]
    /\ UNCHANGED upstream

ReportLate(r) ==
    /\ call[r] = "gaveup"
    /\ Ended(r)
    /\ call' = [call EXCEPT ![r] = IF upstream[r] = "stopped" THEN "lateConfirmed"
                                                             ELSE "lateUnconfirmed"]
    /\ UNCHANGED upstream

Next == \E r \in Req :
            Start(r) \/ Finish(r) \/ Answer(r) \/ GiveUp(r) \/ ReportLate(r)

vars == <<call, upstream>>

Spec == Init /\ [][Next]_vars

\* The caller is always answered.
FairSpec == Spec /\ \A r \in Req : WF_vars(Answer(r) \/ GiveUp(r))
=============================================================================
