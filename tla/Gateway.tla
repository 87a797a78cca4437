------------------------------- MODULE Gateway -------------------------------
(***************************************************************************)
(* aalp/gateway.py, handle() and _execute_admitted(): the requests for one *)
(* provider.  A request waits in the provider's Lane, is forwarded under a *)
(* lease that a heartbeat thread renews, and gives the lease back, unless  *)
(* the upstream connection is not confirmed closed: then the lease is left *)
(* in quarantine, until it lapses or the late outcome confirms the close.  *)
(*                                                                         *)
(* Providers share no lane and no lock, so one provider is modelled.  The  *)
(* lane is an instance of Lane, forward() an instance of UpstreamCall.     *)
(***************************************************************************)
EXTENDS Integers, FiniteSets

CONSTANTS Req,            \* the requests, one ingress thread each
          Capacity,       \* provider.concurrency_limit
          LeaseSeconds,   \* lease_seconds, in clock ticks
          QueueTimeouts,  \* what may be left of the queue budget on arrival
          MaxIdle,        \* bound of the lane's idle time
          Slack           \* how late a heartbeat may be, in clock ticks

\* interval = self.lease_seconds / 3
Interval == LeaseSeconds \div 3

ASSUME GatewayAssumption ==
    /\ Capacity \in Nat \ {0}
    /\ LeaseSeconds \in Nat \ {0}
    /\ QueueTimeouts \subseteq Nat \ {0}
    /\ MaxIdle \in Nat
    /\ MaxIdle >= LeaseSeconds
    /\ Slack \in Nat
    /\ Interval + Slack < LeaseSeconds

VARIABLES stage,      \* where handle() stands
          answer,     \* the outcome, once it is determined
          beating,    \* the requests whose heartbeat thread runs
          beat        \* the time until its next heartbeat, negative when late

VARIABLES phase, waiters, ticketNo, nextTicket, asleep, remaining, leases, ttl,
          idleSeconds, released         \* the provider's lane

VARIABLES call, upstream                \* forward()

requestVars  == <<stage, answer>>
beatVars     == <<beating, beat>>
laneVars     == <<phase, waiters, ticketNo, nextTicket, asleep, remaining,
                  leases, ttl, idleSeconds, released>>
upstreamVars == <<call, upstream>>
vars         == <<requestVars, beatVars, laneVars, upstreamVars>>

\* The holder is the caller's flow id: a label that requests may share.
Flow == "flow"

ProviderLane == INSTANCE Lane WITH
    Call <- Req, Holder <- {Flow}, HolderOf <- [r \in Req |-> Flow],
    Timeouts <- QueueTimeouts

Forward == INSTANCE UpstreamCall

Init ==
    /\ stage = [r \in Req |-> "new"]
    /\ answer = [r \in Req |-> "none"]
    /\ beating = {}
    /\ beat = [r \in Req |-> 0]
    /\ ProviderLane!Init
    /\ Forward!Init

Go(r, to) == stage' = [stage EXCEPT ![r] = to]

Conclude(r, to, outcome) ==
    /\ Go(r, to)
    /\ answer' = [answer EXCEPT ![r] = outcome]
-----------------------------------------------------------------------------
(* handle(), up to admission.                                              *)

\* The checks in their order; "none" when the request goes on to the lane.
EarlyOutcome(inMaintenance, totalSpent, available, queueSpent) ==
    CASE inMaintenance -> "maintenance"
      [] ~inMaintenance /\ totalSpent -> "total_timeout"
      [] ~inMaintenance /\ ~totalSpent /\ ~available -> "unavailable"
      [] ~inMaintenance /\ ~totalSpent /\ available /\ queueSpent -> "queue_timeout"
      [] OTHER -> "none"

Receive(r) ==
    /\ stage[r] = "new"
    /\ \E inMaintenance, totalSpent, available, queueSpent \in BOOLEAN :
          LET outcome == EarlyOutcome(inMaintenance, totalSpent, available, queueSpent)
          IN  \/ /\ outcome # "none"
                 /\ Conclude(r, "answered", outcome)
                 /\ UNCHANGED laneVars
              \/ /\ outcome = "none"
                 /\ Go(r, "queueing")
                 /\ \E timeout \in QueueTimeouts : ProviderLane!AcquireStart(r, timeout)
                 /\ UNCHANGED answer
    /\ UNCHANGED <<beatVars, upstreamVars>>

\* Inside lane.acquire().
Queue(r) ==
    /\ stage[r] = "queueing"
    /\ ProviderLane!Acquire(r)
    /\ UNCHANGED <<requestVars, beatVars, upstreamVars>>

\* LaneTimeout.
QueueTimeout(r) ==
    /\ stage[r] = "queueing"
    /\ phase[r] = "timedout"
    /\ Conclude(r, "answered", "queue_timeout")
    /\ UNCHANGED <<beatVars, laneVars, upstreamVars>>

\* Admitted, but past the total deadline: the idle slot is released at once.
TotalTimeoutWithoutRelease(r) ==
    /\ stage[r] = "queueing"
    /\ phase[r] = "admitted"
    /\ Conclude(r, "answered", "total_timeout")
    /\ UNCHANGED <<beatVars, laneVars, upstreamVars>>

TotalTimeout(r) ==
    /\ stage[r] = "queueing"
    /\ phase[r] = "admitted"
    /\ ProviderLane!Release(Flow, r)
    /\ Conclude(r, "answered", "total_timeout")
    /\ UNCHANGED <<beatVars, upstreamVars>>
-----------------------------------------------------------------------------
(* _execute_admitted().                                                    *)

ExecuteAfterTimeout(r) ==
    /\ stage[r] = "queueing"
    /\ phase[r] \in {"admitted", "timedout"}
    /\ Go(r, "preparing")
    /\ beating' = beating \cup {r}
    /\ beat' = [beat EXCEPT ![r] = Interval]
    /\ UNCHANGED <<answer, laneVars, upstreamVars>>

ExecuteWithSlowBeat(r) ==
    /\ stage[r] = "queueing"
    /\ phase[r] = "admitted"
    /\ Go(r, "preparing")
    /\ beating' = beating \cup {r}
    /\ beat' = [beat EXCEPT ![r] = LeaseSeconds]
    /\ UNCHANGED <<answer, laneVars, upstreamVars>>

\* The heartbeat thread starts.
Execute(r) ==
    /\ stage[r] = "queueing"
    /\ phase[r] = "admitted"
    /\ Go(r, "preparing")
    /\ beating' = beating \cup {r}
    /\ beat' = [beat EXCEPT ![r] = Interval]
    /\ UNCHANGED <<answer, laneVars, upstreamVars>>

\* read_credential() raises, or forward() raises something else than ValueError.
PrepareFails(r) ==
    /\ stage[r] = "preparing"
    /\ Conclude(r, "unwinding", "exception")
    /\ UNCHANGED <<beatVars, laneVars, upstreamVars>>

\* forward() raises ValueError: the path is not one the provider declares.
PathRefused(r) ==
    /\ stage[r] = "preparing"
    /\ Conclude(r, "unwinding", "unavailable")
    /\ UNCHANGED <<beatVars, laneVars, upstreamVars>>

ForwardStart(r) ==
    /\ stage[r] = "preparing"
    /\ Go(r, "forwarding")
    /\ Forward!Start(r)
    /\ UNCHANGED <<answer, beatVars, laneVars>>

\* forward() returns the upstream's result, or gives up on it.
ForwardReturn(r) ==
    /\ stage[r] = "forwarding"
    /\ Forward!Answer(r) \/ Forward!GiveUp(r)
    /\ Conclude(r, "unwinding", "upstream_result")
    /\ UNCHANGED <<beatVars, laneVars>>

\* The finally clause: stop_heartbeat.set(), then heartbeat_thread.join(), which
\* has no timeout.
StopHeartbeatNever(r) ==
    /\ stage[r] = "unwinding"
    /\ Go(r, "settling")
    /\ UNCHANGED <<answer, beatVars, laneVars, upstreamVars>>

JoinHeartbeatFirst(r) ==
    /\ stage[r] = "unwinding"
    /\ r \notin beating
    /\ Go(r, "joining")
    /\ UNCHANGED <<answer, beatVars, laneVars, upstreamVars>>

StopHeartbeat(r) ==
    /\ stage[r] = "unwinding"
    /\ Go(r, "joining")
    /\ UNCHANGED <<answer, beatVars, laneVars, upstreamVars>>

JoinHeartbeatNever(r) ==
    /\ stage[r] = "joining"
    /\ Go(r, "settling")
    /\ UNCHANGED <<answer, beatVars, laneVars, upstreamVars>>

JoinHeartbeat(r) ==
    /\ stage[r] = "joining"
    /\ r \notin beating
    /\ Go(r, "settling")
    /\ UNCHANGED <<answer, beatVars, laneVars, upstreamVars>>

\* closed, as _execute_admitted() knows it.
ConfirmedIdle(r) == answer[r] = "unavailable" \/ call[r] = "confirmed"

\* Release a slot that is confirmed idle, or leave it in quarantine; an
\* exception passes this point by.
SettleAlwaysReleasing(r) ==
    /\ stage[r] = "settling"
    /\ Go(r, "answered")
    /\ ProviderLane!Release(Flow, r)
    /\ UNCHANGED <<answer, beatVars, upstreamVars>>

Settle(r) ==
    /\ stage[r] = "settling"
    /\ Go(r, "answered")
    /\ \/ answer[r] # "exception" /\ ConfirmedIdle(r) /\ ProviderLane!Release(Flow, r)
       \/ answer[r] # "exception" /\ ~ConfirmedIdle(r) /\ UNCHANGED laneVars
       \/ answer[r] = "exception" /\ UNCHANGED laneVars
    /\ UNCHANGED <<answer, beatVars, upstreamVars>>
-----------------------------------------------------------------------------
(* What happens beside the request's own thread.                           *)

HeartbeatOfStranger(r) ==
    /\ r \in beating
    /\ beat[r] <= 0
    /\ beat' = [beat EXCEPT ![r] = Interval]
    /\ ProviderLane!Heartbeat("stranger", r)
    /\ UNCHANGED <<requestVars, beating, upstreamVars>>

\* _heartbeat_loop(): the wait of interval is over.
Heartbeat(r) ==
    /\ r \in beating
    /\ beat[r] <= 0
    /\ beat' = [beat EXCEPT ![r] = Interval]
    /\ ProviderLane!Heartbeat(Flow, r)
    /\ UNCHANGED <<requestVars, beating, upstreamVars>>

\* stop_heartbeat.wait() returns True, and the heartbeat thread ends.  One that
\* had run into its timeout when the event was set renews the lease once more.
HeartbeatEnds(r) ==
    /\ stage[r] = "joining"
    /\ r \in beating
    /\ beating' = beating \ {r}
    /\ beat' = [beat EXCEPT ![r] = 0]
    /\ UNCHANGED <<requestVars, laneVars, upstreamVars>>

UpstreamEnds(r) ==
    /\ Forward!Finish(r)
    /\ UNCHANGED <<requestVars, beatVars, laneVars>>

\* _on_late_completion(): release, but only on a confirmed close.
LateCompletion(r) ==
    /\ Forward!ReportLate(r)
    /\ \/ upstream[r] = "stopped" /\ ProviderLane!Release(Flow, r)
       \/ upstream[r] # "stopped" /\ UNCHANGED laneVars
    /\ UNCHANGED <<requestVars, beatVars>>

\* _provider_status_object() asks the lane for its status.
StatusQuery ==
    /\ ProviderLane!Status
    /\ UNCHANGED <<requestVars, beatVars, upstreamVars>>

(***************************************************************************)
(* The clock.  A thread that is ready runs before the lease it works under *)
(* can lapse: a heartbeat is at most Slack ticks late, and the heartbeat   *)
(* thread of a request just admitted is started within the same tick.      *)
(* Once stop_heartbeat is set no wait of its thread runs into its timeout. *)
(***************************************************************************)
Prompt ==
    /\ \A r \in beating : beat[r] > -Slack
    /\ \A r \in Req : ~(stage[r] = "queueing" /\ phase[r] = "admitted")

Tick ==
    /\ Prompt
    /\ ProviderLane!Tick
    /\ beat' = [r \in Req |-> IF r \in beating /\ stage[r] # "joining"
                            THEN beat[r] - 1 ELSE beat[r]]
    /\ UNCHANGED <<requestVars, beating, upstreamVars>>

Handle(r) ==
    \/ Queue(r) \/ QueueTimeout(r) \/ TotalTimeout(r)
    \/ Execute(r) \/ PrepareFails(r) \/ PathRefused(r) \/ ForwardStart(r)
    \/ ForwardReturn(r) \/ StopHeartbeat(r) \/ JoinHeartbeat(r) \/ Settle(r)

Next ==
    \/ \E r \in Req : \/ Receive(r) \/ Handle(r)
                      \/ Heartbeat(r) \/ HeartbeatEnds(r)
                      \/ UpstreamEnds(r) \/ LateCompletion(r)
    \/ StatusQuery
    \/ Tick

Spec == Init /\ [][Next]_vars

(***************************************************************************)
(* Threads are scheduled and time passes; forward() returns because its    *)
(* join has a timeout.  The upstream itself need never end.                *)
(***************************************************************************)
Fairness ==
    /\ \A r \in Req : /\ WF_vars(Handle(r))
                      /\ WF_vars(Heartbeat(r))
                      /\ WF_vars(HeartbeatEnds(r))
    /\ WF_vars(Tick)

FairSpec == Spec /\ Fairness
-----------------------------------------------------------------------------
Stages == {"new", "queueing", "preparing", "forwarding", "unwinding", "joining",
           "settling", "answered"}

Answers == {"maintenance", "unavailable", "queue_timeout", "total_timeout",
            "upstream_result", "exception"}

TypeOK ==
    /\ stage \in [Req -> Stages]
    /\ answer \in [Req -> Answers \cup {"none"}]
    /\ beating \subseteq Req
    /\ beat \in [Req -> -Slack..Interval]
    /\ ProviderLane!TypeOK
    /\ call \in [Req -> Forward!Told]
    /\ upstream \in [Req -> {"idle", "running", "stopped", "unknown"}]

\* The lease of a request outlives its forwarding: with heartbeats every third
\* of the lease, no lapse and no other thread frees the slot of a request that
\* the upstream may be working on and whose caller is still waiting.
HeldWhileForwarding ==
    \A r \in Req : stage[r] \in {"preparing", "forwarding"} =>
        r \in leases /\ ttl[r] > 0

\* A slot is given up early only if no upstream operation can occupy it; one
\* that may still be occupied is only ever reclaimed by lapsing.
FreedOnlyWhenIdle ==
    [][\A r \in leases : r \notin leases' =>
          ttl[r] = 0 \/ upstream[r] \in {"idle", "stopped"}]_vars

\* Every refusal the gateway makes itself means what the interface says: no
\* upstream attempt was made; and it leaves no slot behind, in use or waiting.
RefusedWithoutAttempt ==
    \A r \in Req :
        stage[r] = "answered" /\ answer[r] \in Answers \ {"upstream_result", "exception"}
            => upstream[r] = "idle" /\ r \notin leases \cup waiters

\* Quarantine only ever runs out: once a request is answered, nothing renews
\* the lease it may have left behind.
QuarantineNeverRenewed ==
    [][\A r \in Req : stage[r] = "answered" => ttl'[r] <= ttl[r]]_vars

\* The requests whose callers still wait for the upstream fit the provider's
\* concurrency limit.
AwaitedWithinLimit ==
    Cardinality({r \in Req : stage[r] = "forwarding"}) <= Capacity

\* Every upstream operation that may be in progress fits the limit: "AALP never
\* starts a new upstream request for a provider beyond that provider's declared
\* ceiling" (contract.json).
UpstreamWithinLimit ==
    Cardinality({r \in Req : upstream[r] = "running"}) <= Capacity

\* Every request is answered, whatever the upstream and the other requests do.
RequestAnswered == \A r \in Req : stage[r] = "queueing" ~> stage[r] = "answered"

\* Every slot comes back, released or lapsed, though the upstream may hang.
SlotComesBack ==
    \A r \in Req : r \in ProviderLane!Live ~> r \notin ProviderLane!Live
=============================================================================
