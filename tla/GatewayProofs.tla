---------------------------- MODULE GatewayProofs ----------------------------
(***************************************************************************)
(* What is proved about the gateway for every set of requests, every       *)
(* concurrency limit, and every lease term that outlasts its heartbeats.   *)
(* What the lane guarantees is taken from LaneProofs.                      *)
(***************************************************************************)
EXTENDS Gateway, FiniteSetTheorems, TLAPS

LaneTheorems == INSTANCE LaneProofs WITH
    Call <- Req, Holder <- {Flow}, HolderOf <- [r \in Req |-> Flow],
    Timeouts <- QueueTimeouts

-----------------------------------------------------------------------------
(***************************************************************************)
(* The gateway is a composition: it uses the lane and forward() as their   *)
(* specifications allow, so what is proved of them holds here.             *)
(***************************************************************************)

LEMMA ReceivedByLane ==
    ASSUME NEW r \in Req, Receive(r)
    PROVE  [ProviderLane!Next]_(ProviderLane!vars)
BY DEF Receive, laneVars, ProviderLane!Next, ProviderLane!vars

LEMMA LanePart == [Next]_vars => [ProviderLane!Next]_(ProviderLane!vars)
<1> SUFFICES ASSUME [Next]_vars
             PROVE  ProviderLane!Next \/ UNCHANGED ProviderLane!vars
  OBVIOUS
<1> USE DEF ProviderLane!Next
<1>l. UNCHANGED laneVars => UNCHANGED ProviderLane!vars
  BY DEF laneVars, ProviderLane!vars
<1>1. ASSUME NEW r \in Req, Receive(r)
      PROVE  ProviderLane!Next \/ UNCHANGED ProviderLane!vars
  BY <1>1, ReceivedByLane
<1>2. ASSUME NEW r \in Req, Handle(r)
      PROVE  ProviderLane!Next \/ UNCHANGED ProviderLane!vars
  BY <1>2, <1>l DEF Handle, Queue, QueueTimeout, TotalTimeout, Execute, PrepareFails,
     PathRefused, ForwardStart, ForwardReturn, StopHeartbeat, JoinHeartbeat, Settle
<1>3. ASSUME NEW r \in Req,
             Heartbeat(r) \/ HeartbeatEnds(r) \/ UpstreamEnds(r) \/ LateCompletion(r)
      PROVE  ProviderLane!Next \/ UNCHANGED ProviderLane!vars
  BY <1>3, <1>l DEF Heartbeat, HeartbeatEnds, UpstreamEnds, LateCompletion
<1>4. CASE StatusQuery \/ Tick
  BY <1>4 DEF StatusQuery, Tick
<1>5. CASE UNCHANGED vars
  BY <1>5, <1>l DEF vars
<1> QED  BY <1>1, <1>2, <1>3, <1>4, <1>5 DEF Next

LEMMA ForwardPart == [Next]_vars => [Forward!Next]_(Forward!vars)
<1> SUFFICES ASSUME [Next]_vars PROVE Forward!Next \/ UNCHANGED Forward!vars
  OBVIOUS
<1> USE DEF Forward!Next
<1>l. UNCHANGED upstreamVars => UNCHANGED Forward!vars
  BY DEF upstreamVars, Forward!vars
<1>1. ASSUME NEW r \in Req, Receive(r) \/ Handle(r)
      PROVE  Forward!Next \/ UNCHANGED Forward!vars
  BY <1>1, <1>l DEF Receive, Handle, Queue, QueueTimeout, TotalTimeout, Execute,
     PrepareFails, PathRefused, ForwardStart, ForwardReturn, StopHeartbeat,
     JoinHeartbeat, Settle
<1>2. ASSUME NEW r \in Req,
             Heartbeat(r) \/ HeartbeatEnds(r) \/ UpstreamEnds(r) \/ LateCompletion(r)
      PROVE  Forward!Next \/ UNCHANGED Forward!vars
  BY <1>2, <1>l DEF Heartbeat, HeartbeatEnds, UpstreamEnds, LateCompletion
<1>3. CASE StatusQuery \/ Tick
  BY <1>3, <1>l DEF StatusQuery, Tick
<1>4. CASE UNCHANGED vars
  BY <1>4, <1>l DEF vars
<1> QED  BY <1>1, <1>2, <1>3, <1>4 DEF Next

\* The gateway calls acquire(), heartbeat(), release() and status() of its lane
\* only as Lane says they may be called, and forward() as UpstreamCall does:
\* late completions release a lease that was granted, nothing starts twice.
THEOREM GatewayComposes == Spec => ProviderLane!Spec /\ Forward!Spec
BY LanePart, ForwardPart, PTL
   DEF Spec, Init, ProviderLane!Spec, Forward!Spec
-----------------------------------------------------------------------------
(***************************************************************************)
(* What the lane's own invariant says of the gateway's lane.               *)
(***************************************************************************)

\* The lane's assumptions follow from the gateway's.
LEMMA LaneAssumed == LaneTheorems!LaneAssumption
BY GatewayAssumption DEF LaneTheorems!LaneAssumption, Flow

\* Each instance has a FiniteSets of its own, with the same definitions.
LEMMA SameSets ==
    ASSUME NEW S
    PROVE  /\ LaneTheorems!IsFiniteSet(S) <=> IsFiniteSet(S)
           /\ LaneTheorems!Cardinality(S) = Cardinality(S)
           /\ ProviderLane!Cardinality(S) = Cardinality(S)
<1>1. LaneTheorems!Cardinality(S) = Cardinality(S)
  BY DEF LaneTheorems!Cardinality, Cardinality
<1>2. ProviderLane!Cardinality(S) = Cardinality(S)
  BY DEF ProviderLane!Cardinality, Cardinality
<1> QED  BY <1>1, <1>2 DEF LaneTheorems!IsFiniteSet, IsFiniteSet

\* The lane of the gateway is the lane of LaneProofs.
LEMMA SameLane ==
    /\ ProviderLane!Init <=> LaneTheorems!Init
    /\ [ProviderLane!Next]_(ProviderLane!vars) <=> [LaneTheorems!Next]_(LaneTheorems!vars)
<1>1. ProviderLane!Init <=> LaneTheorems!Init
  BY DEF ProviderLane!Init, LaneTheorems!Init
<1>2. /\ ProviderLane!Expired = LaneTheorems!Expired
      /\ ProviderLane!Live = LaneTheorems!Live
      /\ ProviderLane!StillAsleep = LaneTheorems!StillAsleep
      /\ ProviderLane!IdleAfterExpiry = LaneTheorems!IdleAfterExpiry
      /\ UNCHANGED ProviderLane!queueVars <=> UNCHANGED LaneTheorems!queueVars
      /\ UNCHANGED ProviderLane!vars <=> UNCHANGED LaneTheorems!vars
  BY DEF ProviderLane!Expired, ProviderLane!Live, ProviderLane!StillAsleep,
         ProviderLane!IdleAfterExpiry, ProviderLane!queueVars, ProviderLane!vars,
         LaneTheorems!Expired, LaneTheorems!Live, LaneTheorems!StillAsleep,
         LaneTheorems!IdleAfterExpiry, LaneTheorems!queueVars, LaneTheorems!vars
<1>3. ProviderLane!ExpireOnly <=> LaneTheorems!ExpireOnly
  BY <1>2 DEF ProviderLane!ExpireOnly, LaneTheorems!ExpireOnly,
              ProviderLane!queueVars, LaneTheorems!queueVars
<1>4. ASSUME NEW c, NEW ahead
      PROVE  ProviderLane!Attempt(c, ahead) <=> LaneTheorems!Attempt(c, ahead)
  BY <1>2, SameSets DEF ProviderLane!Attempt, LaneTheorems!Attempt, ProviderLane!Admit,
     LaneTheorems!Admit, ProviderLane!GiveUp, LaneTheorems!GiveUp, ProviderLane!Wait,
     LaneTheorems!Wait, ProviderLane!HasTurn, LaneTheorems!HasTurn
<1>5. ASSUME NEW c
      PROVE  ProviderLane!Acquire(c) <=> LaneTheorems!Acquire(c)
  BY <1>2, <1>4 DEF ProviderLane!Acquire, LaneTheorems!Acquire, ProviderLane!AcquireEnter,
     LaneTheorems!AcquireEnter, ProviderLane!Recheck, LaneTheorems!Recheck,
     ProviderLane!PollElapsed, LaneTheorems!PollElapsed, ProviderLane!Ahead,
     LaneTheorems!Ahead, ProviderLane!queueVars, LaneTheorems!queueVars
<1>6. ASSUME NEW c, NEW timeout
      PROVE  ProviderLane!AcquireStart(c, timeout) <=> LaneTheorems!AcquireStart(c, timeout)
  BY DEF ProviderLane!AcquireStart, LaneTheorems!AcquireStart
<1>7. ASSUME NEW h, NEW c
      PROVE  /\ ProviderLane!Heartbeat(h, c) <=> LaneTheorems!Heartbeat(h, c)
             /\ ProviderLane!AcquireReentrant(h, c) <=> LaneTheorems!AcquireReentrant(h, c)
             /\ ProviderLane!Release(h, c) <=> LaneTheorems!Release(h, c)
  BY <1>2, <1>3 DEF ProviderLane!Heartbeat, LaneTheorems!Heartbeat,
     ProviderLane!AcquireReentrant, LaneTheorems!AcquireReentrant, ProviderLane!Renew,
     LaneTheorems!Renew, ProviderLane!Release, LaneTheorems!Release,
     ProviderLane!HeldBy, LaneTheorems!HeldBy
<1>8. /\ ProviderLane!Status <=> LaneTheorems!Status
      /\ ProviderLane!Tick <=> LaneTheorems!Tick
  BY <1>3 DEF ProviderLane!Status, LaneTheorems!Status, ProviderLane!Tick,
     LaneTheorems!Tick, ProviderLane!Countdown, LaneTheorems!Countdown
<1> QED
  BY <1>1, <1>2, <1>5, <1>6, <1>7, <1>8 DEF ProviderLane!Next, LaneTheorems!Next

LEMMA LaneInvariant == Spec => []LaneTheorems!LaneInv
<1>1. ProviderLane!Spec => LaneTheorems!Spec
  BY SameLane, PTL DEF ProviderLane!Spec, LaneTheorems!Spec
<1>2. LaneTheorems!Spec => []LaneTheorems!LaneInv
  BY LaneTheorems!LaneInvariant, LaneAssumed
<1> QED  BY <1>1, <1>2, GatewayComposes, PTL

\* The part of it that the gateway relies on.
LaneFacts ==
    /\ ProviderLane!TypeOK
    /\ \A r \in Req : r \in waiters <=> phase[r] = "waiting"
    /\ \A r \in leases : phase[r] = "admitted"
    /\ IsFiniteSet(leases)
    /\ Cardinality(leases) <= Capacity

LEMMA LaneFactsHold == LaneTheorems!LaneInv => LaneFacts
BY SameSets DEF LaneFacts, ProviderLane!TypeOK, ProviderLane!Phases, LaneTheorems!LaneInv,
       LaneTheorems!TypeOK, LaneTheorems!Phases, LaneTheorems!Finite,
       LaneTheorems!Bookkeeping, LaneTheorems!CapacityBound
-----------------------------------------------------------------------------
(***************************************************************************)
(* What one call does to the lane, as far as the gateway sees it.          *)
(***************************************************************************)

\* The leases of others, as long as they have not lapsed, and their phases.
OthersKept(r) ==
    \A q \in Req \ {r} :
        /\ phase'[q] = phase[q] /\ ttl'[q] = ttl[q]
        /\ q \in waiters' <=> q \in waiters
        /\ q \in leases /\ ttl[q] > 0 => q \in leases'
        /\ q \in leases' => q \in leases

\* acquire() of one request: it stays in acquire(), is admitted with a fresh
\* lease, or gives up.
LEMMA AcquireEffect ==
    ASSUME LaneFacts, NEW r \in Req, ProviderLane!Acquire(r)
    PROVE  /\ OthersKept(r)
           /\ phase'[r] \in {"waiting", "admitted", "timedout"}
           /\ phase'[r] = "admitted" => r \in leases' /\ ttl'[r] = LeaseSeconds
           /\ phase[r] \in {"entering", "waiting"}
<1> USE GatewayAssumption DEF LaneFacts, ProviderLane!TypeOK, ProviderLane!Phases,
        OthersKept
<1>1. ASSUME NEW ahead, ProviderLane!Attempt(r, ahead)
      PROVE  /\ OthersKept(r)
             /\ phase'[r] \in {"waiting", "admitted", "timedout"}
             /\ phase'[r] = "admitted" => r \in leases' /\ ttl'[r] = LeaseSeconds
  BY <1>1 DEF ProviderLane!Attempt, ProviderLane!Admit, ProviderLane!GiveUp,
     ProviderLane!Wait, ProviderLane!Live, ProviderLane!Expired
<1>2. CASE ProviderLane!AcquireEnter(r)
  BY <1>1, <1>2 DEF ProviderLane!AcquireEnter
<1>3. CASE ProviderLane!Recheck(r)
  BY <1>1, <1>3 DEF ProviderLane!Recheck
<1>4. CASE ProviderLane!PollElapsed(r)
  BY <1>4 DEF ProviderLane!PollElapsed, ProviderLane!queueVars
<1> QED  BY <1>2, <1>3, <1>4 DEF ProviderLane!Acquire

\* release(): the lease is gone, whether it was held or had lapsed.
LEMMA ReleaseEffect ==
    ASSUME LaneFacts, NEW r \in Req, ProviderLane!Release(Flow, r)
    PROVE  /\ OthersKept(r)
           /\ phase' = phase /\ waiters' = waiters
           /\ r \notin leases' /\ ttl'[r] <= ttl[r]
BY GatewayAssumption DEF LaneFacts, ProviderLane!TypeOK, OthersKept, ProviderLane!Release,
   ProviderLane!HeldBy, ProviderLane!ExpireOnly, ProviderLane!Live,
   ProviderLane!Expired, ProviderLane!queueVars

\* heartbeat(): a lease that has not lapsed has its full term again.
LEMMA HeartbeatEffect ==
    ASSUME LaneFacts, NEW r \in Req, ProviderLane!Heartbeat(Flow, r)
    PROVE  /\ OthersKept(r)
           /\ phase' = phase /\ waiters' = waiters /\ leases' \subseteq leases
           /\ r \in leases /\ ttl[r] > 0 => r \in leases' /\ ttl'[r] = LeaseSeconds
           /\ r \in leases /\ r \notin leases' => ttl[r] = 0
BY GatewayAssumption DEF LaneFacts, ProviderLane!TypeOK, OthersKept, ProviderLane!Heartbeat,
   ProviderLane!Renew, ProviderLane!HeldBy, ProviderLane!ExpireOnly, ProviderLane!Live,
   ProviderLane!Expired, ProviderLane!queueVars

\* status(): only what has lapsed is collected.
LEMMA StatusEffect ==
    ASSUME LaneFacts, ProviderLane!Status
    PROVE  /\ phase' = phase /\ waiters' = waiters /\ ttl' = ttl
           /\ leases' \subseteq leases
           /\ \A r \in leases \ leases' : ttl[r] = 0
BY DEF LaneFacts, ProviderLane!TypeOK, ProviderLane!Status, ProviderLane!ExpireOnly,
   ProviderLane!Live, ProviderLane!Expired, ProviderLane!queueVars
-----------------------------------------------------------------------------
(***************************************************************************)
(* The inductive invariant, request by request: where it stands in the     *)
(* gateway, in the lane and in forward(), whether its heartbeat runs, and  *)
(* how much of its lease is left.                                          *)
(***************************************************************************)
BeforeForward == {"new", "queueing", "preparing"}
AfterForward  == {"unwinding", "joining", "settling", "answered"}
UnderLease    == {"preparing", "forwarding"}
Refusals      == Answers \ {"upstream_result", "exception"}

\* It calls acquire() once, and goes on only when admitted.
AtLane(r) ==
    /\ stage[r] = "new" => phase[r] = "new"
    /\ stage[r] \in UnderLease \cup {"unwinding", "joining", "settling"} =>
          phase[r] = "admitted"
    /\ stage[r] = "answered" => phase[r] \in {"new", "timedout", "admitted"}

\* It calls forward() at most once, and its answer says whether it did.
AtUpstream(r) ==
    /\ stage[r] \in BeforeForward => call[r] = "idle" /\ answer[r] = "none"
    /\ stage[r] = "forwarding" => call[r] = "pending" /\ answer[r] = "none"
    /\ stage[r] \in AfterForward =>
          /\ answer[r] = "upstream_result" <=> call[r] # "idle"
          /\ call[r] # "pending"
    /\ stage[r] \in {"unwinding", "joining", "settling"} =>
          answer[r] \in {"unavailable", "exception", "upstream_result"}
    /\ call[r] = "idle" <=> upstream[r] = "idle"
    /\ call[r] = "confirmed" => upstream[r] = "stopped"

\* The heartbeat thread runs from admission until the finally clause stops it,
\* and has ended when join() returns.
Beats(r) ==
    /\ stage[r] \in UnderLease \cup {"unwinding"} => r \in beating
    /\ r \in beating => stage[r] \in UnderLease \cup {"unwinding", "joining"}

\* The lease is fresh when the heartbeat thread is started, and from then on as
\* old as its last heartbeat.
Leased(r) ==
    /\ stage[r] = "queueing" /\ phase[r] = "admitted" =>
          r \in leases /\ ttl[r] = LeaseSeconds
    /\ stage[r] \in UnderLease =>
          r \in leases /\ ttl[r] = LeaseSeconds - Interval + beat[r]

\* A refused request is not in the provider's hands and has no slot.
Refused(r) ==
    stage[r] = "answered" /\ answer[r] \in Refusals =>
        upstream[r] = "idle" /\ r \notin leases

RequestInv(r) == AtLane(r) /\ AtUpstream(r) /\ Beats(r) /\ Leased(r) /\ Refused(r)

GateTypes ==
    /\ stage \in [Req -> Stages]
    /\ answer \in [Req -> Answers \cup {"none"}]
    /\ beating \subseteq Req
    /\ beat \in [Req -> -Slack..Interval]
    /\ call \in [Req -> Forward!Told]
    /\ upstream \in [Req -> {"idle", "running", "stopped", "unknown"}]

GateInv == GateTypes /\ \A r \in Req : RequestInv(r)

LEMMA IntervalType == Interval \in Nat /\ LeaseSeconds - Interval > Slack
BY GatewayAssumption DEF Interval

LEMMA GateInit == Init => GateInv
<1> SUFFICES ASSUME Init PROVE GateInv
  OBVIOUS
<1>1. GateTypes
  BY IntervalType, GatewayAssumption
     DEF Init, GateTypes, Stages, Forward!Init, Forward!Told
<1>2. ASSUME NEW r \in Req PROVE RequestInv(r)
  BY DEF Init, RequestInv, AtLane, AtUpstream, Beats, Leased, Refused, UnderLease,
         BeforeForward, AfterForward, ProviderLane!Init, Forward!Init
<1> QED  BY <1>1, <1>2 DEF GateInv

\* Types, by what each action assigns.
LEMMA TypesStep == GateTypes /\ [Next]_vars => GateTypes'
<1> SUFFICES ASSUME GateTypes, [Next]_vars PROVE GateTypes'
  OBVIOUS
<1> USE IntervalType, GatewayAssumption
    DEF GateTypes, Stages, Answers, Go, Conclude, requestVars, beatVars, upstreamVars
<1>1. ASSUME NEW r \in Req, Receive(r) PROVE GateTypes'
  BY <1>1 DEF Receive, EarlyOutcome
<1>2. ASSUME NEW r \in Req, Queue(r) \/ QueueTimeout(r) \/ TotalTimeout(r)
      PROVE  GateTypes'
  BY <1>2 DEF Queue, QueueTimeout, TotalTimeout
<1>3. ASSUME NEW r \in Req, Execute(r) \/ PrepareFails(r) \/ PathRefused(r)
      PROVE  GateTypes'
  BY <1>3 DEF Execute, PrepareFails, PathRefused
<1>4. ASSUME NEW r \in Req, ForwardStart(r) \/ ForwardReturn(r)
      PROVE  GateTypes'
  BY <1>4 DEF ForwardStart, ForwardReturn, Forward!Start, Forward!Answer,
              Forward!GiveUp, Forward!Told
<1>5. ASSUME NEW r \in Req, Settle(r) \/ Heartbeat(r) PROVE GateTypes'
  BY <1>5 DEF Settle, Heartbeat
<1>6. ASSUME NEW r \in Req, UpstreamEnds(r) \/ LateCompletion(r) PROVE GateTypes'
  BY <1>6 DEF UpstreamEnds, LateCompletion, Forward!Finish, Forward!ReportLate,
              Forward!Told
<1>7. CASE StatusQuery \/ UNCHANGED vars
  BY <1>7 DEF StatusQuery, vars
<1>8. CASE Tick
  BY <1>8 DEF Tick, Prompt
<1>9. ASSUME NEW r \in Req,
             StopHeartbeat(r) \/ JoinHeartbeat(r) \/ HeartbeatEnds(r)
      PROVE  GateTypes'
  BY <1>9 DEF StopHeartbeat, JoinHeartbeat, HeartbeatEnds
<1> QED  BY <1>1, <1>2, <1>3, <1>4, <1>5, <1>6, <1>7, <1>8, <1>9 DEF Next, Handle
-----------------------------------------------------------------------------
(***************************************************************************)
(* The invariant is preserved.  Requests meet only in the lane, so a step  *)
(* of one leaves what the invariant says of the others as it was.          *)
(***************************************************************************)
OwnStateKept(q) ==
    /\ stage'[q] = stage[q] /\ answer'[q] = answer[q]
    /\ call'[q] = call[q] /\ upstream'[q] = upstream[q]
    /\ beat'[q] = beat[q] /\ (q \in beating' <=> q \in beating)

LaneStateKept(q) ==
    /\ phase'[q] = phase[q] /\ ttl'[q] = ttl[q]
    /\ q \in leases /\ ttl[q] > 0 => q \in leases'
    /\ q \in leases' => q \in leases

LEMMA KeptKeeps ==
    ASSUME GateInv, NEW q \in Req, OwnStateKept(q), LaneStateKept(q)
    PROVE  RequestInv(q)'
<1>1. RequestInv(q) /\ beat[q] \in -Slack..Interval
  BY DEF GateInv, GateTypes
<1>2. AtLane(q)' /\ AtUpstream(q)' /\ Beats(q)' /\ Refused(q)'
  BY <1>1 DEF RequestInv, OwnStateKept, LaneStateKept, AtLane, AtUpstream, Beats, Refused
<1>3. Leased(q)'
  BY <1>1, IntervalType, GatewayAssumption
     DEF RequestInv, OwnStateKept, LaneStateKept, Leased
<1> QED  BY <1>2, <1>3 DEF RequestInv

LEMMA OthersStep ==
    ASSUME GateInv, LaneFacts, NEW r \in Req, NEW q \in Req \ {r},
           \/ Receive(r) \/ Handle(r)
           \/ Heartbeat(r) \/ HeartbeatEnds(r) \/ UpstreamEnds(r) \/ LateCompletion(r)
    PROVE  RequestInv(q)'
<1> USE DEF Go, Conclude, requestVars, beatVars, laneVars, upstreamVars,
            LaneFacts, ProviderLane!TypeOK, GateInv, GateTypes
<1>1. OwnStateKept(q)
  <2>1. CASE Receive(r)
    BY <2>1 DEF Receive, OwnStateKept
  <2>2. CASE Handle(r)
    BY <2>2 DEF Handle, Queue, QueueTimeout, TotalTimeout, Execute, PrepareFails,
       PathRefused, ForwardStart, ForwardReturn, StopHeartbeat, JoinHeartbeat,
       Settle, OwnStateKept,
       Forward!Start, Forward!Answer, Forward!GiveUp
  <2>3. CASE Heartbeat(r) \/ HeartbeatEnds(r) \/ UpstreamEnds(r) \/ LateCompletion(r)
    BY <2>3 DEF Heartbeat, HeartbeatEnds, UpstreamEnds, LateCompletion, OwnStateKept,
       Forward!Finish, Forward!ReportLate
  <2> QED  BY <2>1, <2>2, <2>3
<1>2. LaneStateKept(q)
  <2>1. OthersKept(r) => LaneStateKept(q)
    BY DEF OthersKept, LaneStateKept
  <2>2. UNCHANGED laneVars => LaneStateKept(q)
    BY DEF LaneStateKept
  <2>3. CASE Receive(r)
    BY <2>2, <2>3 DEF Receive, ProviderLane!AcquireStart, LaneStateKept
  <2>4. CASE Handle(r)
    BY <2>1, <2>2, <2>4, AcquireEffect, ReleaseEffect
       DEF Handle, Queue, QueueTimeout, TotalTimeout, Execute, PrepareFails,
       PathRefused, ForwardStart, ForwardReturn, StopHeartbeat, JoinHeartbeat, Settle
  <2>5. CASE Heartbeat(r) \/ HeartbeatEnds(r) \/ UpstreamEnds(r) \/ LateCompletion(r)
    BY <2>1, <2>2, <2>5, HeartbeatEffect, ReleaseEffect
       DEF Heartbeat, HeartbeatEnds, UpstreamEnds, LateCompletion
  <2> QED  BY <2>3, <2>4, <2>5
<1> QED  BY <1>1, <1>2, KeptKeeps

\* The request's own steps, up to the start of its heartbeat.
LEMMA QueueStep ==
    ASSUME GateInv, LaneFacts, NEW r \in Req,
           Receive(r) \/ Queue(r) \/ QueueTimeout(r) \/ TotalTimeout(r) \/ Execute(r)
    PROVE  RequestInv(r)'
<1> USE DEF Go, Conclude, requestVars, beatVars, laneVars, upstreamVars, LaneFacts,
            ProviderLane!TypeOK, ProviderLane!Phases, GateInv, GateTypes, RequestInv,
            AtLane, AtUpstream, Beats, Leased, Refused, BeforeForward, AfterForward,
            UnderLease, Refusals, Answers
<1>1. CASE Receive(r)
  BY <1>1 DEF Receive, EarlyOutcome, ProviderLane!AcquireStart
<1>2. CASE Queue(r)
  BY <1>2, AcquireEffect DEF Queue
<1>3. CASE QueueTimeout(r)
  BY <1>3 DEF QueueTimeout
<1>4. CASE TotalTimeout(r)
  BY <1>4, ReleaseEffect DEF TotalTimeout
<1>5. CASE Execute(r)
  BY <1>5, IntervalType, GatewayAssumption DEF Execute
<1> QED  BY <1>1, <1>2, <1>3, <1>4, <1>5

\* And from there to its answer.
LEMMA ExecuteStep ==
    ASSUME GateInv, LaneFacts, NEW r \in Req,
           \/ PrepareFails(r) \/ PathRefused(r) \/ ForwardStart(r) \/ ForwardReturn(r)
           \/ StopHeartbeat(r) \/ JoinHeartbeat(r) \/ Settle(r)
    PROVE  RequestInv(r)'
<1> USE DEF Go, Conclude, requestVars, beatVars, laneVars, upstreamVars, LaneFacts,
            ProviderLane!TypeOK, ProviderLane!Phases, GateInv, GateTypes, RequestInv,
            AtLane, AtUpstream, Beats, Leased, Refused, BeforeForward, AfterForward,
            UnderLease, Refusals, Answers
<1>1. CASE PrepareFails(r) \/ PathRefused(r)
  BY <1>1 DEF PrepareFails, PathRefused
<1>2. CASE ForwardStart(r)
  BY <1>2 DEF ForwardStart, Forward!Start
<1>3. CASE ForwardReturn(r)
  BY <1>3 DEF ForwardReturn, Forward!Answer, Forward!GiveUp, Forward!Ended
<1>4. CASE StopHeartbeat(r) \/ JoinHeartbeat(r)
  BY <1>4 DEF StopHeartbeat, JoinHeartbeat
<1>5. CASE Settle(r)
  BY <1>5, ReleaseEffect DEF Settle, ConfirmedIdle
<1> QED  BY <1>1, <1>2, <1>3, <1>4, <1>5

\* What its other threads do.
LEMMA BesideStep ==
    ASSUME GateInv, LaneFacts, NEW r \in Req,
           Heartbeat(r) \/ HeartbeatEnds(r) \/ UpstreamEnds(r) \/ LateCompletion(r)
    PROVE  RequestInv(r)'
<1> USE DEF requestVars, beatVars, laneVars, upstreamVars, LaneFacts,
            ProviderLane!TypeOK, GateInv, GateTypes, RequestInv,
            AtLane, AtUpstream, Beats, Leased, Refused, BeforeForward, AfterForward,
            UnderLease, Refusals, Answers
<1>1. CASE Heartbeat(r)
  BY <1>1, HeartbeatEffect, IntervalType, GatewayAssumption DEF Heartbeat
<1>2. CASE UpstreamEnds(r)
  BY <1>2 DEF UpstreamEnds, Forward!Finish
<1>3. CASE LateCompletion(r)
  BY <1>3, ReleaseEffect DEF LateCompletion, Forward!ReportLate, Forward!Ended
<1>4. CASE HeartbeatEnds(r)
  BY <1>4 DEF HeartbeatEnds
<1> QED  BY <1>1, <1>2, <1>3, <1>4

\* A tick ages every lease and every heartbeat by the same amount, and happens
\* only if all heartbeats are in time.
LEMMA TickStep ==
    ASSUME GateInv, LaneFacts, Tick, NEW r \in Req
    PROVE  RequestInv(r)'
<1> USE DEF requestVars, upstreamVars, LaneFacts, ProviderLane!TypeOK, GateInv,
            GateTypes, RequestInv, Tick, ProviderLane!Tick
<1>1. AtLane(r)' /\ AtUpstream(r)' /\ Beats(r)' /\ Refused(r)'
  BY DEF AtLane, AtUpstream, Beats, Refused
<1>2. Leased(r)'
  <2>1. ~(stage[r] = "queueing" /\ phase[r] = "admitted")
    BY DEF Prompt
  <2>2. CASE stage[r] \in UnderLease
    <3>1. r \in beating /\ r \in leases /\ ttl[r] = LeaseSeconds - Interval + beat[r]
      BY <2>2 DEF Beats, Leased
    <3>2. beat[r] \in Int /\ beat[r] > -Slack /\ beat'[r] = beat[r] - 1
      BY <2>2, <3>1, GatewayAssumption DEF Prompt, UnderLease
    <3>3. ttl[r] > 0 /\ ttl'[r] = ttl[r] - 1
      BY <3>1, <3>2, IntervalType, GatewayAssumption DEF ProviderLane!Countdown
    <3> QED  BY <2>2, <3>1, <3>2, <3>3, IntervalType, GatewayAssumption
             DEF Leased, UnderLease
  <2> QED  BY <2>1, <2>2 DEF Leased
<1> QED  BY <1>1, <1>2

LEMMA GateStep == GateInv /\ LaneFacts /\ [Next]_vars => GateInv'
<1> SUFFICES ASSUME GateInv, LaneFacts, [Next]_vars, NEW q \in Req
             PROVE  RequestInv(q)'
  BY TypesStep DEF GateInv
<1>1. ASSUME NEW r \in Req,
             \/ Receive(r) \/ Handle(r)
             \/ Heartbeat(r) \/ HeartbeatEnds(r) \/ UpstreamEnds(r) \/ LateCompletion(r)
      PROVE  RequestInv(q)'
  BY <1>1, OthersStep, QueueStep, ExecuteStep, BesideStep DEF Handle
<1>2. CASE StatusQuery
  <2>1. OwnStateKept(q)
    BY <1>2 DEF StatusQuery, requestVars, beatVars, upstreamVars, OwnStateKept
  <2>2. LaneStateKept(q)
    BY <1>2, StatusEffect DEF StatusQuery, LaneStateKept
  <2> QED  BY <2>1, <2>2, KeptKeeps
<1>3. CASE Tick
  BY <1>3, TickStep
<1>4. CASE UNCHANGED vars
  BY <1>4, KeptKeeps DEF vars, requestVars, beatVars, laneVars, upstreamVars,
     OwnStateKept, LaneStateKept
<1> QED  BY <1>1, <1>2, <1>3, <1>4 DEF Next

LEMMA GateInvariant == Spec => [](GateInv /\ LaneFacts)
<1>1. Spec => []LaneFacts
  BY LaneInvariant, LaneFactsHold, PTL
<1> QED  BY <1>1, GateInit, GateStep, PTL DEF Spec
-----------------------------------------------------------------------------
\* Every variable of the gateway keeps its type; in particular no heartbeat of a
\* request that holds a slot is ever further behind than Slack.
THEOREM GatewayTypeCorrect == Spec => []TypeOK
<1>1. GateInv /\ LaneFacts => TypeOK
  BY DEF GateInv, GateTypes, LaneFacts, TypeOK
<1> QED  BY <1>1, GateInvariant, PTL

\* While a caller waits for the upstream its request has a lease that has not
\* lapsed, for every lease term that leaves a third and the delay of a heartbeat.
THEOREM GatewayHolds == Spec => []HeldWhileForwarding
<1>1. GateInv => HeldWhileForwarding
  <2> SUFFICES ASSUME GateInv, NEW r \in Req, stage[r] \in UnderLease
               PROVE  r \in leases /\ ttl[r] > 0
    BY DEF HeldWhileForwarding, UnderLease
  <2>1. r \in leases /\ ttl[r] = LeaseSeconds - Interval + beat[r]
    BY DEF GateInv, RequestInv, Leased
  <2>2. beat[r] \in -Slack..Interval
    BY DEF GateInv, GateTypes
  <2> QED  BY <2>1, <2>2, IntervalType, GatewayAssumption
<1> QED  BY <1>1, GateInvariant, PTL

\* So the requests whose callers wait for the upstream are at most as many as
\* there are leases, and the lane bounds those by the concurrency limit.
THEOREM GatewayAwaited == Spec => []AwaitedWithinLimit
<1>1. GateInv /\ LaneFacts => AwaitedWithinLimit
  <2> SUFFICES ASSUME GateInv, LaneFacts PROVE AwaitedWithinLimit
    OBVIOUS
  <2> DEFINE awaited == {r \in Req : stage[r] = "forwarding"}
  <2>1. awaited \in SUBSET leases
    BY DEF GateInv, RequestInv, Leased, UnderLease
  <2>2. IsFiniteSet(leases) /\ Cardinality(leases) <= Capacity
    BY DEF LaneFacts
  <2>3. IsFiniteSet(awaited) /\ Cardinality(awaited) <= Cardinality(leases)
    BY <2>1, <2>2, FS_Subset
  <2>4. Cardinality(awaited) \in Nat /\ Cardinality(leases) \in Nat
    BY <2>2, <2>3, FS_CardinalityType
  <2> QED  BY <2>2, <2>3, <2>4, GatewayAssumption DEF AwaitedWithinLimit
<1> QED  BY <1>1, GateInvariant, PTL

\* A refusal by the gateway itself means that no upstream attempt was made, and
\* leaves neither a lease nor a ticket behind.
THEOREM GatewayRefusals == Spec => []RefusedWithoutAttempt
<1>1. GateInv /\ LaneFacts => RefusedWithoutAttempt
  BY DEF GateInv, RequestInv, AtLane, Refused, Refusals, LaneFacts,
         RefusedWithoutAttempt
<1> QED  BY <1>1, GateInvariant, PTL

\* Whoever frees a slot before its lease lapsed knows that the upstream is not
\* at work for it: it was never asked, or the connection is confirmed closed.
THEOREM GatewayFreesIdle == Spec => FreedOnlyWhenIdle
<1>1. GateInv /\ LaneFacts /\ [Next]_vars
        => [\A r \in leases : r \notin leases' =>
               ttl[r] = 0 \/ upstream[r] \in {"idle", "stopped"}]_vars
  <2> SUFFICES ASSUME GateInv, LaneFacts, [Next]_vars,
                      NEW r \in leases, r \notin leases'
               PROVE  ttl[r] = 0 \/ upstream[r] \in {"idle", "stopped"}
    OBVIOUS
  <2> USE DEF LaneFacts, ProviderLane!TypeOK, laneVars
  <2>0. r \in Req /\ ttl[r] \in Nat /\ RequestInv(r)
    BY GatewayAssumption DEF GateInv
  <2>1. ASSUME NEW q \in Req, OthersKept(q), q # r
        PROVE  ttl[r] = 0
    BY <2>0, <2>1 DEF OthersKept
  <2>2. ASSUME NEW q \in Req, Receive(q)
        PROVE  ttl[r] = 0
    BY <2>2 DEF Receive, ProviderLane!AcquireStart
  <2>3. ASSUME NEW q \in Req, Queue(q)
        PROVE  ttl[r] = 0
    <3>1. OthersKept(q) /\ phase[q] \in {"entering", "waiting"}
      BY <2>3, AcquireEffect DEF Queue
    <3> QED  BY <2>1, <3>1
  <2>4. ASSUME NEW q \in Req, TotalTimeout(q)
        PROVE  ttl[r] = 0 \/ upstream[r] \in {"idle", "stopped"}
    BY <2>0, <2>1, <2>4, ReleaseEffect
       DEF TotalTimeout, RequestInv, AtUpstream, BeforeForward
  <2>5. ASSUME NEW q \in Req, Settle(q)
        PROVE  ttl[r] = 0 \/ upstream[r] \in {"idle", "stopped"}
    BY <2>0, <2>1, <2>5, ReleaseEffect
       DEF Settle, ConfirmedIdle, RequestInv, AtUpstream, AfterForward
  <2>6. ASSUME NEW q \in Req, Heartbeat(q)
        PROVE  ttl[r] = 0
    BY <2>1, <2>6, HeartbeatEffect DEF Heartbeat
  <2>7. ASSUME NEW q \in Req, LateCompletion(q)
        PROVE  ttl[r] = 0 \/ upstream[r] \in {"idle", "stopped"}
    BY <2>1, <2>7, ReleaseEffect DEF LateCompletion
  <2>8. CASE StatusQuery
    BY <2>8, StatusEffect DEF StatusQuery
  <2>9. CASE Tick \/ UNCHANGED vars
    BY <2>9 DEF Tick, ProviderLane!Tick, vars
  <2> QED
    BY <2>2, <2>3, <2>4, <2>5, <2>6, <2>7, <2>8, <2>9
       DEF Next, Handle, QueueTimeout, Execute, PrepareFails, PathRefused, ForwardStart,
       ForwardReturn, StopHeartbeat, JoinHeartbeat, HeartbeatEnds, UpstreamEnds
<1> QED  BY <1>1, GateInvariant, PTL DEF Spec, FreedOnlyWhenIdle

\* The lease of an answered request only runs out: neither its heartbeat thread
\* nor anybody else's call gives it more time.
THEOREM GatewayQuarantine == Spec => QuarantineNeverRenewed
<1>1. GateInv /\ LaneFacts /\ [Next]_vars
        => [\A r \in Req : stage[r] = "answered" => ttl'[r] <= ttl[r]]_vars
  <2> SUFFICES ASSUME GateInv, LaneFacts, [Next]_vars,
                      NEW r \in Req, stage[r] = "answered"
               PROVE  ttl'[r] <= ttl[r]
    OBVIOUS
  <2> USE DEF LaneFacts, ProviderLane!TypeOK, laneVars
  <2>0. ttl[r] \in Nat /\ r \notin beating
    BY GatewayAssumption DEF GateInv, RequestInv, Beats, UnderLease
  <2>1. ASSUME NEW q \in Req, OthersKept(q), q # r
        PROVE  ttl'[r] <= ttl[r]
    BY <2>0, <2>1 DEF OthersKept
  <2>2. CASE UNCHANGED ttl
    BY <2>0, <2>2
  <2>3. ASSUME NEW q \in Req, Queue(q)
        PROVE  ttl'[r] <= ttl[r]
    BY <2>1, <2>3, AcquireEffect DEF Queue
  <2>4. ASSUME NEW q \in Req, TotalTimeout(q) \/ Settle(q) \/ LateCompletion(q)
        PROVE  ttl'[r] <= ttl[r]
    BY <2>1, <2>2, <2>4, ReleaseEffect DEF TotalTimeout, Settle, LateCompletion
  <2>5. ASSUME NEW q \in Req, Heartbeat(q)
        PROVE  ttl'[r] <= ttl[r]
    BY <2>0, <2>1, <2>5, HeartbeatEffect DEF Heartbeat
  <2>6. CASE StatusQuery
    BY <2>0, <2>6, StatusEffect DEF StatusQuery
  <2>7. CASE Tick
    BY <2>0, <2>7 DEF Tick, ProviderLane!Tick, ProviderLane!Countdown
  <2> QED
    BY <2>2, <2>3, <2>4, <2>5, <2>6, <2>7
       DEF Next, Handle, Receive, ProviderLane!AcquireStart, QueueTimeout, Execute,
       PrepareFails, PathRefused, ForwardStart, ForwardReturn, StopHeartbeat, JoinHeartbeat,
       HeartbeatEnds, UpstreamEnds, vars
<1> QED  BY <1>1, GateInvariant, PTL DEF Spec, QuarantineNeverRenewed
=============================================================================
