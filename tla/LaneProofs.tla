----------------------------- MODULE LaneProofs -----------------------------
(***************************************************************************)
(* What is proved about the lane for every set of calls, every capacity,   *)
(* every lease time and every choice of timeouts.                          *)
(***************************************************************************)
EXTENDS Lane, FiniteSetTheorems, TLAPS

-----------------------------------------------------------------------------
(* Type correctness.                                                       *)

\* _expire() leaves the lane's variables in their types.
LEMMA ExpiryTypes ==
    ASSUME TypeOK
    PROVE  /\ Live \subseteq leases
           /\ StillAsleep \subseteq asleep
           /\ IdleAfterExpiry \in 0..MaxIdle
BY LaneAssumption DEF TypeOK, Live, StillAsleep, IdleAfterExpiry

\* One turn of the loop in acquire() does too, for a call it may admit.
LEMMA AttemptTypes ==
    ASSUME TypeOK, NEW c \in Call, NEW ahead, Attempt(c, ahead)
    PROVE  /\ phase' \in [Call -> Phases]
           /\ waiters' \subseteq Call
           /\ asleep' \subseteq waiters'
           /\ remaining' \in [Call -> Nat]
           /\ leases' \subseteq Call
           /\ ttl' \in [Call -> 0..LeaseSeconds]
           /\ idleSeconds' \in 0..MaxIdle
<1> USE LaneAssumption, ExpiryTypes DEF TypeOK, Phases
<1>1. CASE Admit(c, ahead)
  BY <1>1 DEF Admit
<1>2. CASE GiveUp(c, ahead)
  BY <1>2 DEF GiveUp
<1>3. CASE Wait(c, ahead)
  BY <1>3 DEF Wait
<1> QED  BY <1>1, <1>2, <1>3 DEF Attempt

\* The same of a call that changes nothing but what has lapsed.
LEMMA ExpireOnlyTypes ==
    ASSUME TypeOK, ExpireOnly
    PROVE  TypeOK'
BY ExpiryTypes DEF TypeOK, ExpireOnly, queueVars

\* Counting a timer down keeps it in its type.
LEMMA CountdownTypes ==
    /\ \A timer \in [Call -> Nat] : Countdown(timer) \in [Call -> Nat]
    /\ \A timer \in [Call -> 0..LeaseSeconds] :
          Countdown(timer) \in [Call -> 0..LeaseSeconds]
BY LaneAssumption DEF Countdown

LEMMA TypeStep == TypeOK /\ [Next]_vars => TypeOK'
<1> SUFFICES ASSUME TypeOK, [Next]_vars PROVE TypeOK'
  OBVIOUS
<1> USE LaneAssumption
<1>1. ASSUME NEW c \in Call, NEW timeout \in Timeouts, AcquireStart(c, timeout)
      PROVE  TypeOK'
  BY <1>1 DEF AcquireStart, TypeOK, Phases
<1>2. ASSUME NEW c \in Call, AcquireEnter(c)
      PROVE  TypeOK'
  BY <1>2, AttemptTypes DEF AcquireEnter, TypeOK
<1>3. ASSUME NEW c \in Call, Recheck(c)
      PROVE  TypeOK'
  BY <1>3, AttemptTypes DEF Recheck, TypeOK
<1>4. ASSUME NEW c \in Call, PollElapsed(c)
      PROVE  TypeOK'
  BY <1>4 DEF PollElapsed, TypeOK, queueVars
<1>5. ASSUME NEW h \in Holder, NEW c \in Call, Renew(h, c)
      PROVE  TypeOK'
  <2>1. CASE HeldBy(h, c) /\ ~ExpireOnly
    BY <1>5, <2>1, ExpiryTypes DEF Renew, TypeOK, queueVars
  <2>2. CASE ExpireOnly
    BY <2>2, ExpireOnlyTypes
  <2> QED  BY <1>5, <2>1, <2>2 DEF Renew
<1>6. ASSUME NEW h \in Holder, NEW c \in Call, Release(h, c)
      PROVE  TypeOK'
  <2>1. CASE HeldBy(h, c) /\ ~ExpireOnly
    BY <1>6, <2>1, ExpiryTypes DEF Release, TypeOK, queueVars
  <2>2. CASE ExpireOnly
    BY <2>2, ExpireOnlyTypes
  <2> QED  BY <1>6, <2>1, <2>2 DEF Release
<1>7. ASSUME Status PROVE TypeOK'
  BY <1>7, ExpireOnlyTypes DEF Status
<1>8. ASSUME Tick PROVE TypeOK'
  <2>1. idleSeconds' \in 0..MaxIdle
    BY <1>8 DEF Tick, TypeOK
  <2> QED  BY <1>8, <2>1, CountdownTypes DEF Tick, TypeOK
<1>9. ASSUME UNCHANGED vars PROVE TypeOK'
  BY <1>9 DEF vars, TypeOK
<1> QED
  BY <1>1, <1>2, <1>3, <1>4, <1>5, <1>6, <1>7, <1>8, <1>9
     DEF Next, Acquire, Heartbeat, AcquireReentrant

LEMMA TypeInit == Init => TypeOK
BY LaneAssumption DEF Init, TypeOK, Phases

\* Every reachable state of the lane is well typed: tickets, timers and leases
\* stay what lane.py's fields are, whatever the callers do.
THEOREM LaneTypeCorrect == Spec => []TypeOK
BY TypeInit, TypeStep, PTL DEF Spec
-----------------------------------------------------------------------------
(***************************************************************************)
(* The inductive invariant: sets are finite, the queue and the leases      *)
(* agree with where each call stands, tickets order the queue, and the     *)
(* leases fit the capacity.                                                *)
(***************************************************************************)
Finite == IsFiniteSet(waiters) /\ IsFiniteSet(leases)

Bookkeeping ==
    /\ \A c \in Call : c \in waiters <=> phase[c] = "waiting"
    /\ \A c \in leases : phase[c] = "admitted"

TicketOrder ==
    /\ \A c \in waiters \cup leases : ticketNo[c] < nextTicket
    /\ \A c, d \in waiters : ticketNo[c] = ticketNo[d] => c = d

LaneInv == TypeOK /\ Finite /\ Bookkeeping /\ TicketOrder /\ CapacityBound

-----------------------------------------------------------------------------
(* The arithmetic of turns.                                                *)

\* Fewer waiters in front and fewer leases never cost a turn.
LEMMA TurnMonotone ==
    ASSUME NEW A, NEW S, IsFiniteSet(A), IsFiniteSet(S), HasTurn(A, S),
           NEW B \in SUBSET A, NEW T \in SUBSET S
    PROVE  HasTurn(B, T)
<1>1. Cardinality(B) <= Cardinality(A) /\ Cardinality(A) \in Nat /\ Cardinality(B) \in Nat
  BY FS_Subset, FS_CardinalityType
<1>2. Cardinality(T) <= Cardinality(S) /\ Cardinality(S) \in Nat /\ Cardinality(T) \in Nat
  BY FS_Subset, FS_CardinalityType
<1> QED  BY <1>1, <1>2, LaneAssumption DEF HasTurn

\* A waiter in front of the call that is admitted has its own turn afterwards.
LEMMA PassedOver ==
    ASSUME NEW A, NEW S, IsFiniteSet(A), IsFiniteSet(S), HasTurn(A, S),
           NEW w \in A, NEW c, NEW B \in SUBSET (A \ {w})
    PROVE  HasTurn(B, S \cup {c})
<1>1. /\ Cardinality(A) \in Nat /\ Cardinality(A \ {w}) = Cardinality(A) - 1
      /\ IsFiniteSet(A \ {w})
  BY FS_RemoveElement, FS_CardinalityType
<1>2. Cardinality(B) <= Cardinality(A \ {w}) /\ Cardinality(B) \in Nat
  BY <1>1, FS_Subset, FS_CardinalityType
<1>3. /\ Cardinality(S) \in Nat
      /\ Cardinality(S \cup {c}) \in {Cardinality(S), Cardinality(S) + 1}
  BY FS_AddElement, FS_CardinalityType, Zenon
<1> QED  BY <1>1, <1>2, <1>3, LaneAssumption DEF HasTurn

\* A waiter behind the call that is admitted moves up by the slot it takes.
LEMMA MovedUp ==
    ASSUME NEW A, NEW S, IsFiniteSet(A), IsFiniteSet(S), HasTurn(A, S),
           NEW c \in A, NEW B \in SUBSET (A \ {c}), NEW T \in SUBSET S
    PROVE  HasTurn(B, T \cup {c})
<1>1. HasTurn(A, T) /\ IsFiniteSet(T)
  BY TurnMonotone, FS_Subset
<1> QED  BY <1>1, PassedOver

\* Admission in turn keeps the capacity.
LEMMA AdmissionFits ==
    ASSUME NEW A, NEW S, IsFiniteSet(A), IsFiniteSet(S), HasTurn(A, S), NEW c
    PROVE  Cardinality(S \cup {c}) <= Capacity /\ IsFiniteSet(S \cup {c})
<1>1. Cardinality(A) \in Nat /\ Cardinality(S) \in Nat
  BY FS_CardinalityType
<1>2. /\ IsFiniteSet(S \cup {c})
      /\ Cardinality(S \cup {c}) \in {Cardinality(S), Cardinality(S) + 1}
  BY FS_AddElement, Zenon
<1> QED  BY <1>1, <1>2, LaneAssumption DEF HasTurn

\* The leases that have not lapsed are finite and fit too.
LEMMA LiveFits ==
    ASSUME LaneInv, NEW L \in SUBSET leases
    PROVE  IsFiniteSet(L) /\ Cardinality(L) <= Capacity /\ L \subseteq Call
<1>1. IsFiniteSet(leases) /\ Cardinality(leases) <= Capacity
  BY DEF LaneInv, Finite, CapacityBound
<1>2. Cardinality(L) <= Cardinality(leases) /\ IsFiniteSet(L)
  BY <1>1, FS_Subset
<1>3. Cardinality(L) \in Nat /\ Cardinality(leases) \in Nat
  BY <1>1, <1>2, FS_CardinalityType
<1> QED  BY <1>1, <1>2, <1>3, LaneAssumption DEF LaneInv, TypeOK

-----------------------------------------------------------------------------
(* The invariant is preserved.                                             *)

\* By a step that queues nothing and grants nothing.
LEMMA ShrinkStep ==
    ASSUME LaneInv, TypeOK', leases' \subseteq leases, UNCHANGED queueVars
    PROVE  LaneInv'
<1>1. Finite' /\ CapacityBound'
  BY LiveFits DEF LaneInv, Finite, CapacityBound, queueVars
<1>2. Bookkeeping' /\ TicketOrder'
  BY DEF LaneInv, Bookkeeping, TicketOrder, queueVars
<1> QED  BY <1>1, <1>2 DEF LaneInv

\* By one turn of the loop, of a call that has just taken the last ticket or
\* is in the queue, with the waiters in front of it.
LEMMA AttemptStep ==
    ASSUME LaneInv, TypeOK', NEW c \in Call, NEW ahead \in SUBSET waiters,
           Attempt(c, ahead),
           phase[c] \in {"entering", "waiting"},
           ticketNo'[c] < nextTicket', nextTicket <= nextTicket',
           \A d \in Call \ {c} : ticketNo'[d] = ticketNo[d],
           \A d \in waiters \ {c} : ticketNo'[d] # ticketNo'[c]
    PROVE  LaneInv'
<1>0. TypeOK /\ Finite /\ Bookkeeping /\ TicketOrder /\ CapacityBound
  BY DEF LaneInv
<1>1. Live \subseteq leases
  BY DEF Live
<1>2. IsFiniteSet(ahead)
  BY <1>0, FS_Subset DEF Finite
<1>3. IsFiniteSet(Live) /\ Cardinality(Live) <= Capacity
  BY <1>1, LiveFits
<1>4. Finite'
  <2>1. IsFiniteSet(waiters \ {c}) /\ IsFiniteSet(waiters \cup {c})
    BY <1>0, FS_RemoveElement, FS_AddElement DEF Finite
  <2>2. IsFiniteSet(Live \cup {c})
    BY <1>3, FS_AddElement
  <2> QED  BY <1>3, <2>1, <2>2 DEF Finite, Attempt, Admit, GiveUp, Wait
<1>5. Bookkeeping'
  BY <1>0, <1>1 DEF Bookkeeping, TypeOK, Attempt, Admit, GiveUp, Wait
<1>6. TicketOrder'
  <2>1. waiters' \subseteq waiters \cup {c} /\ leases' \subseteq leases \cup {c}
    BY <1>1 DEF Attempt, Admit, GiveUp, Wait
  <2>2. \A d \in waiters' \cup leases' : ticketNo'[d] < nextTicket'
    BY <1>0, <2>1 DEF TicketOrder, TypeOK
  <2>3. \A d, e \in waiters' : ticketNo'[d] = ticketNo'[e] => d = e
    BY <1>0, <2>1 DEF TicketOrder, TypeOK
  <2> QED  BY <2>2, <2>3 DEF TicketOrder
<1>7. CapacityBound'
  BY <1>2, <1>3, AdmissionFits DEF CapacityBound, Attempt, Admit, GiveUp, Wait
<1> QED  BY <1>4, <1>5, <1>6, <1>7 DEF LaneInv

LEMMA EnterStep ==
    ASSUME LaneInv, TypeOK', NEW c \in Call, AcquireEnter(c)
    PROVE  LaneInv'
<1>1. TypeOK /\ Bookkeeping /\ TicketOrder /\ phase[c] = "entering"
  BY DEF LaneInv, AcquireEnter
<1>2. ticketNo'[c] = nextTicket /\ nextTicket' = nextTicket + 1
  BY <1>1 DEF AcquireEnter, TypeOK
<1>3. \A d \in Call \ {c} : ticketNo'[d] = ticketNo[d]
  BY <1>1 DEF AcquireEnter, TypeOK
<1>4. \A d \in waiters \ {c} : ticketNo'[d] # ticketNo'[c]
  BY <1>1, <1>2, <1>3 DEF TicketOrder, TypeOK
<1>5. ticketNo'[c] < nextTicket' /\ nextTicket <= nextTicket'
  BY <1>1, <1>2 DEF TypeOK
<1>6. waiters \in SUBSET waiters /\ Attempt(c, waiters)
  BY DEF AcquireEnter
<1> QED  BY <1>1, <1>3, <1>4, <1>5, <1>6, AttemptStep

LEMMA RecheckStep ==
    ASSUME LaneInv, TypeOK', NEW c \in Call, Recheck(c)
    PROVE  LaneInv'
<1>1. TypeOK /\ Bookkeeping /\ TicketOrder /\ c \in waiters
  BY DEF LaneInv, Recheck
<1>2. phase[c] = "waiting" /\ ticketNo' = ticketNo /\ nextTicket' = nextTicket
  BY <1>1 DEF Bookkeeping, Recheck
<1>3. \A d \in waiters \ {c} : ticketNo'[d] # ticketNo'[c]
  BY <1>1, <1>2 DEF TicketOrder
<1>4. ticketNo'[c] < nextTicket' /\ nextTicket <= nextTicket'
  BY <1>1, <1>2 DEF TicketOrder, TypeOK
<1>5. Ahead(c) \in SUBSET waiters /\ Attempt(c, Ahead(c))
  BY DEF Ahead, Recheck
<1> QED  BY <1>2, <1>3, <1>4, <1>5, AttemptStep

LEMMA InvStep == LaneInv /\ [Next]_vars => LaneInv'
<1> SUFFICES ASSUME LaneInv, [Next]_vars PROVE LaneInv'
  OBVIOUS
<1>0. TypeOK' /\ Live \subseteq leases
  BY TypeStep DEF LaneInv, Live
<1>1. ASSUME NEW c \in Call, NEW timeout \in Timeouts, AcquireStart(c, timeout)
      PROVE  LaneInv'
  BY <1>0, <1>1 DEF LaneInv, AcquireStart, Finite, Bookkeeping, TicketOrder,
                    CapacityBound, TypeOK
<1>2. ASSUME NEW c \in Call, Acquire(c) PROVE LaneInv'
  <2>1. CASE AcquireEnter(c)
    BY <1>0, <2>1, EnterStep
  <2>2. CASE Recheck(c)
    BY <1>0, <2>2, RecheckStep
  <2>3. CASE PollElapsed(c)
    BY <1>0, <2>3, ShrinkStep DEF PollElapsed
  <2> QED  BY <1>2, <2>1, <2>2, <2>3 DEF Acquire
<1>3. ASSUME NEW h \in Holder, NEW c \in Call, Renew(h, c) \/ Release(h, c)
      PROVE  LaneInv'
  BY <1>0, <1>3, ShrinkStep DEF Renew, Release, ExpireOnly, queueVars
<1>4. CASE Status
  BY <1>0, <1>4, ShrinkStep DEF Status, ExpireOnly, queueVars
<1>5. CASE Tick
  BY <1>0, <1>5 DEF LaneInv, Tick, Finite, Bookkeeping, TicketOrder, CapacityBound
<1>6. CASE UNCHANGED vars
  BY <1>0, <1>6, ShrinkStep DEF vars, queueVars
<1> QED
  BY <1>1, <1>2, <1>3, <1>4, <1>5, <1>6 DEF Next, Heartbeat, AcquireReentrant

LEMMA InvInit == Init => LaneInv
<1> SUFFICES ASSUME Init PROVE LaneInv
  OBVIOUS
<1>1. IsFiniteSet({}) /\ Cardinality({}) = 0
  BY FS_EmptySet
<1>2. Finite /\ CapacityBound
  BY <1>1, LaneAssumption DEF Init, Finite, CapacityBound
<1>3. Bookkeeping /\ TicketOrder
  BY DEF Init, Bookkeeping, TicketOrder
<1> QED  BY <1>2, <1>3, TypeInit DEF LaneInv

LEMMA LaneInvariant == Spec => []LaneInv
BY InvInit, InvStep, PTL DEF Spec

\* The lane never grants more than its capacity, however renewals, lapses,
\* releases and admissions interleave: len(self.leases) <= self.capacity.
THEOREM LaneCapacity == Spec => []CapacityBound
<1>1. LaneInv => CapacityBound
  BY DEF LaneInv
<1> QED  BY <1>1, LaneInvariant, PTL

\* After LaneTimeout nothing is held and no ticket is left in the queue.
THEOREM LaneTimeoutHoldsNothing == Spec => []NothingHeldAfterTimeout
<1>1. LaneInv => NothingHeldAfterTimeout
  BY DEF LaneInv, Bookkeeping, NothingHeldAfterTimeout
<1> QED  BY <1>1, LaneInvariant, PTL
-----------------------------------------------------------------------------
(***************************************************************************)
(* Turns.  How the waiters in front of w change in one step of the lane,   *)
(* and that an admission costs no waiter its turn.                         *)
(***************************************************************************)

\* A step that grants nothing puts nobody in front of a waiter.
LEMMA NobodyCutsIn ==
    ASSUME LaneInv, [Next]_vars, NEW w \in waiters, w \in waiters'
    PROVE  /\ Ahead(w)' \subseteq Ahead(w)
           /\ ticketNo'[w] = ticketNo[w]
<1>1. TypeOK /\ Bookkeeping /\ TicketOrder /\ w \in Call
  BY DEF LaneInv, TypeOK
<1>2. ASSUME NEW c \in Call, AcquireEnter(c)
      PROVE  Ahead(w)' \subseteq Ahead(w) /\ ticketNo'[w] = ticketNo[w]
  <2>1. c \notin waiters /\ ticketNo'[c] = nextTicket
    BY <1>1, <1>2 DEF AcquireEnter, Bookkeeping, TypeOK
  <2>2. \A d \in Call \ {c} : ticketNo'[d] = ticketNo[d]
    BY <1>1, <1>2 DEF AcquireEnter, TypeOK
  <2>3. waiters' \subseteq waiters \cup {c}
    BY <1>2 DEF AcquireEnter, Attempt, Admit, GiveUp, Wait
  <2>4. ~(ticketNo'[c] < ticketNo'[w]) /\ ticketNo'[w] = ticketNo[w]
    BY <1>1, <2>1, <2>2 DEF TicketOrder, TypeOK
  <2> QED  BY <1>1, <2>2, <2>3, <2>4 DEF Ahead, TypeOK
<1>3. ASSUME waiters' \subseteq waiters, ticketNo' = ticketNo
      PROVE  Ahead(w)' \subseteq Ahead(w) /\ ticketNo'[w] = ticketNo[w]
  BY <1>3 DEF Ahead
<1>4. ASSUME NEW c \in Call, Recheck(c)
      PROVE  waiters' \subseteq waiters /\ ticketNo' = ticketNo
  BY <1>4 DEF Recheck, Attempt, Admit, GiveUp, Wait
<1>5. \/ \E c \in Call : AcquireEnter(c) \/ Recheck(c)
      \/ waiters' = waiters /\ ticketNo' = ticketNo
  BY DEF Next, Acquire, AcquireStart, PollElapsed, Heartbeat, AcquireReentrant,
         Renew, Release, ExpireOnly, Status, Tick, queueVars, vars
<1> QED  BY <1>2, <1>3, <1>4, <1>5

\* After c is admitted, every waiter that was in front of it, and every waiter
\* that had its turn, has its turn.
LEMMA TurnAfterAdmission ==
    ASSUME LaneInv, [Next]_vars, NEW c \in Call,
           \/ AcquireEnter(c) /\ Admit(c, waiters)
           \/ Recheck(c) /\ Admit(c, Ahead(c)),
           NEW w \in waiters, w \in waiters',
           ticketNo'[w] < ticketNo'[c] \/ HasTurn(Ahead(w), leases)
    PROVE  HasTurn(Ahead(w), leases)'
<1>0. /\ TypeOK /\ Finite /\ Bookkeeping /\ TicketOrder
      /\ IsFiniteSet(Live) /\ Live \in SUBSET leases
      /\ leases' = Live \cup {c} /\ waiters' = waiters \ {c} /\ w # c
  BY LiveFits DEF LaneInv, Live, Admit
<1>1. Ahead(w)' \subseteq Ahead(w) /\ ticketNo'[w] = ticketNo[w]
  BY NobodyCutsIn
<1>2. /\ IsFiniteSet(Ahead(w)) /\ IsFiniteSet(Ahead(c))
      /\ IsFiniteSet(waiters) /\ IsFiniteSet(leases)
  BY <1>0, FS_Subset DEF Finite, Ahead
<1>3. Ahead(w)' \subseteq Ahead(w) \ {w, c}
  BY <1>0, <1>1 DEF Ahead, TypeOK
<1>4. CASE AcquireEnter(c) /\ Admit(c, waiters)
  <2>1. Ahead(w)' \in SUBSET (waiters \ {w})
    BY <1>3 DEF Ahead
  <2>2. HasTurn(waiters, Live)
    BY <1>4 DEF Admit
  <2>3. HasTurn(Ahead(w)', Live \cup {c})
    BY <1>0, <1>2, <2>1, <2>2, PassedOver
  <2> QED  BY <1>0, <2>3 DEF HasTurn
<1>5. CASE Recheck(c) /\ Admit(c, Ahead(c))
  <2>0. c \in waiters /\ ticketNo' = ticketNo /\ HasTurn(Ahead(c), Live)
    BY <1>5 DEF Recheck, Admit
  <2>1. CASE ticketNo[w] < ticketNo[c]
    <3>1. w \in Ahead(c) /\ Ahead(w)' \in SUBSET (Ahead(c) \ {w})
      BY <1>0, <1>3, <2>0, <2>1 DEF Ahead, TypeOK
    <3>2. HasTurn(Ahead(w)', Live \cup {c})
      BY <1>0, <1>2, <2>0, <3>1, PassedOver
    <3> QED  BY <1>0, <3>2 DEF HasTurn
  <2>2. CASE ~(ticketNo[w] < ticketNo[c])
    <3>1. c \in Ahead(w) /\ Ahead(w)' \in SUBSET (Ahead(w) \ {c})
      BY <1>0, <1>3, <2>0, <2>2 DEF Ahead, TypeOK, TicketOrder
    <3>2. HasTurn(Ahead(w), leases)
      BY <2>0, <2>2
    <3>3. HasTurn(Ahead(w)', Live \cup {c})
      BY <1>0, <1>2, <3>1, <3>2, MovedUp
    <3> QED  BY <1>0, <3>3 DEF HasTurn
  <2> QED  BY <2>1, <2>2
<1> QED  BY <1>4, <1>5

\* Every other step takes leases away, or leaves them.
LEMMA GrantIsAdmission ==
    ASSUME [Next]_vars
    PROVE  \/ leases' \subseteq leases
           \/ \E c \in Call : /\ leases' = Live \cup {c}
                             /\ \/ AcquireEnter(c) /\ Admit(c, waiters)
                                \/ Recheck(c) /\ Admit(c, Ahead(c))
<1>1. Live \subseteq leases
  BY DEF Live
<1>2. ASSUME NEW c \in Call, AcquireEnter(c) \/ Recheck(c)
      PROVE  \/ leases' \subseteq leases
             \/ /\ leases' = Live \cup {c}
                /\ \/ AcquireEnter(c) /\ Admit(c, waiters)
                   \/ Recheck(c) /\ Admit(c, Ahead(c))
  <2>1. CASE AcquireEnter(c)
    BY <1>1, <2>1 DEF AcquireEnter, Attempt, Admit, GiveUp, Wait
  <2>2. CASE Recheck(c)
    BY <1>1, <2>2 DEF Recheck, Attempt, Admit, GiveUp, Wait
  <2> QED  BY <1>2, <2>1, <2>2
<1>3. \/ \E c \in Call : AcquireEnter(c) \/ Recheck(c)
      \/ leases' \subseteq leases
  BY <1>1 DEF Next, Acquire, AcquireStart, PollElapsed, Heartbeat, AcquireReentrant,
              Renew, Release, ExpireOnly, Status, Tick, vars
<1> QED  BY <1>2, <1>3

LEMMA TurnKept ==
    ASSUME LaneInv, [Next]_vars, NEW w \in waiters, w \in waiters',
           HasTurn(Ahead(w), leases)
    PROVE  HasTurn(Ahead(w), leases)'
<1>1. CASE leases' \subseteq leases
  <2>1. IsFiniteSet(Ahead(w)) /\ IsFiniteSet(leases)
    BY FS_Subset DEF LaneInv, Finite, Ahead
  <2>2. Ahead(w)' \in SUBSET Ahead(w) /\ leases' \in SUBSET leases
    BY <1>1, NobodyCutsIn
  <2>3. HasTurn(Ahead(w)', leases')
    BY <2>1, <2>2, TurnMonotone
  <2> QED  BY <2>3 DEF HasTurn
<1> QED  BY <1>1, GrantIsAdmission, TurnAfterAdmission

\* A waiter whose turn has come keeps it until it is admitted.
THEOREM LaneTurnKept == Spec => NeverLosesTurn
<1>1. LaneInv /\ [Next]_vars =>
        [\A c \in waiters \cap waiters' :
            HasTurn(Ahead(c), leases) => HasTurn(Ahead(c), leases)']_vars
  BY TurnKept
<1> QED  BY <1>1, LaneInvariant, PTL DEF Spec, NeverLosesTurn

\* A ticket number does not change once it is in the queue or behind a lease.
LEMMA TicketsStay ==
    ASSUME LaneInv, [Next]_vars, NEW c \in leases
    PROVE  ticketNo'[c] = ticketNo[c]
<1>1. TypeOK /\ Bookkeeping /\ c \in Call /\ phase[c] = "admitted"
  BY DEF LaneInv, TypeOK, Bookkeeping
<1>2. ASSUME NEW d \in Call, AcquireEnter(d)
      PROVE  ticketNo'[c] = ticketNo[c]
  BY <1>1, <1>2 DEF AcquireEnter, TypeOK
<1>3. (\E d \in Call : AcquireEnter(d)) \/ ticketNo' = ticketNo
  BY DEF Next, Acquire, AcquireStart, PollElapsed, Heartbeat, AcquireReentrant,
         Recheck, Renew, Release, ExpireOnly, Status, Tick, queueVars, vars
<1> QED  BY <1>2, <1>3

\* Whoever joins the queue joins it behind every ticket drawn so far.
LEMMA NewcomerIsLast ==
    ASSUME LaneInv, [Next]_vars, NEW w \in waiters', w \notin waiters
    PROVE  /\ leases' \subseteq leases
           /\ \A c \in leases : ticketNo[c] < ticketNo'[w]
<1>1. TypeOK /\ TicketOrder
  BY DEF LaneInv
<1>2. PICK d \in Call : AcquireEnter(d) /\ w \in waiters \cup {d}
  BY DEF Next, Acquire, AcquireStart, PollElapsed, Heartbeat, AcquireReentrant,
         AcquireEnter, Recheck, Attempt, Admit, GiveUp, Wait,
         Renew, Release, ExpireOnly, Status, Tick, queueVars, vars
<1>3. d = w /\ Wait(d, waiters) /\ ticketNo'[w] = nextTicket
  BY <1>1, <1>2 DEF AcquireEnter, Attempt, Admit, GiveUp, TypeOK
<1> QED  BY <1>1, <1>3 DEF Wait, Live, TicketOrder

\* A waiter overtaken by a later ticket has its own turn already: with more
\* than one slot the lane is not strictly FIFO, but overtaking is harmless.
THEOREM LaneOvertaking == Spec => []OvertakenHasTurn
<1>1. Init => OvertakenHasTurn
  BY DEF Init, OvertakenHasTurn
<1>2. LaneInv /\ OvertakenHasTurn /\ [Next]_vars => OvertakenHasTurn'
  <2> SUFFICES ASSUME LaneInv, OvertakenHasTurn, [Next]_vars,
                      NEW w \in waiters', NEW c \in leases',
                      ticketNo'[w] < ticketNo'[c]
               PROVE  HasTurn(Ahead(w), leases)'
    BY DEF OvertakenHasTurn
  <2>1. TypeOK /\ TypeOK' /\ Live \subseteq leases
    BY TypeStep DEF LaneInv, Live
  <2>2. w \in waiters
    <3> SUFFICES ASSUME w \notin waiters PROVE FALSE
      OBVIOUS
    <3>1. c \in leases /\ ticketNo'[c] = ticketNo[c] /\ ticketNo[c] < ticketNo'[w]
      BY NewcomerIsLast, TicketsStay
    <3> QED  BY <2>1, <3>1 DEF TypeOK
  <2>3. CASE c \in leases
    BY <2>2, <2>3, TicketsStay, NobodyCutsIn, TurnKept DEF OvertakenHasTurn
  <2>4. CASE c \notin leases
    BY <2>1, <2>2, <2>4, GrantIsAdmission, TurnAfterAdmission
  <2> QED  BY <2>3, <2>4
<1> QED  BY <1>1, <1>2, LaneInvariant, PTL DEF Spec

\* A lane with one slot is strictly FIFO: a turn is then only had by the waiter
\* that nobody is in front of.
THEOREM LaneSingleSlotFifo ==
    ASSUME Capacity = 1
    PROVE  Spec => StrictFifo
<1>1. ASSUME NEW S, NEW T, IsFiniteSet(S), IsFiniteSet(T), HasTurn(S, T)
      PROVE  S = {}
  BY <1>1, FS_EmptySet, FS_CardinalityType DEF HasTurn
<1>2. LaneInv /\ [Next]_vars =>
        [\A c \in leases' \ leases : \A w \in waiters' :
            ticketNo'[c] < ticketNo'[w]]_vars
  <2> SUFFICES ASSUME LaneInv, [Next]_vars,
                      NEW c \in leases' \ leases, NEW w \in waiters'
               PROVE  ticketNo'[c] < ticketNo'[w]
    OBVIOUS
  <2>0. TypeOK /\ TicketOrder /\ IsFiniteSet(waiters) /\ IsFiniteSet(Live)
    BY FS_Subset DEF LaneInv, Finite, Live
  <2>1. PICK d \in Call : /\ leases' = Live \cup {d}
                          /\ \/ AcquireEnter(d) /\ Admit(d, waiters)
                             \/ Recheck(d) /\ Admit(d, Ahead(d))
    BY GrantIsAdmission
  <2>2. c = d
    BY <2>1 DEF Live
  <2>3. CASE AcquireEnter(d) /\ Admit(d, waiters)
    BY <1>1, <2>0, <2>3 DEF Admit
  <2>4. CASE Recheck(d) /\ Admit(d, Ahead(d))
    <3>1. Ahead(d) = {}
      BY <1>1, <2>0, <2>4, FS_Subset DEF Admit, Ahead
    <3>2. d \in waiters /\ w \in waiters /\ w # d /\ ticketNo' = ticketNo
      BY <2>4 DEF Recheck, Admit
    <3> QED  BY <2>0, <2>2, <3>1, <3>2 DEF Ahead, TicketOrder, TypeOK
  <2> QED  BY <2>1, <2>3, <2>4
<1> QED  BY <1>2, LaneInvariant, PTL DEF Spec, StrictFifo

\* No wakeup is missed: every change that gives a waiter its turn is followed
\* by a notify_all() in the same critical section.
THEOREM LaneWakeups == Spec => []NoMissedWakeup
<1>1. Init => NoMissedWakeup
  BY DEF Init, NoMissedWakeup
<1>2. LaneInv /\ NoMissedWakeup /\ [Next]_vars => NoMissedWakeup'
  <2> SUFFICES ASSUME LaneInv, NoMissedWakeup, [Next]_vars,
                      NEW w \in waiters', w \in asleep'
               PROVE  ~HasTurn(Ahead(w), leases)'
    BY DEF NoMissedWakeup
  <2>0. TypeOK /\ Bookkeeping
    BY DEF LaneInv
  <2>1. CASE w \in waiters /\ w \in asleep /\ Ahead(w)' = Ahead(w) /\ leases' = leases
    BY <2>1 DEF NoMissedWakeup, HasTurn
  <2>2. ASSUME NEW c \in Call, AcquireEnter(c), Wait(c, waiters)
        PROVE  ~HasTurn(Ahead(w), leases)'
    <3>1. c \notin waiters /\ ticketNo'[c] = nextTicket /\ waiters' = waiters \cup {c}
      BY <2>0, <2>2 DEF AcquireEnter, Wait, Bookkeeping, TypeOK
    <3>2. \A d \in waiters : ticketNo'[d] = ticketNo[d] /\ ticketNo[d] < nextTicket
      BY <2>0, <2>2, <3>1 DEF AcquireEnter, TypeOK, LaneInv, TicketOrder
    <3>3. CASE w = c
      <4>1. Ahead(w)' = waiters
        BY <2>0, <3>1, <3>2, <3>3 DEF Ahead, TypeOK
      <4> QED  BY <2>2, <4>1 DEF Wait, HasTurn
    <3>4. CASE w # c
      <4>1. w \in waiters /\ w \in asleep /\ leases' = leases
        BY <2>2, <3>1, <3>4 DEF Wait, StillAsleep, Live
      <4>2. Ahead(w)' = Ahead(w)
        BY <2>0, <3>1, <3>2, <4>1 DEF Ahead, TypeOK
      <4> QED  BY <2>1, <4>1, <4>2
    <3> QED  BY <3>3, <3>4
  <2>3. ASSUME NEW c \in Call, Recheck(c), Wait(c, Ahead(c))
        PROVE  ~HasTurn(Ahead(w), leases)'
    <3>1. Ahead(w)' = Ahead(w) /\ w \in waiters
      BY <2>3 DEF Recheck, Wait, Ahead
    <3>2. CASE w = c
      BY <2>3, <3>1, <3>2 DEF Wait, HasTurn
    <3>3. CASE w # c
      <4>1. w \in asleep /\ leases' = leases
        BY <2>3, <3>3 DEF Wait, StillAsleep, Live
      <4> QED  BY <2>1, <3>1, <4>1
    <3> QED  BY <3>2, <3>3
  <2>4. \/ \E c \in Call : AcquireEnter(c) /\ Wait(c, waiters)
        \/ \E c \in Call : Recheck(c) /\ Wait(c, Ahead(c))
        \/ /\ waiters' = waiters /\ ticketNo' = ticketNo
           /\ w \in asleep /\ leases' = leases
    BY DEF Next, Acquire, AcquireStart, PollElapsed, Heartbeat, AcquireReentrant,
           AcquireEnter, Recheck, Attempt, Admit, GiveUp, Renew, Release,
           ExpireOnly, StillAsleep, Live, Status, Tick, queueVars, vars
  <2> QED  BY <2>1, <2>2, <2>3, <2>4 DEF Ahead
<1> QED  BY <1>1, <1>2, LaneInvariant, PTL DEF Spec
-----------------------------------------------------------------------------
(* Leases.                                                                 *)

\* A released token was granted once, and is a lease no more.
ReleasedForGood ==
    \A h \in Holder, c \in Call :
        <<h, c>> \in released => phase[c] = "admitted" /\ c \notin leases

LEMMA ReleasedInvariant == Spec => [](TypeOK /\ ReleasedForGood)
<1>1. Init => ReleasedForGood
  BY DEF Init, ReleasedForGood
<1>2. LaneInv /\ ReleasedForGood /\ [Next]_vars => ReleasedForGood'
  <2> SUFFICES ASSUME LaneInv, ReleasedForGood, [Next]_vars,
                      NEW h \in Holder, NEW c \in Call, <<h, c>> \in released'
               PROVE  phase'[c] = "admitted" /\ c \notin leases'
    BY DEF ReleasedForGood
  <2> USE DEF LaneInv, TypeOK, Live
  <2>1. CASE /\ released' = released
             /\ leases' \subseteq leases /\ phase' = phase
    BY <2>1 DEF ReleasedForGood
  <2>2. ASSUME NEW d \in Call, AcquireStart(d, remaining'[d])
        PROVE  phase'[c] = "admitted" /\ c \notin leases'
    BY <2>2 DEF AcquireStart, ReleasedForGood
  <2>3. ASSUME NEW d \in Call, AcquireEnter(d) \/ Recheck(d)
        PROVE  phase'[c] = "admitted" /\ c \notin leases'
    <3>1. <<h, c>> \in released /\ phase[d] # "admitted"
      BY <2>3 DEF AcquireEnter, Recheck, Bookkeeping
    <3>2. phase[c] = "admitted" /\ c \notin leases /\ c # d
      BY <3>1 DEF ReleasedForGood
    <3> QED  BY <2>3, <3>2
             DEF AcquireEnter, Recheck, Attempt, Admit, GiveUp, Wait
  <2>4. ASSUME NEW d \in Call, NEW g \in Holder, Release(g, d)
        PROVE  phase'[c] = "admitted" /\ c \notin leases'
    BY <2>4 DEF Release, ExpireOnly, queueVars, ReleasedForGood
  <2>5. \/ released' = released /\ leases' \subseteq leases /\ phase' = phase
        \/ \E d \in Call : AcquireStart(d, remaining'[d])
        \/ \E d \in Call : AcquireEnter(d) \/ Recheck(d)
        \/ \E d \in Call, g \in Holder : Release(g, d)
    BY LaneAssumption
       DEF Next, Acquire, AcquireStart, PollElapsed, Heartbeat, AcquireReentrant,
           Renew, ExpireOnly, Status, Tick, queueVars, vars
  <2> QED  BY <2>1, <2>2, <2>3, <2>4, <2>5
<1> QED  BY <1>1, <1>2, LaneInvariant, PTL DEF Spec, LaneInv

\* A lease ends by lapsing or in a release() by its own holder, never sooner and
\* by nobody else, for every set of holders that know its token.
THEOREM LaneLeaseTerm == Spec => LeaseLastsItsTerm
<1>1. TypeOK /\ ReleasedForGood /\ [Next]_vars =>
        [\A c \in leases : c \notin leases' =>
            ttl[c] = 0 \/ <<HolderOf[c], c>> \in released' \ released]_vars
  <2> SUFFICES ASSUME TypeOK, ReleasedForGood, Next,
                      NEW c \in leases, c \notin leases', ttl[c] # 0
               PROVE  <<HolderOf[c], c>> \in released' \ released
    BY DEF vars
  <2>1. c \in Live /\ c \in Call /\ HolderOf[c] \in Holder
    BY LaneAssumption DEF Live, Expired, TypeOK
  <2>2. <<HolderOf[c], c>> \notin released
    BY <2>1 DEF ReleasedForGood
  <2>3. ASSUME NEW d \in Call, NEW h \in Holder, Release(h, d)
        PROVE  <<HolderOf[c], c>> \in released'
    <3>1. d = c /\ HeldBy(h, d)
      BY <2>1, <2>3 DEF Release, ExpireOnly
    <3> QED  BY <2>1, <2>3, <3>1 DEF Release, HeldBy, ExpireOnly
  <2>4. \E d \in Call, h \in Holder : Release(h, d)
    BY <2>1 DEF Next, Acquire, AcquireStart, PollElapsed, Heartbeat,
                AcquireReentrant, AcquireEnter, Recheck, Attempt, Admit, GiveUp,
                Wait, Renew, ExpireOnly, Status, Tick
  <2> QED  BY <2>2, <2>3, <2>4
<1> QED  BY <1>1, ReleasedInvariant, PTL DEF Spec, LeaseLastsItsTerm

\* The idle time status() reports never exceeds the time since an unlapsed
\* lease was granted or renewed.
THEOREM LaneIdleTime == Spec => []IdleSinceRenewal
<1>1. Init => IdleSinceRenewal
  BY DEF Init, IdleSinceRenewal, Live
<1>2. LaneInv /\ IdleSinceRenewal /\ [Next]_vars => IdleSinceRenewal'
  <2> SUFFICES ASSUME LaneInv, IdleSinceRenewal, [Next]_vars, NEW c \in Live'
               PROVE  idleSeconds' <= LeaseSeconds - ttl'[c]
    BY DEF IdleSinceRenewal
  <2>0. TypeOK /\ TypeOK' /\ c \in leases' /\ ttl'[c] # 0 /\ c \in Call
    BY TypeStep DEF LaneInv, Live, Expired, TypeOK
  <2>1. CASE idleSeconds' = 0
    BY <2>0, <2>1, LaneAssumption DEF TypeOK
  <2>2. CASE c \in Live /\ idleSeconds' = idleSeconds /\ ttl'[c] = ttl[c]
    BY <2>2 DEF IdleSinceRenewal
  <2>3. CASE Tick
    <3>1. /\ c \in Call /\ ttl[c] \in Nat /\ idleSeconds \in Nat
          /\ c \in leases /\ ttl[c] # 0 /\ ttl'[c] = ttl[c] - 1
      BY <2>0, <2>3 DEF TypeOK, Tick, Countdown
    <3>2. idleSeconds <= LeaseSeconds - ttl[c]
      BY <3>1 DEF IdleSinceRenewal, Live, Expired
    <3>3. idleSeconds' <= idleSeconds + 1 /\ idleSeconds' \in Nat
      BY <2>0, <2>3, LaneAssumption DEF TypeOK, Tick
    <3> QED  BY <3>1, <3>2, <3>3, LaneAssumption
  <2>4. ASSUME NEW d \in Call, AcquireEnter(d) \/ Recheck(d), idleSeconds' # 0
        PROVE  c \in Live /\ idleSeconds' = idleSeconds /\ ttl'[c] = ttl[c]
    <3>1. leases' = Live /\ ttl' = ttl /\ idleSeconds' = IdleAfterExpiry
      BY <2>4 DEF AcquireEnter, Recheck, Attempt, Admit, GiveUp, Wait
    <3> QED  BY <2>0, <2>4, <3>1 DEF IdleAfterExpiry
  <2>5. \/ idleSeconds' = 0
        \/ \E d \in Call : AcquireEnter(d) \/ Recheck(d)
        \/ idleSeconds' = IdleAfterExpiry /\ leases' = Live /\ ttl' = ttl
        \/ idleSeconds' = idleSeconds /\ leases' = leases /\ ttl' = ttl
        \/ Tick
    BY DEF Next, Acquire, AcquireStart, PollElapsed, Heartbeat, AcquireReentrant,
           Renew, Release, ExpireOnly, Status, vars
  <2>6. CASE idleSeconds' = IdleAfterExpiry /\ leases' = Live /\ ttl' = ttl
    BY <2>0, <2>1, <2>2, <2>6 DEF IdleAfterExpiry
  <2>7. CASE idleSeconds' = idleSeconds /\ leases' = leases /\ ttl' = ttl
    BY <2>0, <2>2, <2>7 DEF Live, Expired
  <2> QED  BY <2>1, <2>2, <2>3, <2>4, <2>5, <2>6, <2>7
<1> QED  BY <1>1, <1>2, LaneInvariant, PTL DEF Spec

-----------------------------------------------------------------------------
(* The lane implements the pool.                                           *)

LEMMA PoolTable ==
    ASSUME NEW c
    PROVE  /\ phase[c] \in {"new", "entering"} => PoolStatus(c) = "outside"
           /\ phase[c] = "waiting" => PoolStatus(c) = "waiting"
           /\ phase[c] = "timedout" => PoolStatus(c) = "refused"
           /\ phase[c] = "admitted" /\ c \in leases => PoolStatus(c) = "holding"
           /\ phase[c] = "admitted" /\ c \notin leases => PoolStatus(c) = "gone"
BY DEF PoolStatus

LEMMA PoolTableNext ==
    ASSUME NEW c
    PROVE  /\ phase'[c] \in {"new", "entering"} => PoolStatus(c)' = "outside"
           /\ phase'[c] = "waiting" => PoolStatus(c)' = "waiting"
           /\ phase'[c] = "timedout" => PoolStatus(c)' = "refused"
           /\ phase'[c] = "admitted" /\ c \in leases' => PoolStatus(c)' = "holding"
           /\ phase'[c] = "admitted" /\ c \notin leases' => PoolStatus(c)' = "gone"
BY DEF PoolStatus

\* The places held in the pool are the leases.
LEMMA PoolHolding == LaneInv => Pool!Holding = leases
<1> SUFFICES ASSUME LaneInv PROVE Pool!Holding = leases
  OBVIOUS
<1>1. \A c \in Call : PoolStatus(c) = "holding" <=> c \in leases
  <2> SUFFICES ASSUME NEW c \in Call PROVE PoolStatus(c) = "holding" <=> c \in leases
    OBVIOUS
  <2>1. phase[c] \in Phases /\ (c \in leases => phase[c] = "admitted")
    BY DEF LaneInv, TypeOK, Bookkeeping
  <2> QED  BY <2>1, PoolTable DEF Phases
<1>2. leases \subseteq Call
  BY DEF LaneInv, TypeOK
<1> QED  BY <1>1, <1>2 DEF poolStatus, Pool!Holding

\* A call that stays where it is keeps its status, unless its lease is lost.
LEMMA PoolOthers ==
    ASSUME LaneInv, LaneInv', NEW lost \in SUBSET leases, NEW d \in Call,
           phase'[d] = phase[d] \/ {phase[d], phase'[d]} \subseteq {"new", "entering"},
           d \in leases' <=> d \in leases \ lost
    PROVE  PoolStatus(d)' = IF d \in lost THEN "gone" ELSE PoolStatus(d)
<1>1. phase[d] \in Phases /\ (d \in leases => phase[d] = "admitted")
  BY DEF LaneInv, TypeOK, Bookkeeping
<1>2. CASE d \in lost
  <2>1. phase'[d] = "admitted" /\ d \notin leases'
    BY <1>1, <1>2
  <2> QED  BY <1>2, <2>1, PoolTableNext
<1>3. CASE d \notin lost
  BY <1>1, <1>3, PoolTable, PoolTableNext DEF Phases
<1> QED  BY <1>2, <1>3

\* A step that moves no call through the lane takes places back at most.
LEMMA PoolTakeBack ==
    ASSUME LaneInv, LaneInv', NEW lost \in SUBSET leases, leases' = leases \ lost,
           \A d \in Call : \/ phase'[d] = phase[d]
                           \/ {phase[d], phase'[d]} \subseteq {"new", "entering"}
    PROVE  Pool!Next
<1>1. \A d \in Call : PoolStatus(d)' = IF d \in lost THEN "gone" ELSE PoolStatus(d)
  BY PoolOthers
<1>2. Pool!TakeBack(lost)
  BY <1>1 DEF poolStatus, Pool!TakeBack, Pool!Without
<1> QED  BY <1>2, PoolHolding DEF Pool!Next

\* One turn of the loop is a step of the pool, with the lapsed leases lost.
LEMMA PoolAttempt ==
    ASSUME LaneInv, LaneInv', NEW c \in Call, NEW ahead, IsFiniteSet(ahead),
           Attempt(c, ahead), phase[c] \in {"entering", "waiting"},
           phase[c] = "waiting" => c \in waiters
    PROVE  Pool!Next
<1>0. TypeOK /\ Bookkeeping
  BY DEF LaneInv
<1>1. /\ Expired \in SUBSET leases /\ Live = leases \ Expired
      /\ c \notin leases /\ IsFiniteSet(Live)
  BY <1>0, LiveFits DEF Expired, Live, Bookkeeping
<1>2. \A d \in Call \ {c} : phase'[d] = phase[d] /\ (d \in leases' <=> d \in Live)
  BY <1>0 DEF Attempt, Admit, GiveUp, Wait, TypeOK
<1>3. \A d \in Call \ {c} :
         PoolStatus(d)' = IF d \in Expired THEN "gone" ELSE PoolStatus(d)
  BY <1>1, <1>2, PoolOthers
<1>4. poolStatus'
        = [Pool!Without(Expired) EXCEPT ![c] = PoolStatus(c)']
  BY <1>3 DEF Pool!Without, poolStatus
<1>5. Pool!Holding \ Expired = Live
  BY <1>1, PoolHolding
<1>6. PoolStatus(c) \in {"outside", "waiting"}
  BY PoolTable
<1>7. CASE Admit(c, ahead)
  <2>1. PoolStatus(c)' = "holding"
    BY <1>0, <1>7, PoolTableNext DEF Admit, TypeOK
  <2>2. Cardinality(Live) < Capacity
    <3>1. Cardinality(Live) \in Nat /\ Cardinality(ahead) \in Nat
      BY <1>1, FS_CardinalityType
    <3> QED  BY <1>7, <3>1, LaneAssumption DEF Admit, HasTurn
  <2>3. Pool!Cardinality(Live) = Cardinality(Live)
    BY DEF Pool!Cardinality, Cardinality
  <2>4. Pool!Admit(c, Expired)
    BY <1>4, <1>5, <1>6, <2>1, <2>2, <2>3 DEF poolStatus, Pool!Admit
  <2> QED  BY <1>1, <2>4, PoolHolding DEF Pool!Next
<1>8. CASE GiveUp(c, ahead)
  <2>1. PoolStatus(c)' = "refused"
    BY <1>0, <1>8, PoolTableNext DEF GiveUp, TypeOK
  <2>2. Pool!Refuse(c, Expired)
    BY <1>4, <1>6, <2>1 DEF poolStatus, Pool!Refuse
  <2> QED  BY <1>1, <2>2, PoolHolding DEF Pool!Next
<1>9. CASE Wait(c, ahead)
  <2>1. PoolStatus(c)' = "waiting"
    BY <1>0, <1>9, PoolTableNext DEF Wait, TypeOK
  <2>2. CASE phase[c] = "entering"
    <3>1. Pool!Queue(c, Expired)
      BY <1>4, <2>1, <2>2, PoolTable DEF poolStatus, Pool!Queue
    <3> QED  BY <1>1, <3>1, PoolHolding DEF Pool!Next
  <2>3. CASE phase[c] = "waiting"
    <3>1. Live \in SUBSET leases /\ leases' = Live /\ phase' = phase
      BY <1>0, <1>1, <1>9, <2>3 DEF Wait, TypeOK
    <3> QED  BY <1>1, <3>1, PoolTakeBack
  <2> QED  BY <2>2, <2>3
<1> QED  BY <1>7, <1>8, <1>9 DEF Attempt

LEMMA PoolStep ==
    LaneInv /\ LaneInv' /\ [Next]_vars => [Pool!Next]_poolStatus
<1> SUFFICES ASSUME LaneInv, LaneInv', [Next]_vars
             PROVE  Pool!Next
  OBVIOUS
<1>0. TypeOK /\ Bookkeeping /\ Finite
  BY DEF LaneInv
<1>1. ASSUME NEW c \in Call, AcquireEnter(c)
      PROVE  Pool!Next
  BY <1>0, <1>1, PoolAttempt DEF AcquireEnter, Finite
<1>2. ASSUME NEW c \in Call, Recheck(c)
      PROVE  Pool!Next
  <2>1. c \in waiters /\ phase[c] = "waiting" /\ IsFiniteSet(Ahead(c))
    BY <1>0, <1>2, FS_Subset DEF Recheck, Bookkeeping, Ahead, Finite
  <2> QED  BY <1>2, <2>1, PoolAttempt DEF Recheck
<1>3. ASSUME NEW lost \in SUBSET leases, leases' = leases \ lost, phase' = phase
      PROVE  Pool!Next
  BY <1>3, PoolTakeBack
<1>4. ASSUME NEW c \in Call, NEW timeout \in Timeouts, AcquireStart(c, timeout)
      PROVE  Pool!Next
  <2>1. /\ {} \in SUBSET leases /\ leases' = leases \ {}
        /\ \A d \in Call : \/ phase'[d] = phase[d]
                          \/ {phase[d], phase'[d]} \subseteq {"new", "entering"}
    BY <1>0, <1>4 DEF AcquireStart, TypeOK
  <2> QED  BY <2>1, PoolTakeBack
<1>5. \/ \E c \in Call, timeout \in Timeouts : AcquireStart(c, timeout)
      \/ \E c \in Call : AcquireEnter(c) \/ Recheck(c)
      \/ phase' = phase /\ \E lost \in SUBSET leases : leases' = leases \ lost
  <2>1. Live = leases \ Expired /\ Expired \in SUBSET leases /\ leases = leases \ {}
    BY DEF Live, Expired
  <2>2. \A c : Live \ {c} = leases \ (leases \ (Live \ {c}))
    BY <2>1
  <2>3. \/ \E c \in Call, timeout \in Timeouts : AcquireStart(c, timeout)
        \/ \E c \in Call : AcquireEnter(c) \/ Recheck(c)
        \/ /\ phase' = phase
           /\ leases' = leases \/ leases' = Live \/ \E c \in Call : leases' = Live \ {c}
    BY DEF Next, Acquire, PollElapsed, Heartbeat, AcquireReentrant, Renew, Release,
           ExpireOnly, Status, Tick, queueVars, vars
  <2> QED  BY <2>1, <2>2, <2>3
<1> QED  BY <1>1, <1>2, <1>3, <1>4, <1>5

\* The lane implements AdmissionPool: to its callers it is a pool of Capacity
\* places that takes back the ones that lapse, whatever its queue does.
THEOREM LaneImplementsPool == Spec => Pool!Spec
<1>1. Init => Pool!Init
  BY PoolTable DEF Init, poolStatus, Pool!Init
<1> QED  BY <1>1, PoolStep, LaneInvariant, PTL DEF Spec, Pool!Spec
=============================================================================
