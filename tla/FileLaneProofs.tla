--------------------------- MODULE FileLaneProofs ---------------------------
(***************************************************************************)
(* What is proved about the file lane for every set of processes, every    *)
(* number of slots and every choice of timeouts and naps.                  *)
(***************************************************************************)
EXTENDS FileLane, FiniteSetTheorems, TLAPS

-----------------------------------------------------------------------------
(* Type correctness.                                                       *)

\* A round never tries a slot that does not exist.
LEMMA SlotAtType ==
    ASSUME NEW first \in Slots, NEW i \in Nat
    PROVE  SlotAt(first, i) \in Slots
BY FileLaneAssumption DEF Slots, SlotAt

LEMMA BeginRoundTypes ==
    ASSUME TypeOK, NEW p \in Process, BeginRound(p)
    PROVE  /\ stage' \in [Process -> Stages]
           /\ start' \in [Process -> Slots]
           /\ offset' \in [Process -> 0..Capacity]
BY FileLaneAssumption DEF TypeOK, BeginRound, Go, Stages

LEMMA ForgetTypes ==
    ASSUME TypeOK, NEW p \in Process, Forget(p)
    PROVE  /\ start' \in [Process -> Slots] /\ offset' \in [Process -> 0..Capacity]
           /\ remaining' \in [Process -> Nat] /\ nap' \in [Process -> Nat]
<1>1. 0 \in Slots /\ 0 \in 0..Capacity
  BY FileLaneAssumption DEF Slots
<1> QED  BY <1>1 DEF TypeOK, Forget

LEMMA OwnerWithoutType ==
    ASSUME TypeOK, NEW p \in Process
    PROVE  OwnerWithout(p) \in [Slots -> Process \cup {NoProcess}]
BY DEF TypeOK, OwnerWithout

LEMMA TypeStep == TypeOK /\ [Next]_vars => TypeOK'
<1> SUFFICES ASSUME TypeOK, [Next]_vars PROVE TypeOK'
  OBVIOUS
<1> USE FileLaneAssumption
<1>1. ASSUME NEW p \in Process, NEW timeout \in Timeouts, AcquireStart(p, timeout)
      PROVE  TypeOK'
  BY <1>1, BeginRoundTypes DEF AcquireStart, TypeOK
<1>2. ASSUME NEW p \in Process, Try(p)
      PROVE  TypeOK'
  <2>1. SlotAt(start[p], offset[p]) \in Slots
    BY SlotAtType DEF TypeOK
  <2>2. owner' \in [Slots -> Process \cup {NoProcess}]
    BY <1>2, <2>1 DEF Try, Lock, LockBusy, TypeOK
  <2>3. /\ stage' \in [Process -> Stages] /\ lease' \in [Process -> Slots]
    BY <1>2, <2>1 DEF Try, Go, TypeOK, Stages
  <2>4. CASE Forget(p)
    BY <2>2, <2>3, <2>4, ForgetTypes DEF TypeOK
  <2>5. CASE ~Forget(p)
    <3>1. UNCHANGED <<start, timers>> /\ offset' \in [Process -> 0..Capacity]
      BY <1>2, <2>5 DEF Try, TypeOK
    <3> QED  BY <2>2, <2>3, <3>1 DEF TypeOK, timers
  <2> QED  BY <2>4, <2>5
<1>3. ASSUME NEW p \in Process, TimeOut(p)
      PROVE  TypeOK'
  BY <1>3 DEF TimeOut, RoundOver, Go, TypeOK, Stages, timers, roundVars
<1>4. ASSUME NEW p \in Process, Sleep(p)
      PROVE  TypeOK'
  BY <1>4 DEF Sleep, RoundOver, Go, TypeOK, Stages, roundVars
<1>5. ASSUME NEW p \in Process, WakeUp(p)
      PROVE  TypeOK'
  BY <1>5, BeginRoundTypes DEF WakeUp, TypeOK, timers
<1>6. ASSUME NEW p \in Process, Release(p)
      PROVE  TypeOK'
  BY <1>6, OwnerWithoutType DEF Release, Go, TypeOK, Stages, timers, roundVars
<1>7. ASSUME NEW p \in Process, Die(p)
      PROVE  TypeOK'
  BY <1>7, OwnerWithoutType, ForgetTypes DEF Die, Go, TypeOK, Stages
<1>8. CASE Tick
  BY <1>8 DEF Tick, Countdown, TypeOK, roundVars
<1>9. CASE UNCHANGED vars
  BY <1>9 DEF vars, timers, roundVars, TypeOK
<1> QED
  BY <1>1, <1>2, <1>3, <1>4, <1>5, <1>6, <1>7, <1>8, <1>9 DEF Next, Acquiring

LEMMA TypeInit == Init => TypeOK
BY FileLaneAssumption DEF Init, TypeOK, Stages, Slots

\* Every reachable state of the file lane is well typed; in particular no
\* process ever tries or names a lock file that does not exist.
THEOREM FileLaneTypeCorrect == Spec => []TypeOK
BY TypeInit, TypeStep, PTL DEF Spec
-----------------------------------------------------------------------------
(* Who holds a lock file.                                                  *)

LEMMA LockInit == Init => LockMeansLease
BY FileLaneAssumption DEF Init, LockMeansLease

LEMMA LockStep == TypeOK /\ LockMeansLease /\ [Next]_vars => LockMeansLease'
<1> SUFFICES ASSUME TypeOK, LockMeansLease, [Next]_vars
             PROVE  LockMeansLease'
  OBVIOUS
<1> USE FileLaneAssumption
<1>1. ASSUME NEW p \in Process, stage[p] # "holding", stage'[p] # "holding",
             \A q \in Process \ {p} : stage'[q] = stage[q],
             UNCHANGED <<lease, owner>>
      PROVE  LockMeansLease'
  BY <1>1 DEF LockMeansLease
<1>2. ASSUME NEW p \in Process, NEW timeout \in Timeouts, AcquireStart(p, timeout)
      PROVE  LockMeansLease'
  BY <1>1, <1>2 DEF AcquireStart, BeginRound, Go, TypeOK
<1>3. ASSUME NEW p \in Process, Try(p)
      PROVE  LockMeansLease'
  <2> DEFINE s == SlotAt(start[p], offset[p])
  <2>1. s \in Slots
    BY SlotAtType DEF TypeOK
  <2> HIDE DEF s
  <2>2. CASE Lock(p, s) /\ lease' = [lease EXCEPT ![p] = s] /\ Go(p, "holding")
    BY <1>3, <2>1, <2>2 DEF Try, Lock, Go, TypeOK, LockMeansLease
  <2>3. CASE LockBusy /\ UNCHANGED <<stage, lease>>
    BY <1>3, <2>3 DEF LockBusy, LockMeansLease
  <2> QED  BY <1>3, <2>2, <2>3 DEF Try, s
<1>4. ASSUME NEW p \in Process, TimeOut(p) \/ Sleep(p)
      PROVE  LockMeansLease'
  BY <1>1, <1>4 DEF TimeOut, Sleep, RoundOver, Go, TypeOK
<1>5. ASSUME NEW p \in Process, WakeUp(p)
      PROVE  LockMeansLease'
  BY <1>1, <1>5 DEF WakeUp, BeginRound, Go, TypeOK
<1>6. ASSUME NEW p \in Process, Release(p) \/ Die(p)
      PROVE  LockMeansLease'
  <2>1. /\ owner' = OwnerWithout(p) /\ lease' = lease
        /\ stage'[p] # "holding"
        /\ \A q \in Process \ {p} : stage'[q] = stage[q]
    BY <1>6 DEF Release, Die, Go, TypeOK
  <2> QED  BY <2>1 DEF OwnerWithout, TypeOK, LockMeansLease
<1>7. CASE Tick
  BY <1>7 DEF Tick, LockMeansLease
<1>8. CASE UNCHANGED vars
  BY <1>8 DEF vars, LockMeansLease
<1> QED
  BY <1>2, <1>3, <1>4, <1>5, <1>6, <1>7, <1>8 DEF Next, Acquiring

\* A lock file is locked by exactly the process whose FileLease names it: no
\* slot has two holders, and none outlives its holder's release or death.
THEOREM FileLaneLocks == Spec => []LockMeansLease
BY FileLaneTypeCorrect, LockInit, LockStep, PTL DEF Spec
-----------------------------------------------------------------------------
(* Deadlines.                                                              *)

LEMMA DeadlineStep ==
    TypeOK /\ SleepsWithinDeadline /\ [Next]_vars => SleepsWithinDeadline'
<1> SUFFICES ASSUME TypeOK, SleepsWithinDeadline, [Next]_vars
             PROVE  SleepsWithinDeadline'
  OBVIOUS
<1> USE FileLaneAssumption
<1>1. ASSUME NEW p \in Process, stage'[p] # "sleeping",
             \A q \in Process \ {p} :
                 stage'[q] = stage[q] /\ nap'[q] = nap[q] /\ remaining'[q] = remaining[q]
      PROVE  SleepsWithinDeadline'
  BY <1>1 DEF SleepsWithinDeadline
<1>2. ASSUME NEW p \in Process, NEW timeout \in Timeouts, AcquireStart(p, timeout)
      PROVE  SleepsWithinDeadline'
  BY <1>1, <1>2 DEF AcquireStart, BeginRound, Go, TypeOK
<1>3. ASSUME NEW p \in Process, Try(p) \/ TimeOut(p) \/ WakeUp(p) \/ Release(p) \/ Die(p)
      PROVE  SleepsWithinDeadline'
  BY <1>1, <1>3 DEF Try, Forget, TimeOut, WakeUp, BeginRound, Release, Die, Go,
     TypeOK, timers
<1>4. ASSUME NEW p \in Process, Sleep(p)
      PROVE  SleepsWithinDeadline'
  <2>1. PICK n \in Naps : nap' = [nap EXCEPT ![p] = IF n < remaining[p] THEN n ELSE remaining[p]]
    BY <1>4 DEF Sleep
  <2>2. n \in Nat /\ remaining[p] \in Nat /\ remaining' = remaining
    BY <1>4 DEF Sleep, TypeOK
  <2>3. nap'[p] <= remaining'[p] /\ \A q \in Process \ {p} : nap'[q] = nap[q]
    BY <2>1, <2>2 DEF TypeOK
  <2>4. \A q \in Process \ {p} : stage'[q] = stage[q]
    BY <1>4 DEF Sleep, Go, TypeOK
  <2> QED  BY <2>2, <2>3, <2>4 DEF SleepsWithinDeadline
<1>5. CASE Tick
  BY <1>5 DEF Tick, Countdown, TypeOK, SleepsWithinDeadline
<1>6. CASE UNCHANGED vars
  BY <1>6 DEF vars, timers, SleepsWithinDeadline
<1> QED
  BY <1>2, <1>3, <1>4, <1>5, <1>6 DEF Next, Acquiring

\* No process sleeps past its deadline, whatever the poll interval.
THEOREM FileLaneDeadline == Spec => []SleepsWithinDeadline
<1>1. Init => SleepsWithinDeadline
  BY DEF Init, SleepsWithinDeadline
<1> QED  BY <1>1, FileLaneTypeCorrect, DeadlineStep, PTL DEF Spec
-----------------------------------------------------------------------------
(* A full round tries every slot.                                          *)

\* The slots a full round tries are all of them, wherever it starts.
LEMMA FullRound ==
    ASSUME NEW first \in Slots
    PROVE  {SlotAt(first, i) : i \in 0..(Capacity - 1)} = Slots
<1> USE FileLaneAssumption DEF Slots
<1>1. \A i \in 0..(Capacity - 1) : SlotAt(first, i) \in Slots
  BY SlotAtType
<1>2. ASSUME NEW s \in Slots
      PROVE  \E i \in 0..(Capacity - 1) : SlotAt(first, i) = s
  <2>1. CASE s >= first
    <3>1. s - first \in 0..(Capacity - 1) /\ first + (s - first) = s /\ s % Capacity = s
      BY <2>1
    <3> QED  BY <3>1 DEF SlotAt
  <2>2. CASE s < first
    <3>1. /\ s + Capacity - first \in 0..(Capacity - 1)
          /\ first + (s + Capacity - first) = s + Capacity
      BY <2>2
    <3>2. (s + Capacity) % Capacity = s
      OBVIOUS
    <3> QED  BY <3>1, <3>2 DEF SlotAt
  <2> QED  BY <2>1, <2>2
<1> QED  BY <1>1, <1>2

\* A process that sleeps, or gave up, stands at the end of its round.
RoundComplete ==
    \A p \in Process : stage[p] \in {"sleeping", "timedout"} => offset[p] = Capacity

LEMMA RoundStep == TypeOK /\ RoundComplete /\ [Next]_vars => RoundComplete'
<1> SUFFICES ASSUME TypeOK, RoundComplete, [Next]_vars
             PROVE  RoundComplete'
  OBVIOUS
<1>1. ASSUME NEW p \in Process,
             stage'[p] \in {"sleeping", "timedout"} => offset'[p] = Capacity,
             \A q \in Process \ {p} : stage'[q] = stage[q] /\ offset'[q] = offset[q]
      PROVE  RoundComplete'
  BY <1>1 DEF RoundComplete
<1>2. ASSUME NEW p \in Process, NEW timeout \in Timeouts, AcquireStart(p, timeout)
      PROVE  RoundComplete'
  BY <1>1, <1>2 DEF AcquireStart, BeginRound, Go, TypeOK
<1>3. ASSUME NEW p \in Process, Try(p) \/ WakeUp(p) \/ Release(p) \/ Die(p)
      PROVE  RoundComplete'
  BY <1>1, <1>3 DEF Try, Forget, WakeUp, BeginRound, Release, Die, Go, TypeOK, roundVars
<1>4. ASSUME NEW p \in Process, TimeOut(p) \/ Sleep(p)
      PROVE  RoundComplete'
  BY <1>1, <1>4 DEF TimeOut, Sleep, RoundOver, Go, TypeOK, roundVars
<1>5. CASE Tick
  BY <1>5 DEF Tick, roundVars, RoundComplete
<1>6. CASE UNCHANGED vars
  BY <1>6 DEF vars, roundVars, RoundComplete
<1> QED
  BY <1>2, <1>3, <1>4, <1>5, <1>6 DEF Next, Acquiring

\* Nobody sleeps or raises FileLaneTimeout before it has tried every slot of
\* its round, for every number of slots and every random start.
THEOREM FileLaneTriesAll == Spec => []EverySlotTried
<1>1. Init => RoundComplete
  BY DEF Init, RoundComplete
<1>2. TypeOK /\ RoundComplete => EverySlotTried
  <2> SUFFICES ASSUME TypeOK, RoundComplete, NEW p \in Process,
                      RoundOver(p) \/ stage[p] \in {"sleeping", "timedout"}
               PROVE  {SlotAt(start[p], i) : i \in 0..(offset[p] - 1)} = Slots
    BY DEF EverySlotTried
  <2>1. offset[p] = Capacity /\ start[p] \in Slots
    BY DEF RoundOver, RoundComplete, TypeOK
  <2> QED  BY <2>1, FullRound
<1> QED  BY <1>1, <1>2, FileLaneTypeCorrect, RoundStep, PTL DEF Spec
-----------------------------------------------------------------------------
(* The file lane implements AdmissionPool.                                 *)

LEMMA PoolTable ==
    ASSUME NEW p \in Process
    PROVE  /\ stage[p] = "new" => PoolStatus(p) = "outside"
           /\ stage[p] \in {"trying", "sleeping"} => PoolStatus(p) = "waiting"
           /\ stage[p] = "holding" => PoolStatus(p) = "holding"
           /\ stage[p] \in {"released", "deadHolder"} => PoolStatus(p) = "gone"
           /\ stage[p] \in {"timedout", "dead"} => PoolStatus(p) = "refused"
BY DEF PoolStatus

LEMMA PoolTableNext ==
    ASSUME NEW p \in Process
    PROVE  /\ stage'[p] = "new" => PoolStatus(p)' = "outside"
           /\ stage'[p] \in {"trying", "sleeping"} => PoolStatus(p)' = "waiting"
           /\ stage'[p] = "holding" => PoolStatus(p)' = "holding"
           /\ stage'[p] \in {"released", "deadHolder"} => PoolStatus(p)' = "gone"
           /\ stage'[p] \in {"timedout", "dead"} => PoolStatus(p)' = "refused"
BY DEF PoolStatus

LEMMA PoolHolding ==
    ASSUME TypeOK
    PROVE  Pool!Holding = {p \in Process : stage[p] = "holding"}
<1>1. \A p \in Process : PoolStatus(p) = "holding" <=> stage[p] = "holding"
  <2> SUFFICES ASSUME NEW p \in Process
               PROVE  PoolStatus(p) = "holding" <=> stage[p] = "holding"
    OBVIOUS
  <2>1. stage[p] \in Stages
    BY DEF TypeOK
  <2> QED  BY <2>1, PoolTable DEF Stages
<1> QED  BY <1>1 DEF poolStatus, Pool!Holding

\* While some slot is free, fewer processes hold one than there are slots: the
\* leases map the holders one to one into the other slots.
LEMMA RoomForOne ==
    ASSUME TypeOK, LockMeansLease, NEW s \in Slots, owner[s] = NoProcess
    PROVE  Cardinality({p \in Process : stage[p] = "holding"}) < Capacity
<1> DEFINE H == {p \in Process : stage[p] = "holding"}
           f == [p \in H |-> lease[p]]
<1>1. f \in Injection(H, Slots \ {s})
  <2>1. \A p \in H : owner[lease[p]] = p /\ lease[p] \in Slots
    BY DEF LockMeansLease, TypeOK
  <2>2. f \in [H -> Slots \ {s}]
    BY <2>1, FileLaneAssumption
  <2>3. \A p, q \in H : f[p] = f[q] => p = q
    BY <2>1
  <2> QED  BY <2>2, <2>3 DEF Injection, IsInjective
<1>2. IsFiniteSet(Slots) /\ Cardinality(Slots) = Capacity
  BY FS_Interval, FileLaneAssumption DEF Slots
<1>3. IsFiniteSet(Slots \ {s}) /\ Cardinality(Slots \ {s}) = Capacity - 1
  BY <1>2, FS_RemoveElement
<1>4. IsFiniteSet(H) /\ Cardinality(H) <= Capacity - 1
  BY <1>1, <1>3, FS_Injection
<1>5. Cardinality(H) \in Nat
  BY <1>4, FS_CardinalityType
<1> QED  BY <1>4, <1>5, FileLaneAssumption

\* A step in which one process changes its status is a step of the pool in
\* which that process does.
LEMMA PoolOne ==
    ASSUME NEW p \in Process, \A q \in Process \ {p} : stage'[q] = stage[q]
    PROVE  poolStatus' = [Pool!Without({}) EXCEPT ![p] = PoolStatus(p)']
<1>1. \A q \in Process \ {p} : PoolStatus(q)' = PoolStatus(q)
  BY DEF PoolStatus
<1> QED  BY <1>1 DEF poolStatus, Pool!Without

LEMMA PoolStep ==
    TypeOK /\ TypeOK' /\ LockMeansLease /\ [Next]_vars => [Pool!Next]_poolStatus
<1> SUFFICES ASSUME TypeOK, TypeOK', LockMeansLease, [Next]_vars
             PROVE  Pool!Next \/ UNCHANGED poolStatus
  OBVIOUS
<1>0. {} \in SUBSET Pool!Holding
  OBVIOUS
<1>1. ASSUME NEW p \in Process, NEW timeout \in Timeouts, AcquireStart(p, timeout)
      PROVE  Pool!Next
  <2>1. /\ stage[p] = "new" /\ stage'[p] = "trying"
        /\ \A q \in Process \ {p} : stage'[q] = stage[q]
    BY <1>1 DEF AcquireStart, BeginRound, Go, TypeOK
  <2>2. Pool!Queue(p, {})
    BY <2>1, PoolOne, PoolTable, PoolTableNext DEF poolStatus, Pool!Queue
  <2> QED  BY <1>0, <2>2 DEF Pool!Next
<1>2. ASSUME NEW p \in Process, Try(p)
      PROVE  Pool!Next \/ UNCHANGED poolStatus
  <2> DEFINE s == SlotAt(start[p], offset[p])
  <2>1. s \in Slots
    BY SlotAtType DEF TypeOK
  <2> HIDE DEF s
  <2>2. CASE Lock(p, s) /\ Go(p, "holding")
    <3>1. /\ stage[p] = "trying" /\ stage'[p] = "holding"
          /\ \A q \in Process \ {p} : stage'[q] = stage[q]
      BY <1>2, <2>2 DEF Try, Go, TypeOK
    <3>2. Pool!Holding \ {} = {q \in Process : stage[q] = "holding"}
      BY PoolHolding
    <3>3. Cardinality(Pool!Holding \ {}) < Capacity
      BY <2>1, <2>2, <3>2, RoomForOne DEF Lock
    <3>4. Pool!Cardinality(Pool!Holding \ {}) = Cardinality(Pool!Holding \ {})
      BY DEF Pool!Cardinality, Cardinality
    <3>5. Pool!Admit(p, {})
      BY <3>1, <3>3, <3>4, PoolOne, PoolTable, PoolTableNext DEF poolStatus, Pool!Admit
    <3> QED  BY <1>0, <3>5 DEF Pool!Next
  <2>3. CASE UNCHANGED stage
    BY <2>3 DEF poolStatus, PoolStatus
  <2> QED  BY <1>2, <2>2, <2>3 DEF Try, s
<1>3. ASSUME NEW p \in Process, stage[p] \in {"trying", "sleeping", "new"},
             stage'[p] \in {"timedout", "dead"},
             \A q \in Process \ {p} : stage'[q] = stage[q]
      PROVE  Pool!Next
  <2>1. Pool!Refuse(p, {})
    BY <1>3, PoolOne, PoolTable, PoolTableNext DEF poolStatus, Pool!Refuse
  <2> QED  BY <1>0, <2>1 DEF Pool!Next
<1>4. ASSUME NEW p \in Process, Sleep(p) \/ WakeUp(p)
      PROVE  UNCHANGED poolStatus
  <2>1. /\ {stage[p], stage'[p]} \subseteq {"trying", "sleeping"}
        /\ \A q \in Process \ {p} : stage'[q] = stage[q]
    BY <1>4 DEF Sleep, RoundOver, WakeUp, BeginRound, Go, TypeOK
  <2>2. \A q \in Process : PoolStatus(q)' = PoolStatus(q)
    BY <2>1, PoolTable, PoolTableNext DEF PoolStatus
  <2> QED  BY <2>2 DEF poolStatus
<1>5. ASSUME NEW p \in Process, stage[p] = "holding",
             stage'[p] \in {"released", "deadHolder"},
             \A q \in Process \ {p} : stage'[q] = stage[q]
      PROVE  Pool!Next
  <2>1. {p} \in SUBSET Pool!Holding
    BY <1>5, PoolHolding
  <2>2. PoolStatus(p)' = "gone"
    BY <1>5, PoolTableNext
  <2>3. \A q \in Process \ {p} : PoolStatus(q)' = PoolStatus(q)
    BY <1>5 DEF PoolStatus
  <2>4. Pool!TakeBack({p})
    BY <2>2, <2>3 DEF poolStatus, Pool!TakeBack, Pool!Without
  <2> QED  BY <2>1, <2>4 DEF Pool!Next
<1>6. ASSUME NEW p \in Process, TimeOut(p) \/ Release(p) \/ Die(p)
      PROVE  Pool!Next
  BY <1>3, <1>5, <1>6 DEF TimeOut, RoundOver, Release, Die, Go, TypeOK
<1>7. CASE Tick
  BY <1>7 DEF Tick, poolStatus, PoolStatus
<1>8. CASE UNCHANGED vars
  BY <1>8 DEF vars, poolStatus, PoolStatus
<1> QED
  BY <1>1, <1>2, <1>4, <1>6, <1>7, <1>8 DEF Next, Acquiring

\* The lane of lock files keeps the promise of the lane in memory: at most
\* Capacity places, and no attempt that is over comes back.
THEOREM FileLaneImplementsPool == Spec => Pool!Spec
<1>1. Init => Pool!Init
  BY PoolTable DEF Init, poolStatus, Pool!Init
<1> QED  BY <1>1, PoolStep, FileLaneTypeCorrect, FileLaneLocks, PTL DEF Spec, Pool!Spec
=============================================================================
