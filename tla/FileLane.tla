------------------------------ MODULE FileLane ------------------------------
(***************************************************************************)
(* aalp/file_lane.py over aalp/filelock_compat.py: the lane without a      *)
(* daemon.  A provider owns Capacity lock files; a process is admitted by  *)
(* locking one of them, and polls for that until its deadline.             *)
(*                                                                         *)
(* Every agent invocation is a process of its own, and an element of       *)
(* Process is one of them, which calls acquire() once.  The operating      *)
(* system keeps at most one owner per lock file and takes the locks of a   *)
(* process that dies.  A FileLock is opened, locked or closed in one step: *)
(* an open descriptor without the lock is visible to nobody.  Clocks are   *)
(* counted down, as in Lane.                                               *)
(***************************************************************************)
EXTENDS Integers

CONSTANTS Process,     \* the processes that want a slot
          Capacity,    \* concurrency_limit: how many lock files there are
          Timeouts,    \* the values of timeout_seconds, in clock ticks
          Naps,        \* the values of sleep_for, in clock ticks
          NoProcess    \* the owner of a free lock file

ASSUME FileLaneAssumption ==
    /\ Capacity \in Nat \ {0}
    /\ Timeouts \subseteq Nat
    /\ Naps \subseteq Nat \ {0}
    /\ NoProcess \notin Process

VARIABLES stage,       \* where each process stands
          start,       \* the slot its round of attempts began with
          offset,      \* how many slots it has tried in that round
          remaining,   \* deadline - now
          nap,         \* what is left of its time.sleep()
          lease,       \* the slot of its FileLease
          owner        \* the process that has locked each slot's file

roundVars == <<start, offset>>
timers    == <<remaining, nap>>
vars      == <<stage, roundVars, timers, lease, owner>>

Slots == 0..(Capacity - 1)

Init ==
    /\ stage = [p \in Process |-> "new"]
    /\ start = [p \in Process |-> 0]
    /\ offset = [p \in Process |-> 0]
    /\ remaining = [p \in Process |-> 0]
    /\ nap = [p \in Process |-> 0]
    /\ lease = [p \in Process |-> 0]
    /\ owner = [s \in Slots |-> NoProcess]

Go(p, to) == stage' = [stage EXCEPT ![p] = to]

\* acquire() is over, and its local variables with it.
Forget(p) ==
    /\ start' = [start EXCEPT ![p] = 0]
    /\ offset' = [offset EXCEPT ![p] = 0]
    /\ remaining' = [remaining EXCEPT ![p] = 0]
    /\ nap' = [nap EXCEPT ![p] = 0]
-----------------------------------------------------------------------------
(* acquire().                                                              *)

BeginRoundPastLast(p) ==
    /\ Go(p, "trying")
    /\ \E s \in 0..Capacity : start' = [start EXCEPT ![p] = s]
    /\ offset' = [offset EXCEPT ![p] = 0]

\* _try_slots_once() begins, at a random slot.
BeginRound(p) ==
    /\ Go(p, "trying")
    /\ \E s \in Slots : start' = [start EXCEPT ![p] = s]
    /\ offset' = [offset EXCEPT ![p] = 0]

AcquireStart(p, timeout) ==
    /\ stage[p] = "new"
    /\ remaining' = [remaining EXCEPT ![p] = timeout]
    /\ BeginRound(p)
    /\ UNCHANGED <<nap, lease, owner>>

SlotAtWithoutWrap(first, i) == IF first + i < Capacity THEN first + i ELSE Capacity - 1

SlotAt(first, i) == (first + i) % Capacity

LockRegardless(p, s) == owner' = [owner EXCEPT ![s] = p]

\* FileLock.acquire(), which never blocks: it locks the file, or raises LockBusy,
\* for a file that another process has locked and for any other OSError of flock().
Lock(p, s) == owner[s] = NoProcess /\ owner' = [owner EXCEPT ![s] = p]
LockBusy   == UNCHANGED owner

\* The next slot of the round.
Try(p) ==
    LET s == SlotAt(start[p], offset[p]) IN
    /\ stage[p] = "trying" /\ offset[p] < Capacity
    /\ \/ /\ Lock(p, s)
          /\ lease' = [lease EXCEPT ![p] = s]
          /\ Go(p, "holding")
          /\ Forget(p)
       \/ /\ LockBusy
          /\ offset' = [offset EXCEPT ![p] = @ + 1]
          /\ UNCHANGED <<stage, start, timers, lease>>

\* Every slot was busy when it was tried, or could not be locked.
RoundOver(p) == stage[p] = "trying" /\ offset[p] = Capacity

\* FileLaneTimeout.
TimeOutNever(p) == RoundOver(p) /\ FALSE /\ UNCHANGED vars

TimeOut(p) ==
    /\ RoundOver(p)
    /\ remaining[p] = 0
    /\ Go(p, "timedout")
    /\ UNCHANGED <<roundVars, timers, lease, owner>>

\* time.sleep(min(remaining, sleep_for)).
Sleep(p) ==
    /\ RoundOver(p)
    /\ remaining[p] > 0
    /\ Go(p, "sleeping")
    /\ \E n \in Naps :
          nap' = [nap EXCEPT ![p] = IF n < remaining[p] THEN n ELSE remaining[p]]
    /\ UNCHANGED <<roundVars, remaining, lease, owner>>

WakeUp(p) ==
    /\ stage[p] = "sleeping"
    /\ nap[p] = 0
    /\ BeginRound(p)
    /\ UNCHANGED <<timers, lease, owner>>

Acquiring(p) == Try(p) \/ TimeOut(p) \/ Sleep(p) \/ WakeUp(p)
-----------------------------------------------------------------------------
\* The locks of p are gone with its descriptors.
OwnerWithout(p) == [s \in Slots |-> IF owner[s] = p THEN NoProcess ELSE owner[s]]

\* FileLease.release(), which does nothing the second time.
ReleaseWithoutClosing(p) ==
    /\ stage[p] = "holding"
    /\ Go(p, "released")
    /\ UNCHANGED <<roundVars, timers, lease, owner>>

Release(p) ==
    /\ stage[p] = "holding"
    /\ Go(p, "released")
    /\ owner' = OwnerWithout(p)
    /\ UNCHANGED <<roundVars, timers, lease>>

\* The process is killed, or leaves, in acquire() or with a lease.
Die(p) ==
    /\ \/ stage[p] \in {"new", "trying", "sleeping"} /\ Go(p, "dead")
       \/ stage[p] = "holding" /\ Go(p, "deadHolder")
    /\ owner' = OwnerWithout(p)
    /\ Forget(p)
    /\ UNCHANGED lease

\* One tick of the clock; a timer that is past stays at 0.
Countdown(timer) == [p \in Process |-> IF timer[p] > 0 THEN timer[p] - 1 ELSE 0]

Tick ==
    /\ remaining' = Countdown(remaining)
    /\ nap' = Countdown(nap)
    /\ UNCHANGED <<stage, roundVars, lease, owner>>

Next ==
    \/ \E p \in Process :
          \/ \E timeout \in Timeouts : AcquireStart(p, timeout)
          \/ Acquiring(p) \/ Release(p) \/ Die(p)
    \/ Tick

Spec == Init /\ [][Next]_vars

(***************************************************************************)
(* A process inside acquire() is scheduled in the end, and the clock       *)
(* advances.  A holder may hang for ever: it need neither release nor die. *)
(***************************************************************************)
Fairness ==
    /\ \A p \in Process : WF_vars(Acquiring(p))
    /\ WF_vars(Tick)

FairSpec == Spec /\ Fairness
-----------------------------------------------------------------------------
Stages == {"new", "trying", "sleeping", "holding", "timedout", "released", "dead",
           "deadHolder"}

TypeOK ==
    /\ stage \in [Process -> Stages]
    /\ start \in [Process -> Slots]
    /\ offset \in [Process -> 0..Capacity]
    /\ remaining \in [Process -> Nat]
    /\ nap \in [Process -> Nat]
    /\ lease \in [Process -> Slots]
    /\ owner \in [Slots -> Process \cup {NoProcess}]

\* A lock file is locked by exactly the process whose lease names it: no slot
\* has two holders, and none stays locked by a process that timed out,
\* released or died ("nothing is held and no cleanup is required").
LockMeansLease ==
    \A s \in Slots, p \in Process :
        owner[s] = p <=> stage[p] = "holding" /\ lease[p] = s

\* A process sleeps or gives up only after it has tried every slot, wherever
\* its round began: no slot is left out by the random start and the wrap.
EverySlotTried ==
    \A p \in Process : RoundOver(p) \/ stage[p] \in {"sleeping", "timedout"} =>
        {SlotAt(start[p], i) : i \in 0..(offset[p] - 1)} = Slots

\* Nobody sleeps past its deadline ("there is no code path here that can block
\* past the caller's own deadline").
SleepsWithinDeadline ==
    \A p \in Process : stage[p] = "sleeping" => nap[p] <= remaining[p]

\* acquire() returns though every holder may hang: with a slot or
\* FileLaneTimeout, unless its own process dies.
AcquireReturns ==
    \A p \in Process : stage[p] = "trying" ~> stage[p] \in {"holding", "timedout", "dead"}
-----------------------------------------------------------------------------
(***************************************************************************)
(* The file lane implements the same AdmissionPool as Lane, without its    *)
(* tickets: a process that dies in acquire() counts as refused, one that   *)
(* dies as a holder as gone.                                               *)
(***************************************************************************)
PoolStatus(p) ==
    CASE stage[p] = "new"                          -> "outside"
      [] stage[p] \in {"trying", "sleeping"}       -> "waiting"
      [] stage[p] = "holding"                      -> "holding"
      [] stage[p] \in {"released", "deadHolder"}   -> "gone"
      [] stage[p] \in {"timedout", "dead"}         -> "refused"

poolStatus == [p \in Process |-> PoolStatus(p)]

Pool == INSTANCE AdmissionPool WITH status <- poolStatus, Call <- Process

\* Every step of a process is a step of the pool or invisible to it, and every
\* process that waits is settled in the end.
ImplementsPool == Pool!FairSpec
=============================================================================
