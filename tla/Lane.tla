-------------------------------- MODULE Lane --------------------------------
(***************************************************************************)
(* aalp/lane.py: the ticket lane, a bounded set of leases behind one       *)
(* condition variable.                                                     *)
(*                                                                         *)
(* An element of Call is one invocation of acquire() without a token; its  *)
(* random ticket and the random token of the lease it may obtain are both  *)
(* identified with the call.  Every "with self.condition" block is one     *)
(* atomic action; a thread inside condition.wait() is in asleep, and       *)
(* notify_all() empties that set.  Clocks are counted down: ttl is         *)
(* lease.expires_at - now, remaining is deadline - now, both held at 0     *)
(* once they are past, and idleSeconds is now - last_activity.             *)
(***************************************************************************)
EXTENDS Integers, FiniteSets

CONSTANTS Call,           \* the invocations of acquire()
          Holder,         \* holder strings
          HolderOf,       \* the holder each invocation passes
          Capacity,       \* capacity
          LeaseSeconds,   \* lease_seconds, in clock ticks
          Timeouts,       \* the values of timeout_seconds, in clock ticks
          MaxIdle         \* idleSeconds is counted up to this bound

ASSUME LaneAssumption ==
    /\ HolderOf \in [Call -> Holder]
    /\ Capacity \in Nat \ {0}
    /\ LeaseSeconds \in Nat \ {0}
    /\ Timeouts \subseteq Nat
    /\ MaxIdle \in Nat
    /\ MaxIdle >= LeaseSeconds

VARIABLES phase,         \* where each invocation of acquire() stands
          waiters,       \* the calls whose ticket is in self.waiters
          ticketNo,      \* the order in which tickets were appended
          nextTicket,    \* the number of tickets appended so far
          asleep,        \* the waiters inside condition.wait()
          remaining,     \* deadline - now, of a call in acquire()
          leases,        \* the calls whose token is a key of self.leases
          ttl,           \* expires_at - now, of a lease
          idleSeconds,   \* now - last_activity
          released       \* history: who called release(), of what, and got True

queueVars == <<phase, waiters, ticketNo, nextTicket, remaining>>
vars == <<phase, waiters, ticketNo, nextTicket, asleep, remaining, leases, ttl,
          idleSeconds, released>>

Phases == {"new", "entering", "waiting", "admitted", "timedout"}

Init ==
    /\ phase = [c \in Call |-> "new"]
    /\ waiters = {}
    /\ ticketNo = [c \in Call |-> 0]
    /\ nextTicket = 0
    /\ asleep = {}
    /\ remaining = [c \in Call |-> 0]
    /\ leases = {}
    /\ ttl = [c \in Call |-> 0]
    /\ idleSeconds = 0
    /\ released = {}
-----------------------------------------------------------------------------
(***************************************************************************)
(* _expire(): what it deletes, and what it leaves of the three pieces of   *)
(* state it touches.                                                       *)
(***************************************************************************)
ExpiredATickEarly == {c \in leases : ttl[c] <= 1}

Expired == {c \in leases : ttl[c] = 0}
Live    == leases \ Expired

StillAsleep     == IF Expired = {} THEN asleep ELSE {}
IdleAfterExpiry == IF Expired = {} THEN idleSeconds ELSE 0

ExpireOnly ==
    /\ leases' = Live
    /\ asleep' = StillAsleep
    /\ idleSeconds' = IdleAfterExpiry
    /\ UNCHANGED <<queueVars, ttl, released>>

\* The waiters in front of c: its position is their number.
Ahead(c) == {w \in waiters : ticketNo[w] < ticketNo[c]}

HasTurnOffByOne(ahead, held)   == Cardinality(ahead) <= Capacity - Cardinality(held)
HasTurnOutOfOrder(ahead, held) == Cardinality(held) < Capacity

\* position < available (which implies available > 0).
HasTurn(ahead, held) == Cardinality(ahead) < Capacity - Cardinality(held)
-----------------------------------------------------------------------------
(***************************************************************************)
(* One turn of the loop in acquire(), by a call with the given waiters in  *)
(* front of it: return a lease, raise LaneTimeout, or wait.                *)
(***************************************************************************)
Admit(c, ahead) ==
    /\ HasTurn(ahead, Live)
    /\ waiters' = waiters \ {c}
    /\ leases' = Live \cup {c}
    /\ ttl' = [ttl EXCEPT ![c] = LeaseSeconds]
    /\ phase' = [phase EXCEPT ![c] = "admitted"]
    /\ remaining' = [remaining EXCEPT ![c] = 0]
    /\ asleep' = {}
    /\ idleSeconds' = 0

GiveUpWithoutFinally(c, ahead) ==
    /\ ~HasTurn(ahead, Live)
    /\ remaining[c] = 0
    /\ leases' = Live
    /\ phase' = [phase EXCEPT ![c] = "timedout"]
    /\ asleep' = StillAsleep
    /\ idleSeconds' = IdleAfterExpiry
    /\ waiters' = waiters \cup {c}
    /\ UNCHANGED <<ttl, remaining>>

GiveUp(c, ahead) ==
    /\ ~HasTurn(ahead, Live)
    /\ remaining[c] = 0
    /\ waiters' = waiters \ {c}
    /\ leases' = Live
    /\ phase' = [phase EXCEPT ![c] = "timedout"]
    /\ asleep' = {}
    /\ idleSeconds' = IdleAfterExpiry
    /\ UNCHANGED <<ttl, remaining>>

Wait(c, ahead) ==
    /\ ~HasTurn(ahead, Live)
    /\ remaining[c] > 0
    /\ waiters' = waiters \cup {c}
    /\ leases' = Live
    /\ phase' = [phase EXCEPT ![c] = "waiting"]
    /\ asleep' = StillAsleep \cup {c}
    /\ idleSeconds' = IdleAfterExpiry
    /\ UNCHANGED <<ttl, remaining>>

Attempt(c, ahead) == Admit(c, ahead) \/ GiveUp(c, ahead) \/ Wait(c, ahead)
-----------------------------------------------------------------------------
\* acquire(holder, timeout) up to the lock: the deadline is computed outside it.
AcquireStart(c, timeout) ==
    /\ phase[c] = "new"
    /\ phase' = [phase EXCEPT ![c] = "entering"]
    /\ remaining' = [remaining EXCEPT ![c] = timeout]
    /\ UNCHANGED <<waiters, ticketNo, nextTicket, asleep, leases, ttl, idleSeconds,
                   released>>

\* The lock is taken, a ticket is appended, and the loop runs once.
AcquireEnter(c) ==
    /\ phase[c] = "entering"
    /\ ticketNo' = [ticketNo EXCEPT ![c] = nextTicket]
    /\ nextTicket' = nextTicket + 1
    /\ Attempt(c, waiters)
    /\ UNCHANGED released

\* condition.wait() returned: the loop runs again.
Recheck(c) ==
    /\ c \in waiters \ asleep
    /\ Attempt(c, Ahead(c))
    /\ UNCHANGED <<ticketNo, nextTicket, released>>

WaitWithoutTimeout(c) == c \in asleep /\ FALSE /\ UNCHANGED vars

\* condition.wait(min(remaining, 0.25)) returns by itself, at any time.
PollElapsed(c) ==
    /\ c \in asleep
    /\ asleep' = asleep \ {c}
    /\ UNCHANGED <<queueVars, leases, ttl, idleSeconds, released>>

Acquire(c) == AcquireEnter(c) \/ Recheck(c) \/ PollElapsed(c)

\* The lease of c is held, by h, once the lapsed ones are gone.
HeldBy(h, c) == c \in Live /\ HolderOf[c] = h

RenewOnTop(h, c) ==
    \/ /\ HeldBy(h, c)
       /\ ttl' = [ttl EXCEPT ![c] = @ + LeaseSeconds]
       /\ leases' = Live
       /\ asleep' = StillAsleep
       /\ idleSeconds' = 0
       /\ UNCHANGED <<queueVars, released>>
    \/ ~HeldBy(h, c) /\ ExpireOnly

\* heartbeat(h, token), and acquire(h, _, token) which renews the same way;
\* for a token not held by h, only the expiry happens (False, ValueError).
Renew(h, c) ==
    \/ /\ HeldBy(h, c)
       /\ ttl' = [ttl EXCEPT ![c] = LeaseSeconds]
       /\ leases' = Live
       /\ asleep' = StillAsleep
       /\ idleSeconds' = 0
       /\ UNCHANGED <<queueVars, released>>
    \/ ~HeldBy(h, c) /\ ExpireOnly

Heartbeat(h, c)        == phase[c] = "admitted" /\ Renew(h, c)
AcquireReentrant(h, c) == phase[c] = "admitted" /\ Renew(h, c)

ReleaseWithoutNotify(h, c) ==
    /\ phase[c] = "admitted"
    /\ \/ /\ HeldBy(h, c)
          /\ leases' = Live \ {c}
          /\ ttl' = [ttl EXCEPT ![c] = 0]
          /\ asleep' = StillAsleep
          /\ idleSeconds' = 0
          /\ released' = released \cup {<<h, c>>}
          /\ UNCHANGED queueVars
       \/ ~HeldBy(h, c) /\ ExpireOnly

ReleaseByAnyone(h, c) ==
    /\ phase[c] = "admitted"
    /\ \/ /\ c \in Live
          /\ leases' = Live \ {c}
          /\ ttl' = [ttl EXCEPT ![c] = 0]
          /\ asleep' = {}
          /\ idleSeconds' = 0
          /\ released' = released \cup {<<h, c>>}
          /\ UNCHANGED queueVars
       \/ c \notin Live /\ ExpireOnly

\* release(h, token): True in the first case, False in the second.
Release(h, c) ==
    /\ phase[c] = "admitted"
    /\ \/ /\ HeldBy(h, c)
          /\ leases' = Live \ {c}
          /\ ttl' = [ttl EXCEPT ![c] = 0]
          /\ asleep' = {}
          /\ idleSeconds' = 0
          /\ released' = released \cup {<<h, c>>}
          /\ UNCHANGED queueVars
       \/ ~HeldBy(h, c) /\ ExpireOnly

\* status() reads the lane, and expires what has lapsed.
Status == ExpireOnly

\* One tick of the clock; a timer that is past stays at 0.
Countdown(timer) == [c \in Call |-> IF timer[c] > 0 THEN timer[c] - 1 ELSE 0]

Tick ==
    /\ remaining' = Countdown(remaining)
    /\ ttl' = Countdown(ttl)
    /\ idleSeconds' = IF idleSeconds < MaxIdle THEN idleSeconds + 1 ELSE MaxIdle
    /\ UNCHANGED <<phase, waiters, ticketNo, nextTicket, asleep, leases, released>>

Next ==
    \/ \E c \in Call :
          \/ \E timeout \in Timeouts : AcquireStart(c, timeout)
          \/ Acquire(c)
          \/ \E h \in Holder :
                Heartbeat(h, c) \/ AcquireReentrant(h, c) \/ Release(h, c)
    \/ Status
    \/ Tick

Spec == Init /\ [][Next]_vars

(***************************************************************************)
(* A thread inside acquire() is scheduled in the end, condition.wait()     *)
(* returns within its 0.25 seconds, and the clock advances.  Nobody is     *)
(* obliged to release, to heartbeat or to ask for the status.              *)
(***************************************************************************)
Fairness ==
    /\ \A c \in Call : /\ WF_vars(AcquireEnter(c))
                       /\ WF_vars(Recheck(c))
                       /\ WF_vars(PollElapsed(c))
    /\ WF_vars(Tick)

FairSpec == Spec /\ Fairness
-----------------------------------------------------------------------------
TypeOK ==
    /\ phase \in [Call -> Phases]
    /\ waiters \subseteq Call
    /\ ticketNo \in [Call -> Nat]
    /\ nextTicket \in Nat
    /\ asleep \subseteq waiters
    /\ remaining \in [Call -> Nat]
    /\ leases \subseteq Call
    /\ ttl \in [Call -> 0..LeaseSeconds]
    /\ idleSeconds \in 0..MaxIdle
    /\ released \subseteq Holder \X Call

\* The lane never grants more than its capacity: len(leases) <= capacity, with
\* lapsed leases that nobody has collected yet still counted.
CapacityBound == Cardinality(leases) <= Capacity

\* After LaneTimeout nothing is held and no ticket is left behind
\* (acquire()'s docstring), so the next waiter never queues behind a ghost.
NothingHeldAfterTimeout ==
    \A c \in Call : phase[c] = "timedout" => c \notin waiters \cup leases

\* No wakeup is missed: a waiter whose turn it is, by the leases recorded, is
\* never left inside condition.wait() for the 0.25 second poll to find it.
NoMissedWakeup ==
    \A c \in waiters : HasTurn(Ahead(c), leases) => c \notin asleep

\* A waiter overtaken by a later ticket has its own turn already: overtaking
\* never costs the older ticket a slot, though it is not strictly FIFO.
OvertakenHasTurn ==
    \A w \in waiters, c \in leases :
        ticketNo[w] < ticketNo[c] => HasTurn(Ahead(w), leases)

\* A waiter whose turn has come keeps it until it is admitted: no arrival,
\* renewal, timeout or admission of another call takes the turn away.
NeverLosesTurn ==
    [][\A c \in waiters \cap waiters' :
          HasTurn(Ahead(c), leases) => HasTurn(Ahead(c), leases)']_vars

\* A lease ends by lapsing, "never sooner", or in a release() called by its own
\* holder: not by a stranger's call or by another lease's end.
LeaseLastsItsTerm ==
    [][\A c \in leases : c \notin leases' =>
          ttl[c] = 0 \/ <<HolderOf[c], c>> \in released' \ released]_vars

\* Every grant and renewal counts as activity: the idle time status() reports
\* is never longer than any unlapsed lease has gone without renewal.
IdleSinceRenewal == \A c \in Live : idleSeconds <= LeaseSeconds - ttl[c]

\* Admission is strictly FIFO (the module's docstring): whoever is granted a
\* lease leaves no earlier ticket waiting behind it.
StrictFifo ==
    [][\A c \in leases' \ leases : \A w \in waiters' :
          ticketNo'[c] < ticketNo'[w]]_vars

\* acquire() returns: every call that passed its argument checks obtains a
\* lease or raises LaneTimeout, whatever the lease holders do.
AcquireReturns ==
    \A c \in Call : phase[c] = "entering" ~> phase[c] \in {"admitted", "timedout"}
-----------------------------------------------------------------------------
(***************************************************************************)
(* The lane implements AdmissionPool.                                      *)
(***************************************************************************)
PoolStatus(c) ==
    CASE phase[c] \in {"new", "entering"}             -> "outside"
      [] phase[c] = "waiting"                         -> "waiting"
      [] phase[c] = "admitted" /\ c \in leases        -> "holding"
      [] phase[c] = "admitted" /\ c \notin leases     -> "gone"
      [] phase[c] = "timedout"                        -> "refused"

poolStatus == [c \in Call |-> PoolStatus(c)]

Pool == INSTANCE AdmissionPool WITH status <- poolStatus

\* Every step of the lane is a step of the pool or invisible to it, and every
\* waiting call is settled in the end.
ImplementsPool == Pool!FairSpec
=============================================================================
