----------------------------- MODULE Coalescing -----------------------------
(***************************************************************************)
(* aalp/queue.py and Gateway.handle_queue(): requests with the same queue  *)
(* key are coalesced into generations.  The member that opens a generation *)
(* leads it: it waits in the provider's lane for all of them, closes the   *)
(* generation to newcomers, sends one physical request, and publishes its  *)
(* result; the joiners wait for that, each at most until its own deadline. *)
(*                                                                         *)
(* A generation is identified with the member that leads it.  A block that *)
(* holds _queue_lock is one action.  The provider's lane is an instance of *)
(* AdmissionPool; _execute_admitted(), the subject of Gateway, is one step *)
(* here.  Budgets are flags that time may set.                             *)
(***************************************************************************)
EXTENDS Integers, Sequences, Functions

CONSTANTS Member,      \* the requests
          Key,         \* queue keys of one provider
          KeyOf,       \* the key each request carries
          NoMember,    \* not a request
          Sizes,       \* the sizes of a member_block, in bytes
          MaxBytes,    \* max_queue_input_bytes
          Capacity     \* provider.concurrency_limit

ASSUME CoalescingAssumption ==
    /\ KeyOf \in [Member -> Key]
    /\ NoMember \notin Member
    /\ Sizes \subseteq Nat
    /\ MaxBytes \in Nat \ {0}
    /\ Capacity \in Nat \ {0}

VARIABLES stage,       \* where each request's thread stands
          answer,      \* the outcome it returns
          earlier,     \* of each request under way, those that read the clock before it
          queueSpent,  \* the requests past their queue deadline
          totalSpent   \* the requests past their total deadline

VARIABLES state,       \* QueueGeneration.state
          members,     \* QueueGeneration.members
          bytes,       \* _QueueSlot.total_member_bytes
          openSlot,    \* _open_queue_slots
          result,      \* _QueueSlot.result
          doneEvent,   \* the generations whose done_event is set
          sent         \* the members in the physical body that was sent

VARIABLES status,      \* the provider's lane
          active       \* whether the provider is active: fixed when the process starts

requestVars == <<stage, answer>>
budgetVars  == <<earlier, queueSpent, totalSpent>>
slotVars    == <<members, bytes, openSlot>>
doneVars    == <<result, doneEvent>>
vars        == <<requestVars, budgetVars, slotVars, state, doneVars, sent, status,
                 active>>

Lane == INSTANCE AdmissionPool WITH Call <- Member

Init ==
    /\ stage = [m \in Member |-> "new"]
    /\ answer = [m \in Member |-> "none"]
    /\ earlier = [m \in Member |-> {}]
    /\ queueSpent = {}
    /\ totalSpent = {}
    /\ state = [g \in Member |-> "none"]
    /\ members = [g \in Member |-> << >>]
    /\ bytes = [g \in Member |-> 0]
    /\ openSlot = [k \in Key |-> NoMember]
    /\ result = [g \in Member |-> "none"]
    /\ doneEvent = {}
    /\ sent = [g \in Member |-> << >>]
    /\ Lane!Init
    /\ active \in BOOLEAN

Go(m, to) == stage' = [stage EXCEPT ![m] = to]

AnsweredStillTimed(m, outcome) ==
    /\ Go(m, "answered")
    /\ answer' = [answer EXCEPT ![m] = outcome]
    /\ UNCHANGED budgetVars

\* The requests that have read the clock and not returned.
Underway == {m \in Member : stage[m] \notin {"new", "answered"}}

\* The request's thread returns, and its budgets with it.
Answered(m, outcome) ==
    /\ Go(m, "answered")
    /\ answer' = [answer EXCEPT ![m] = outcome]
    /\ earlier' = [n \in Member |-> IF n = m THEN {} ELSE earlier[n] \ {m}]
    /\ queueSpent' = queueSpent \ {m}
    /\ totalSpent' = totalSpent \ {m}

Generations == {g \in Member : state[g] # "none"}
GenOf(m)    == CHOOSE g \in Generations : m \in Range(members[g])
-----------------------------------------------------------------------------
(***************************************************************************)
(* Time.  The budgets are the provider's, so whoever started first runs    *)
(* out first; the queue budget and the total budget are configured apart.  *)
(* A budget is followed only while a thread may look at it.                *)
(***************************************************************************)
Waiting  == {"arrived", "leading", "waiting", "joined"}
Deciding == Waiting \cup {"closing", "closed"}

\* m is the oldest of the requests in the given stages that are not in spent.
RunsOutNext(m, stages, spent) ==
    /\ stage[m] \in stages /\ m \notin spent
    /\ \A n \in earlier[m] : stage[n] \in stages => n \in spent

QueueBudgetSpent(m) ==
    /\ RunsOutNext(m, Waiting, queueSpent)
    /\ queueSpent' = queueSpent \cup {m}
    /\ UNCHANGED <<requestVars, earlier, totalSpent, slotVars, state, doneVars, sent, status, active>>

TotalBudgetSpent(m) ==
    /\ RunsOutNext(m, Deciding, totalSpent)
    /\ totalSpent' = totalSpent \cup {m}
    /\ UNCHANGED <<requestVars, earlier, queueSpent, slotVars, state, doneVars, sent, status, active>>
-----------------------------------------------------------------------------
(* handle_queue().                                                         *)

\* The clock is read, and the payload is parsed.  A request refused here (in
\* maintenance, past its total deadline, malformed, or by an exception) is
\* answered with a generation of its own that nobody can join, or with none.
Arrive(m) ==
    /\ stage[m] = "new"
    /\ \/ /\ Go(m, "arrived")
          /\ earlier' = [earlier EXCEPT ![m] = Underway]
          /\ UNCHANGED <<answer, queueSpent, totalSpent>>
       \/ Answered(m, "refused")
    /\ UNCHANGED <<slotVars, state, doneVars, sent, status, active>>

\* Under _queue_lock: open a generation, registered unless it is full already.
Open(m, blockBytes) ==
    LET k == KeyOf[m] IN
    /\ stage[m] = "arrived"
    /\ openSlot[k] = NoMember
    /\ Go(m, "leading")
    /\ members' = [members EXCEPT ![m] = <<m>>]
    /\ bytes' = [bytes EXCEPT ![m] = blockBytes]
    /\ \/ /\ blockBytes >= MaxBytes
          /\ state' = [state EXCEPT ![m] = "ready"]
          /\ UNCHANGED openSlot
       \/ /\ blockBytes < MaxBytes
          /\ state' = [state EXCEPT ![m] = "open"]
          /\ openSlot' = [openSlot EXCEPT ![k] = m]
    /\ UNCHANGED <<answer, budgetVars, doneVars, sent, status, active>>

\* Under _queue_lock: join the registered generation, and seal it when full.
\* append() would raise for a sealed one; OpenIffRegistered says it never is.
JoinSealingLate(m, blockBytes) ==
    LET g == openSlot[KeyOf[m]] IN
    /\ stage[m] = "arrived"
    /\ g # NoMember
    /\ Go(m, "joined")
    /\ members' = [members EXCEPT ![g] = Append(@, m)]
    /\ bytes' = [bytes EXCEPT ![g] = @ + blockBytes]
    /\ IF bytes'[g] > MaxBytes
       THEN /\ state' = [state EXCEPT ![g] = "ready"]
            /\ openSlot' = [openSlot EXCEPT ![KeyOf[m]] = NoMember]
       ELSE UNCHANGED <<state, openSlot>>
    /\ UNCHANGED <<answer, budgetVars, doneVars, sent, status, active>>

Join(m, blockBytes) ==
    LET g == openSlot[KeyOf[m]] IN
    /\ stage[m] = "arrived"
    /\ g # NoMember
    /\ Go(m, "joined")
    /\ members' = [members EXCEPT ![g] = Append(@, m)]
    /\ bytes' = [bytes EXCEPT ![g] = @ + blockBytes]
    /\ \/ /\ bytes'[g] >= MaxBytes
          /\ state' = [state EXCEPT ![g] = "ready"]
          /\ openSlot' = [openSlot EXCEPT ![KeyOf[m]] = NoMember]
       \/ /\ bytes'[g] < MaxBytes
          /\ UNCHANGED <<state, openSlot>>
    /\ UNCHANGED <<answer, budgetVars, doneVars, sent, status, active>>
-----------------------------------------------------------------------------
(* _run_leader().                                                          *)

\* The leader heads for _close_open_slot() with the outcome it has so far.
CloseWith(m, outcome) ==
    /\ Go(m, "closing")
    /\ answer' = [answer EXCEPT ![m] = outcome]

\* The provider is unknown or inactive, or the queue deadline is past.
SkipLane(m) ==
    /\ stage[m] = "leading"
    /\ \/ ~active /\ CloseWith(m, "unavailable")
       \/ active /\ m \in queueSpent /\ CloseWith(m, "queue_timeout")
    /\ UNCHANGED <<budgetVars, slotVars, state, doneVars, sent, status, active>>

\* lane.acquire(): admitted, now or after waiting; or LaneTimeout.
Queue(m) ==
    /\ stage[m] = "leading" /\ active /\ m \notin queueSpent
    /\ Go(m, "waiting")
    /\ Lane!Queue(m, {})
    /\ UNCHANGED <<answer, budgetVars, slotVars, state, doneVars, sent, active>>

Admitted(m) ==
    /\ \/ stage[m] = "leading" /\ active /\ m \notin queueSpent
       \/ stage[m] = "waiting"
    /\ CloseWith(m, "none")
    /\ Lane!Admit(m, {})
    /\ UNCHANGED <<budgetVars, slotVars, state, doneVars, sent, active>>

LaneTimeout(m) ==
    /\ stage[m] = "waiting"
    /\ m \in queueSpent
    /\ CloseWith(m, "queue_timeout")
    /\ Lane!Refuse(m, {})
    /\ UNCHANGED <<budgetVars, slotVars, state, doneVars, sent, active>>

CloseOpenSlotBlindly(m) ==
    /\ stage[m] = "closing"
    /\ Go(m, "closed")
    /\ openSlot' = [openSlot EXCEPT ![KeyOf[m]] = NoMember]
    /\ state' = [state EXCEPT ![m] = IF @ = "open" THEN "ready" ELSE @]
    /\ UNCHANGED <<answer, budgetVars, members, bytes, doneVars, sent, status, active>>

CloseOpenSlotUnsealed(m) ==
    /\ stage[m] = "closing"
    /\ Go(m, "closed")
    /\ state' = [state EXCEPT ![m] = IF @ = "open" THEN "ready" ELSE @]
    /\ UNCHANGED <<answer, budgetVars, slotVars, doneVars, sent, status, active>>

\* _close_open_slot(): unregister this generation, and no other, and seal it.
CloseOpenSlot(m) ==
    /\ stage[m] = "closing"
    /\ Go(m, "closed")
    /\ openSlot' = [k \in Key |-> IF k = KeyOf[m] /\ openSlot[k] = m THEN NoMember
                                  ELSE openSlot[k]]
    /\ state' = [state EXCEPT ![m] = IF @ = "open" THEN "ready" ELSE @]
    /\ UNCHANGED <<answer, budgetVars, members, bytes, doneVars, sent, status, active>>

Release(m) == Lane!TakeBack({m} \cap Lane!Holding)

HasToken(m) == answer[m] = "none"

\* The lane or the total deadline refused: the generation is not sent.
NotSent(m) ==
    /\ stage[m] = "closed"
    /\ \/ ~HasToken(m) /\ UNCHANGED <<answer, status>>
       \/ /\ HasToken(m) /\ m \in totalSpent
          /\ Release(m)
          /\ answer' = [answer EXCEPT ![m] = "total_timeout"]
    /\ Go(m, "finishing")
    /\ UNCHANGED <<budgetVars, slotVars, state, doneVars, sent, active>>

\* build_physical_body() raises QueueEnvelopeError: some member is malformed.
Malformed(m) ==
    /\ stage[m] = "closed" /\ HasToken(m) /\ m \notin totalSpent
    /\ Release(m)
    /\ Go(m, "finishing")
    /\ answer' = [answer EXCEPT ![m] = "unavailable"]
    /\ UNCHANGED <<budgetVars, slotVars, state, doneVars, sent, active>>

\* The body is assembled from all members, and mark_in_flight().
SendLeaderOnly(m) ==
    /\ stage[m] = "closed" /\ HasToken(m) /\ m \notin totalSpent
    /\ Go(m, "executing")
    /\ sent' = [sent EXCEPT ![m] = <<m>>]
    /\ state' = [state EXCEPT ![m] = "in_flight"]
    /\ UNCHANGED <<answer, budgetVars, slotVars, doneVars, status, active>>

Send(m) ==
    /\ stage[m] = "closed" /\ HasToken(m) /\ m \notin totalSpent
    /\ Go(m, "executing")
    /\ sent' = [sent EXCEPT ![m] = members[m]]
    /\ state' = [state EXCEPT ![m] = "in_flight"]
    /\ UNCHANGED <<answer, budgetVars, slotVars, doneVars, status, active>>

\* _execute_admitted() returns; the slot is released, or left in quarantine.
Executed(m) ==
    /\ stage[m] = "executing"
    /\ Go(m, "finishing")
    /\ answer' = [answer EXCEPT ![m] = "upstream_result"]
    /\ Release(m) \/ UNCHANGED status
    /\ UNCHANGED <<budgetVars, slotVars, state, doneVars, sent, active>>

\* An exception nobody catches: from build_physical_body() other than
\* QueueEnvelopeError, or from _execute_admitted().
LeaderRaises(m) ==
    /\ \/ stage[m] = "closed" /\ HasToken(m) /\ m \notin totalSpent
       \/ stage[m] = "executing"
    /\ Answered(m, "exception")
    /\ UNCHANGED <<slotVars, state, doneVars, sent, status, active>>

\* _finish_leader(): the generation is done, then the result is published, then
\* the joiners are woken.
WakeBeforePublishing(m) ==
    /\ stage[m] = "finishing"
    /\ Go(m, "waking")
    /\ state' = [state EXCEPT ![m] = "done"]
    /\ doneEvent' = doneEvent \cup {m}
    /\ UNCHANGED <<answer, budgetVars, slotVars, result, sent, status, active>>

Publish(m) ==
    /\ stage[m] = "finishing"
    /\ Go(m, "waking")
    /\ state' = [state EXCEPT ![m] = "done"]
    /\ result' = [result EXCEPT ![m] = answer[m]]
    /\ UNCHANGED <<answer, budgetVars, slotVars, doneEvent, sent, status, active>>

Wake(m) ==
    /\ stage[m] = "waking"
    /\ Answered(m, answer[m])
    /\ doneEvent' = doneEvent \cup {m}
    /\ UNCHANGED <<slotVars, state, result, sent, status, active>>

Lead(m) ==
    \/ SkipLane(m) \/ Queue(m) \/ Admitted(m) \/ LaneTimeout(m)
    \/ CloseOpenSlot(m) \/ NotSent(m) \/ Malformed(m) \/ Send(m)
    \/ Executed(m) \/ LeaderRaises(m) \/ Publish(m) \/ Wake(m)
-----------------------------------------------------------------------------
WaitWithoutDeadline(m) ==
    /\ stage[m] = "joined"
    /\ GenOf(m) \in doneEvent
    /\ Answered(m, result[GenOf(m)])
    /\ UNCHANGED <<slotVars, state, doneVars, sent, status, active>>

\* _wait_as_joiner(): the event decides, even when it comes with the deadline.
JoinerReturns(m) ==
    /\ stage[m] = "joined"
    /\ \/ /\ GenOf(m) \in doneEvent
          /\ Answered(m, result[GenOf(m)])
       \/ /\ GenOf(m) \notin doneEvent
          /\ m \in totalSpent
          /\ Answered(m, "total_timeout")
    /\ UNCHANGED <<slotVars, state, doneVars, sent, status, active>>

\* A slot left behind by a leader lapses, or its late outcome frees it.  The
\* lane would expire an earlier lease as well.  It does not come to that while
\* heartbeats renew it (HeldWhileForwarding of Gateway, under Prompt), and the
\* leader is assumed to get from admission to its first heartbeat within a term.
Lapse(m) ==
    /\ stage[m] \in {"finishing", "waking", "answered"}
    /\ status[m] = "holding"
    /\ Release(m)
    /\ UNCHANGED <<requestVars, budgetVars, slotVars, state, doneVars, sent, active>>

Enqueue(m) == \E blockBytes \in Sizes : Open(m, blockBytes) \/ Join(m, blockBytes)

Step(m) ==
    \/ Enqueue(m) \/ Lead(m) \/ JoinerReturns(m) \/ Lapse(m)
    \/ QueueBudgetSpent(m) \/ TotalBudgetSpent(m)

Next == \E m \in Member : Arrive(m) \/ Step(m)

Spec == Init /\ [][Next]_vars

\* Every thread that can run does, and budgets run out; nobody has to send a
\* request.
FairSpec == Spec /\ \A m \in Member : WF_vars(Step(m))
-----------------------------------------------------------------------------
Stages == {"new", "arrived", "leading", "waiting", "closing", "closed", "executing",
           "finishing", "waking", "joined", "answered"}

Outcomes == {"refused", "unavailable", "queue_timeout", "total_timeout",
             "upstream_result", "exception"}

TypeOK ==
    /\ stage \in [Member -> Stages]
    /\ answer \in [Member -> Outcomes \cup {"none"}]
    /\ earlier \in [Member -> SUBSET Underway]
    /\ \A m, n \in Underway : m # n => (m \in earlier[n] <=> n \notin earlier[m])
    /\ queueSpent \cup totalSpent \subseteq Underway
    /\ state \in [Member -> {"none", "open", "ready", "in_flight", "done"}]
    /\ members \in [Member -> Seq(Member)] /\ sent \in [Member -> Seq(Member)]
    /\ bytes \in [Member -> Nat]
    /\ openSlot \in [Key -> Member \cup {NoMember}]
    /\ result \in [Member -> Outcomes \cup {"none"}]
    /\ doneEvent \subseteq Member
    /\ Lane!TypeOK
    /\ active \in BOOLEAN

\* A generation can be joined exactly while it is OPEN: append() and seal()
\* never meet a sealed generation, and no OPEN generation is lost from the map
\* when another leader closes its own slot under the same key.  Nobody joins
\* one that has reached the byte bound, so it overshoots by one block at most.
OpenIffRegistered ==
    \A g \in Member :
        /\ state[g] = "open" <=> openSlot[KeyOf[g]] = g
        /\ state[g] = "open" => bytes[g] < MaxBytes

\* Membership is immutable once the generation leaves OPEN, and the state only
\* moves forward.
MembershipFrozen ==
    [][\A g \in Generations : state[g] # "open" =>
          members'[g] = members[g] /\ state'[g] # "open"]_vars

\* A request is answered with the upstream's result only if its own block was
\* in the body that was sent.
ResultMeansSent ==
    \A m \in Member : stage[m] = "answered" /\ answer[m] = "upstream_result" =>
        \E g \in Generations : m \in Range(sent[g])

\* A joiner is answered with the result the leader published, or with its own
\* total timeout; never with nothing.
JoinerHearsLeader ==
    [][\A m \in Member : stage[m] = "joined" /\ stage'[m] = "answered" =>
          \/ answer'[m] = result[GenOf(m)] /\ answer'[m] # "none"
          \/ answer'[m] = "total_timeout" /\ m \in totalSpent]_vars

\* Every request is answered, whatever became of its leader.
MemberAnswered == \A m \in Member : stage[m] = "arrived" ~> stage[m] = "answered"

\* The leader drives its generation to DONE (the comment of _QueueSlot).
GenerationDone == \A g \in Member : state[g] # "none" ~> state[g] = "done"
=============================================================================
