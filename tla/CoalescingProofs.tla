-------------------------- MODULE CoalescingProofs --------------------------
(***************************************************************************)
(* What is proved about coalescing for every set of requests and of queue  *)
(* keys, every byte bound, every size of a block and every concurrency     *)
(* limit.                                                                  *)
(***************************************************************************)
EXTENDS Coalescing, FiniteSetTheorems, TLAPS

(***************************************************************************)
(* The inductive invariant, in parts: of one request, of one queue key,    *)
(* and of the lane.  The properties are not inductive by themselves: each  *)
(* of them hangs on what the leader's thread did before.                   *)
(***************************************************************************)

\* The generation was sent with all of its members: from here on neither changes.
Delivered(g) == state[g] \in {"in_flight", "done"} /\ sent[g] = members[g]

\* How far the leader's thread is, and what it has made of its generation.
LeaderAndState(m) ==
    /\ stage[m] \in {"new", "arrived", "joined"} => state[m] = "none"
    /\ stage[m] \in {"leading", "waiting", "closing"} => state[m] \in {"open", "ready"}
    /\ stage[m] = "closed" => state[m] = "ready"
    /\ stage[m] = "executing" => state[m] = "in_flight" /\ Delivered(m)
    /\ stage[m] = "finishing" => state[m] \in {"ready", "in_flight"}
    /\ stage[m] = "waking" => state[m] = "done" /\ result[m] = answer[m]
    /\ stage[m] = "answered" => state[m] # "open"

\* The outcome of a request at each stage.
AnswerSoFar(m) ==
    /\ stage[m] \in {"new", "arrived", "joined", "leading", "waiting", "executing"} =>
          answer[m] = "none"
    /\ stage[m] \in {"closing", "closed"} =>
          answer[m] \in {"none", "unavailable", "queue_timeout"}
    /\ stage[m] \in {"finishing", "waking"} =>
          /\ answer[m] # "none"
          /\ answer[m] = "upstream_result" => Delivered(m)

\* What joiners are woken with.
Published(g) ==
    /\ result[g] = "upstream_result" => Delivered(g)
    /\ g \in doneEvent => result[g] # "none"

\* A request belongs to one generation at most, a leader to its own.
Membership(m) ==
    /\ state[m] # "none" => m \in Range(members[m])
    /\ stage[m] = "joined" => \E g \in Generations : m \in Range(members[g])
    /\ \A g \in Generations : m \in Range(members[g]) =>
          /\ stage[m] \notin {"new", "arrived"}
          /\ \A h \in Generations : m \in Range(members[h]) => g = h

\* The upstream's result is for those whose block was sent.
Served(m) ==
    stage[m] = "answered" /\ answer[m] = "upstream_result" =>
        \E g \in Generations : m \in Range(members[g]) /\ Delivered(g)

\* A slot is registered under the key of the request that opened it.
Registered(k) == openSlot[k] # NoMember => KeyOf[openSlot[k]] = k

\* A leader that is to send its generation holds a slot of the lane.
LeaderAndLane(m) ==
    /\ stage[m] \in {"new", "arrived", "joined", "leading"} => status[m] = "outside"
    /\ stage[m] = "waiting" => status[m] = "waiting"
    /\ stage[m] \in {"closing", "closed"} /\ HasToken(m) => status[m] = "holding"
    /\ stage[m] = "executing" => status[m] = "holding"

RequestInv(m) ==
    /\ LeaderAndState(m)
    /\ AnswerSoFar(m)
    /\ Published(m)
    /\ Membership(m)
    /\ Served(m)
    /\ LeaderAndLane(m)

PoolInv == IsFiniteSet(Lane!Holding) /\ Cardinality(Lane!Holding) <= Capacity

CoalescingInv ==
    /\ TypeOK
    /\ OpenIffRegistered
    /\ \A k \in Key : Registered(k)
    /\ \A m \in Member : RequestInv(m)
    /\ PoolInv
-----------------------------------------------------------------------------
(* Sequences of members, and the lane's places.                            *)

LEMMA RangeOfOne == ASSUME NEW m PROVE Range(<<m>>) = {m}
BY DEF Range

LEMMA RangeOfAppend ==
    ASSUME NEW S, NEW seq \in Seq(S), NEW elt \in S
    PROVE  Range(Append(seq, elt)) = Range(seq) \cup {elt}
<1> DEFINE app == Append(seq, elt)
<1>1. /\ Len(seq) \in Nat
      /\ DOMAIN seq = 1 .. Len(seq)
      /\ DOMAIN app = 1 .. (Len(seq) + 1)
      /\ app[Len(seq) + 1] = elt
      /\ \A i \in 1 .. Len(seq) : app[i] = seq[i]
  OBVIOUS
<1> HIDE DEF app
<1>2. ASSUME NEW x \in Range(app) PROVE x \in Range(seq) \cup {elt}
  <2>1. PICK i \in 1 .. (Len(seq) + 1) : x = app[i]
    BY <1>1, <1>2 DEF Range
  <2> QED  BY <1>1, <2>1 DEF Range
<1>3. ASSUME NEW x \in Range(seq) \cup {elt} PROVE x \in Range(app)
  <2>1. CASE x = elt
    BY <1>1, <2>1 DEF Range
  <2>2. CASE x \in Range(seq)
    <3>1. PICK i \in 1 .. Len(seq) : x = seq[i]
      BY <1>1, <2>2 DEF Range
    <3> QED  BY <1>1, <3>1 DEF Range
  <2> QED  BY <1>3, <2>1, <2>2
<1>4. Range(app) = Range(seq) \cup {elt}
  BY <1>2, <1>3
<1> QED  BY <1>4 DEF app

\* The lane's instance has a FiniteSets of its own, with the same definition.
LEMMA SameCardinality == ASSUME NEW S PROVE Lane!Cardinality(S) = Cardinality(S)
BY DEF Lane!Cardinality, Cardinality

\* What each call of the lane does to the status of the request that makes it.
LEMMA LaneCalls ==
    ASSUME Lane!TypeOK, NEW m \in Member
    PROVE  /\ Lane!Queue(m, {}) =>
                 status[m] = "outside" /\ status' = [status EXCEPT ![m] = "waiting"]
           /\ Lane!Admit(m, {}) =>
                 /\ status[m] \in {"outside", "waiting"}
                 /\ status' = [status EXCEPT ![m] = "holding"]
                 /\ Cardinality(Lane!Holding) < Capacity
           /\ Lane!Refuse(m, {}) =>
                 /\ status[m] \in {"outside", "waiting"}
                 /\ status' = [status EXCEPT ![m] = "refused"]
           /\ Release(m) =>
                 \/ status' = status
                 \/ status[m] = "holding" /\ status' = [status EXCEPT ![m] = "gone"]
<1>1. Lane!Without({}) = status
  BY DEF Lane!TypeOK, Lane!Without
<1>2. Lane!Holding \ {} = Lane!Holding
  OBVIOUS
<1>3. Release(m) =>
          \/ status' = status
          \/ status[m] = "holding" /\ status' = [status EXCEPT ![m] = "gone"]
  <2>1. CASE status[m] = "holding"
    <3>1. {m} \cap Lane!Holding = {m}
      BY <2>1 DEF Lane!Holding
    <3>2. Lane!Without({m}) = [status EXCEPT ![m] = "gone"]
      BY DEF Lane!TypeOK, Lane!Without
    <3> QED  BY <2>1, <3>1, <3>2 DEF Release, Lane!TakeBack
  <2>2. CASE status[m] # "holding"
    <3>1. {m} \cap Lane!Holding = {}
      BY <2>2 DEF Lane!Holding
    <3> QED  BY <1>1, <3>1 DEF Release, Lane!TakeBack
  <2> QED  BY <2>1, <2>2
<1> QED
  BY <1>1, <1>2, <1>3, SameCardinality DEF Lane!Queue, Lane!Admit, Lane!Refuse
-----------------------------------------------------------------------------
(***************************************************************************)
(* The lane: coalescing calls it as AdmissionPool allows.                  *)
(***************************************************************************)

LEMMA LanePart == [Next]_vars => [Lane!Next]_status
<1> SUFFICES ASSUME [Next]_vars PROVE Lane!Next \/ UNCHANGED status
  OBVIOUS
<1>1. ASSUME NEW m \in Member, Release(m) PROVE Lane!Next
  <2>1. {m} \cap Lane!Holding \in SUBSET Lane!Holding
    OBVIOUS
  <2> QED  BY <1>1, <2>1 DEF Release, Lane!Next
<1>2. ASSUME NEW m \in Member,
             Lane!Queue(m, {}) \/ Lane!Admit(m, {}) \/ Lane!Refuse(m, {})
      PROVE  Lane!Next
  <2>1. {} \in SUBSET Lane!Holding
    OBVIOUS
  <2> QED  BY <1>2, <2>1 DEF Lane!Next
<1>3. ASSUME NEW m \in Member, Lead(m) PROVE Lane!Next \/ UNCHANGED status
  BY <1>1, <1>2, <1>3 DEF Lead, SkipLane, Queue, Admitted, LaneTimeout, CloseOpenSlot,
     NotSent, Malformed, Send, Executed, LeaderRaises, Publish, Wake
<1>4. ASSUME NEW m \in Member, Arrive(m) \/ Enqueue(m) \/ JoinerReturns(m) \/ Lapse(m)
                               \/ QueueBudgetSpent(m) \/ TotalBudgetSpent(m)
      PROVE  Lane!Next \/ UNCHANGED status
  BY <1>1, <1>4 DEF Arrive, Enqueue, Open, Join, JoinerReturns, Lapse,
     QueueBudgetSpent, TotalBudgetSpent
<1>5. CASE UNCHANGED vars
  BY <1>5 DEF vars
<1> QED  BY <1>3, <1>4, <1>5 DEF Next, Step

\* Coalescing waits for, takes and gives back the places of the lane as
\* AdmissionPool says, so whatever implements that specification may be behind it.
THEOREM CoalescingUsesPool == Spec => Lane!Spec
BY LanePart, PTL DEF Spec, Init, Lane!Spec

LEMMA PoolStep ==
    ASSUME CoalescingInv, [Lane!Next]_status
    PROVE  Lane!TypeOK' /\ PoolInv'
<1>1. Lane!TypeOK /\ PoolInv /\ Capacity \in Nat
  BY CoalescingAssumption DEF CoalescingInv, TypeOK
<1>2. CASE UNCHANGED status
  BY <1>1, <1>2 DEF Lane!TypeOK, PoolInv, Lane!Holding
<1>3. ASSUME Lane!Next PROVE Lane!TypeOK' /\ PoolInv'
  <2>1. PICK lost \in SUBSET Lane!Holding :
            \/ Lane!TakeBack(lost)
            \/ \E c \in Member :
                   Lane!Queue(c, lost) \/ Lane!Admit(c, lost) \/ Lane!Refuse(c, lost)
    BY <1>3 DEF Lane!Next
  <2>2. Lane!Without(lost) \in [Member -> Lane!Statuses]
    BY <1>1 DEF Lane!Without, Lane!TypeOK, Lane!Statuses
  <2>3. Lane!TypeOK'
    BY <2>1, <2>2 DEF Lane!TypeOK, Lane!Statuses, Lane!TakeBack, Lane!Queue, Lane!Admit,
       Lane!Refuse
  <2>4. CASE Lane!Holding' \subseteq Lane!Holding
    <3>1. /\ IsFiniteSet(Lane!Holding')
          /\ Cardinality(Lane!Holding') <= Cardinality(Lane!Holding)
      BY <1>1, <2>4, FS_Subset DEF PoolInv
    <3>2. Cardinality(Lane!Holding) \in Nat /\ Cardinality(Lane!Holding') \in Nat
      BY <1>1, <3>1, FS_CardinalityType DEF PoolInv
    <3> QED  BY <1>1, <2>3, <3>1, <3>2 DEF PoolInv
  <2>5. ASSUME NEW c \in Member, Lane!Admit(c, lost) PROVE PoolInv'
    <3> DEFINE kept == Lane!Holding \ lost
    <3>1. Lane!Holding' = kept \cup {c}
      BY <2>2, <2>5 DEF Lane!Admit, Lane!Holding, Lane!Without
    <3>2. IsFiniteSet(kept) /\ Cardinality(kept) \in Nat
      BY <1>1, FS_Subset, FS_CardinalityType DEF PoolInv
    <3>3. Cardinality(kept) < Capacity
      BY <2>5, SameCardinality DEF Lane!Admit
    <3>4. /\ IsFiniteSet(kept \cup {c})
          /\ Cardinality(kept \cup {c}) <= Cardinality(kept) + 1
      BY <3>2, FS_AddElement
    <3> HIDE DEF kept
    <3>5. Cardinality(kept \cup {c}) \in Nat
      BY <3>4, FS_CardinalityType
    <3> QED  BY <1>1, <3>1, <3>2, <3>3, <3>4, <3>5 DEF PoolInv
  <2>6. ASSUME NEW c \in Member, Lane!Queue(c, lost) \/ Lane!Refuse(c, lost)
        PROVE  Lane!Holding' \subseteq Lane!Holding
    BY <2>2, <2>6 DEF Lane!Queue, Lane!Refuse, Lane!Holding, Lane!Without
  <2>7. ASSUME Lane!TakeBack(lost) PROVE Lane!Holding' \subseteq Lane!Holding
    BY <2>7 DEF Lane!TakeBack, Lane!Holding, Lane!Without
  <2> QED  BY <2>1, <2>3, <2>4, <2>5, <2>6, <2>7
<1> QED  BY <1>2, <1>3
-----------------------------------------------------------------------------
(***************************************************************************)
(* The clocks: the requests under way, in the order they started.          *)
(***************************************************************************)

ClocksOK ==
    /\ earlier \in [Member -> SUBSET Underway]
    /\ \A m, n \in Underway : m # n => (m \in earlier[n] <=> n \notin earlier[m])
    /\ queueSpent \cup totalSpent \subseteq Underway

LEMMA GoKeepsUnderway ==
    ASSUME stage \in [Member -> Stages], NEW m \in Underway,
           NEW to \in Stages \ {"new", "answered"}, Go(m, to)
    PROVE  Underway' = Underway
BY DEF Go, Underway

LEMMA AnsweredEndsClock ==
    ASSUME stage \in [Member -> Stages], ClocksOK, NEW m \in Member, NEW outcome,
           Answered(m, outcome)
    PROVE  ClocksOK'
<1>1. Underway' = Underway \ {m}
  BY DEF Answered, Go, Underway
<1>2. earlier' = [n \in Member |-> IF n = m THEN {} ELSE earlier[n] \ {m}]
  BY DEF Answered
<1>3. earlier' \in [Member -> SUBSET Underway']
  BY <1>1, <1>2 DEF ClocksOK
<1>4. Underway \subseteq Member
  BY DEF Underway
<1> QED  BY <1>1, <1>2, <1>3, <1>4 DEF ClocksOK, Answered

LEMMA ClockStep ==
    ASSUME stage \in [Member -> Stages], ClocksOK, NEW m \in Member, Arrive(m) \/ Step(m)
    PROVE  ClocksOK'
<1> USE DEF Stages
<1>1. ASSUME Underway' = Underway, UNCHANGED budgetVars PROVE ClocksOK'
  BY <1>1 DEF ClocksOK, budgetVars
<1>2. CASE \E outcome : Answered(m, outcome)
  BY <1>2, AnsweredEndsClock
<1>3. ASSUME NEW to \in Stages \ {"new", "answered"}, Go(m, to),
             stage[m] \notin {"new", "answered"}, UNCHANGED budgetVars
      PROVE  ClocksOK'
  <2>1. m \in Underway
    BY <1>3 DEF Underway
  <2> QED  BY <1>1, <1>3, <2>1, GoKeepsUnderway
<1>4. CASE Arrive(m)
  <2>1. CASE Go(m, "arrived") /\ earlier' = [earlier EXCEPT ![m] = Underway]
             /\ UNCHANGED <<answer, queueSpent, totalSpent>>
    <3>1. m \notin Underway /\ Underway' = Underway \cup {m} /\ Underway \subseteq Member
      BY <1>4, <2>1 DEF Arrive, Go, Underway
    <3>2. earlier' \in [Member -> SUBSET Underway']
      BY <2>1, <3>1 DEF ClocksOK
    <3> QED  BY <2>1, <3>1, <3>2 DEF ClocksOK
  <2> QED  BY <1>2, <1>4, <2>1 DEF Arrive
<1>5. CASE Enqueue(m)
  BY <1>3, <1>5 DEF Enqueue, Open, Join
<1>6. CASE Lead(m)
  BY <1>2, <1>3, <1>6 DEF Lead, SkipLane, Queue, Admitted, LaneTimeout, CloseWith,
     CloseOpenSlot, NotSent, Malformed, Send, Executed, LeaderRaises, Publish, Wake
<1>7. CASE JoinerReturns(m)
  BY <1>2, <1>7 DEF JoinerReturns
<1>8. CASE Lapse(m)
  BY <1>1, <1>8 DEF Lapse, requestVars, Underway
<1>9. CASE QueueBudgetSpent(m) \/ TotalBudgetSpent(m)
  <2>1. m \in Underway
    BY <1>9 DEF QueueBudgetSpent, TotalBudgetSpent, RunsOutNext, Waiting, Deciding, Underway
  <2>2. UNCHANGED <<stage, earlier>>
    BY <1>9 DEF QueueBudgetSpent, TotalBudgetSpent, requestVars
  <2>3. queueSpent' \cup totalSpent' \subseteq Underway
    BY <1>9, <2>1 DEF QueueBudgetSpent, TotalBudgetSpent, ClocksOK
  <2> QED  BY <2>2, <2>3 DEF ClocksOK, Underway
<1> QED  BY <1>4, <1>5, <1>6, <1>7, <1>8, <1>9 DEF Step
-----------------------------------------------------------------------------
(***************************************************************************)
(* The types of the rest, and the registry of open generations.            *)
(***************************************************************************)

DataOK ==
    /\ stage \in [Member -> Stages]
    /\ answer \in [Member -> Outcomes \cup {"none"}]
    /\ state \in [Member -> {"none", "open", "ready", "in_flight", "done"}]
    /\ members \in [Member -> Seq(Member)] /\ sent \in [Member -> Seq(Member)]
    /\ bytes \in [Member -> Nat]
    /\ openSlot \in [Key -> Member \cup {NoMember}]
    /\ result \in [Member -> Outcomes \cup {"none"}]
    /\ doneEvent \subseteq Member
    /\ active \in BOOLEAN

LEMMA TypeParts == TypeOK <=> ClocksOK /\ DataOK /\ Lane!TypeOK
BY DEF TypeOK, ClocksOK, DataOK

\* The queue key of a request, and the generation it may join.
LEMMA OpenSlotOfKey ==
    ASSUME DataOK, \A k \in Key : Registered(k), OpenIffRegistered, NEW m \in Member
    PROVE  /\ KeyOf[m] \in Key
           /\ openSlot[KeyOf[m]] # NoMember =>
                 /\ openSlot[KeyOf[m]] \in Member
                 /\ KeyOf[openSlot[KeyOf[m]]] = KeyOf[m]
                 /\ state[openSlot[KeyOf[m]]] = "open"
<1>1. KeyOf[m] \in Key
  BY CoalescingAssumption
<1>2. openSlot[KeyOf[m]] \in Member \cup {NoMember}
  BY <1>1 DEF DataOK
<1>3. Registered(KeyOf[m])
  BY <1>1
<1> QED  BY <1>1, <1>2, <1>3 DEF Registered, OpenIffRegistered

LEMMA DataStep ==
    ASSUME CoalescingInv, NEW m \in Member, Arrive(m) \/ Step(m)
    PROVE  DataOK'
<1>1. DataOK
  BY TypeParts DEF CoalescingInv
<1>2. ASSUME NEW to \in Stages, Go(m, to) PROVE stage' \in [Member -> Stages]
  BY <1>1, <1>2 DEF Go, DataOK
<1>3. ASSUME NEW outcome \in Outcomes \cup {"none"}, Answered(m, outcome)
      PROVE  /\ stage' \in [Member -> Stages]
             /\ answer' \in [Member -> Outcomes \cup {"none"}]
  BY <1>1, <1>3 DEF Answered, Go, DataOK, Stages
<1>4. ASSUME NEW outcome \in Outcomes \cup {"none"}, CloseWith(m, outcome)
      PROVE  /\ stage' \in [Member -> Stages]
             /\ answer' \in [Member -> Outcomes \cup {"none"}]
  BY <1>1, <1>4 DEF CloseWith, Go, DataOK, Stages
<1>5. CASE Arrive(m)
  BY <1>1, <1>2, <1>3, <1>5 DEF Arrive, DataOK, Stages, Outcomes, slotVars, doneVars
<1>6. ASSUME NEW blockBytes \in Sizes, Open(m, blockBytes) PROVE DataOK'
  <2>1. blockBytes \in Nat /\ KeyOf[m] \in Key /\ <<m>> \in Seq(Member)
    BY CoalescingAssumption
  <2>2. members' \in [Member -> Seq(Member)]
    BY <1>1, <1>6, <2>1 DEF Open, DataOK
  <2>3. /\ bytes' \in [Member -> Nat]
        /\ openSlot' \in [Key -> Member \cup {NoMember}]
        /\ state' \in [Member -> {"none", "open", "ready", "in_flight", "done"}]
    BY <1>1, <1>6, <2>1 DEF Open, DataOK
  <2>4. stage' \in [Member -> Stages] /\ UNCHANGED <<answer, result, doneEvent, sent, active>>
    BY <1>2, <1>6 DEF Open, Stages, doneVars
  <2> QED  BY <1>1, <2>2, <2>3, <2>4 DEF DataOK
<1>7. ASSUME NEW blockBytes \in Sizes, Join(m, blockBytes) PROVE DataOK'
  <2> DEFINE g == openSlot[KeyOf[m]]
  <2>1. blockBytes \in Nat /\ KeyOf[m] \in Key /\ g \in Member
    BY <1>1, <1>7, OpenSlotOfKey, CoalescingAssumption DEF Join, CoalescingInv
  <2>2. Append(members[g], m) \in Seq(Member) /\ bytes[g] + blockBytes \in Nat
    BY <1>1, <2>1 DEF DataOK
  <2> QED  BY <1>1, <1>2, <1>7, <2>1, <2>2 DEF Join, DataOK, Stages, doneVars
<1>8. CASE SkipLane(m) \/ Queue(m) \/ Admitted(m) \/ LaneTimeout(m)
  BY <1>1, <1>2, <1>4, <1>8 DEF SkipLane, Queue, Admitted, LaneTimeout, DataOK, Stages,
     Outcomes, slotVars, doneVars
<1>9. CASE CloseOpenSlot(m)
  BY <1>1, <1>2, <1>9 DEF CloseOpenSlot, DataOK, Stages, doneVars
<1>10. CASE NotSent(m) \/ Malformed(m) \/ Executed(m)
  BY <1>1, <1>2, <1>10 DEF NotSent, Malformed, Executed, DataOK, Stages, Outcomes,
     slotVars, doneVars
<1>11. CASE LeaderRaises(m)
  BY <1>1, <1>3, <1>11 DEF LeaderRaises, DataOK, Outcomes, slotVars, doneVars
<1>12. CASE Publish(m)
  BY <1>1, <1>2, <1>12 DEF Publish, DataOK, Stages, slotVars
<1>13. CASE Wake(m)
  <2>1. answer[m] \in Outcomes \cup {"none"}
    BY <1>1 DEF DataOK
  <2> QED  BY <1>1, <1>3, <1>13, <2>1 DEF Wake, DataOK, slotVars
<1>14. CASE JoinerReturns(m)
  <2>1. GenOf(m) \in Member
    BY <1>14 DEF JoinerReturns, CoalescingInv, RequestInv, Membership, GenOf, Generations
  <2>2. result[GenOf(m)] \in Outcomes \cup {"none"}
    BY <1>1, <2>1 DEF DataOK
  <2> QED  BY <1>1, <1>3, <1>14, <2>2 DEF JoinerReturns, DataOK, Outcomes, slotVars, doneVars
<1>15. CASE Lapse(m) \/ QueueBudgetSpent(m) \/ TotalBudgetSpent(m)
  BY <1>1, <1>15 DEF Lapse, QueueBudgetSpent, TotalBudgetSpent, DataOK, requestVars,
     slotVars, doneVars
<1>16. CASE Send(m)
  <2>1. members[m] \in Seq(Member)
    BY <1>1 DEF DataOK
  <2>2. /\ sent' \in [Member -> Seq(Member)]
        /\ state' \in [Member -> {"none", "open", "ready", "in_flight", "done"}]
    BY <1>1, <1>16, <2>1 DEF Send, DataOK
  <2>3. /\ stage' \in [Member -> Stages]
        /\ UNCHANGED <<answer, members, bytes, openSlot, result, doneEvent, active>>
    BY <1>2, <1>16 DEF Send, Stages, slotVars, doneVars
  <2> QED  BY <1>1, <2>2, <2>3 DEF DataOK
<1> QED
  BY <1>5, <1>6, <1>7, <1>8, <1>9, <1>10, <1>11, <1>12, <1>13, <1>14, <1>15,
     <1>16 DEF Step, Lead, Enqueue

RegistryInv == OpenIffRegistered /\ \A k \in Key : Registered(k)

\* Opening, joining and closing are the only steps that touch the registry; Send
\* and Publish move the state of a generation that is sealed already.
LEMMA RegistryStep ==
    ASSUME CoalescingInv, NEW m \in Member, Arrive(m) \/ Step(m)
    PROVE  RegistryInv'
<1>1. DataOK /\ RegistryInv /\ LeaderAndState(m)
  BY TypeParts DEF CoalescingInv, RegistryInv, RequestInv
<1>2. KeyOf \in [Member -> Key] /\ NoMember \notin Member /\ Sizes \subseteq Nat
      /\ MaxBytes \in Nat
  BY CoalescingAssumption
<1>3. ASSUME UNCHANGED <<state, openSlot, bytes>> PROVE RegistryInv'
  BY <1>1, <1>3 DEF RegistryInv, OpenIffRegistered, Registered
<1>4. ASSUME NEW blockBytes \in Sizes, Open(m, blockBytes) PROVE RegistryInv'
  <2>1. state[m] = "none" /\ blockBytes \in Nat
    BY <1>1, <1>2, <1>4 DEF Open, LeaderAndState
  <2>2. CASE openSlot' = openSlot /\ state' = [state EXCEPT ![m] = "ready"]
    BY <1>1, <1>2, <1>4, <2>1, <2>2 DEF Open, DataOK, RegistryInv, OpenIffRegistered, Registered
  <2>3. CASE /\ blockBytes < MaxBytes
             /\ openSlot' = [openSlot EXCEPT ![KeyOf[m]] = m]
             /\ state' = [state EXCEPT ![m] = "open"]
    BY <1>1, <1>2, <1>4, <2>1, <2>3 DEF Open, DataOK, RegistryInv, OpenIffRegistered, Registered
  <2> QED  BY <1>4, <2>2, <2>3 DEF Open
<1>5. ASSUME NEW blockBytes \in Sizes, Join(m, blockBytes) PROVE RegistryInv'
  <2> DEFINE k == KeyOf[m]
             g == openSlot[k]
  <2>1. /\ k \in Key /\ g \in Member /\ KeyOf[g] = k /\ state[g] = "open"
        /\ bytes' = [bytes EXCEPT ![g] = @ + blockBytes]
        /\ bytes'[g] \in Nat
    BY <1>1, <1>2, <1>5, OpenSlotOfKey DEF Join, RegistryInv, DataOK
  <2>2. CASE /\ state' = [state EXCEPT ![g] = "ready"]
             /\ openSlot' = [openSlot EXCEPT ![k] = NoMember]
    BY <1>1, <1>2, <2>1, <2>2 DEF DataOK, RegistryInv, OpenIffRegistered, Registered
  <2>3. CASE bytes'[g] < MaxBytes /\ UNCHANGED <<state, openSlot>>
    BY <1>1, <1>2, <2>1, <2>3 DEF DataOK, RegistryInv, OpenIffRegistered, Registered
  <2> QED  BY <1>5, <2>2, <2>3 DEF Join
<1>6. CASE CloseOpenSlot(m)
  BY <1>1, <1>2, <1>6 DEF CloseOpenSlot, DataOK, RegistryInv, OpenIffRegistered,
     Registered, LeaderAndState
<1>7. CASE Send(m) \/ Publish(m)
  BY <1>1, <1>7 DEF Send, Publish, DataOK, RegistryInv, OpenIffRegistered, Registered,
     LeaderAndState, slotVars
<1>8. CASE Arrive(m) \/ JoinerReturns(m) \/ Lapse(m) \/ QueueBudgetSpent(m)
           \/ TotalBudgetSpent(m)
  BY <1>3, <1>8 DEF Arrive, JoinerReturns, Lapse, QueueBudgetSpent, TotalBudgetSpent, slotVars
<1>9. CASE SkipLane(m) \/ Queue(m) \/ Admitted(m) \/ LaneTimeout(m) \/ NotSent(m)
           \/ Malformed(m) \/ Executed(m) \/ LeaderRaises(m) \/ Wake(m)
  BY <1>3, <1>9 DEF SkipLane, Queue, Admitted, LaneTimeout, NotSent, Malformed, Executed,
     LeaderRaises, Wake, slotVars
<1> QED  BY <1>4, <1>5, <1>6, <1>7, <1>8, <1>9 DEF Step, Lead, Enqueue
-----------------------------------------------------------------------------
(***************************************************************************)
(* What a step of one request can do to the generations, and to any other  *)
(* request.                                                                *)
(***************************************************************************)

\* Whoever is a member stays one; what was delivered stays delivered.
GenerationsKept ==
    /\ \A g \in Generations :
          /\ g \in Generations'
          /\ Range(members[g]) \subseteq Range(members'[g])
          /\ state[g] # "open" => members'[g] = members[g] /\ state'[g] # "open"
    /\ \A g \in Member : Delivered(g) => Delivered(g)'

\* Nobody but m becomes a member, and only m opens a generation.
NobodyElseAdded(m) ==
    \A n \in Member \ {m} :
        /\ n \in Generations' => n \in Generations
        /\ \A g \in Generations' :
               n \in Range(members'[g]) => g \in Generations /\ n \in Range(members[g])

OthersKept(m) ==
    \A n \in Member \ {m} :
        /\ stage'[n] = stage[n] /\ answer'[n] = answer[n] /\ status'[n] = status[n]
        /\ result'[n] = result[n] /\ (n \in doneEvent' <=> n \in doneEvent)
        /\ \/ state'[n] = state[n]
           \/ state[n] = "open" /\ state'[n] = "ready"

\* Membership changes only while a generation is opened or joined.
SameMembership ==
    /\ members' = members
    /\ Generations' = Generations

LEMMA SameMembershipStep ==
    ASSUME CoalescingInv, NEW m \in Member, Arrive(m) \/ Step(m), ~Enqueue(m)
    PROVE  SameMembership
<1>1. DataOK /\ LeaderAndState(m)
  BY TypeParts DEF CoalescingInv, RequestInv
<1> USE <1>1 DEF SameMembership, Generations
<1>2. CASE CloseOpenSlot(m)
  BY <1>2 DEF CloseOpenSlot, DataOK
<1>3. CASE Send(m) \/ Publish(m)
  BY <1>3 DEF Send, Publish, DataOK, LeaderAndState, slotVars
<1>4. CASE Arrive(m) \/ JoinerReturns(m) \/ Lapse(m) \/ QueueBudgetSpent(m)
           \/ TotalBudgetSpent(m)
  BY <1>4 DEF Arrive, JoinerReturns, Lapse, QueueBudgetSpent, TotalBudgetSpent, slotVars
<1>5. CASE SkipLane(m) \/ Queue(m) \/ Admitted(m) \/ LaneTimeout(m) \/ NotSent(m)
           \/ Malformed(m) \/ Executed(m) \/ LeaderRaises(m) \/ Wake(m)
  BY <1>5 DEF SkipLane, Queue, Admitted, LaneTimeout, NotSent, Malformed, Executed,
     LeaderRaises, Wake, slotVars
<1> QED  BY <1>2, <1>3, <1>4, <1>5 DEF Step, Lead

\* Opening: one more generation, with its leader as its only member.
LEMMA OpenEffect ==
    ASSUME CoalescingInv, NEW m \in Member, NEW blockBytes, Open(m, blockBytes)
    PROVE  /\ stage[m] = "arrived" /\ stage'[m] = "leading"
           /\ state[m] = "none" /\ state'[m] \in {"open", "ready"}
           /\ Generations' = Generations \cup {m}
           /\ Range(members'[m]) = {m}
           /\ \A g \in Member \ {m} : state'[g] = state[g] /\ members'[g] = members[g]
           /\ UNCHANGED <<answer, result, doneEvent, sent, status>>
           /\ OthersKept(m)
<1>1. DataOK /\ LeaderAndState(m)
  BY TypeParts DEF CoalescingInv, RequestInv
<1>2. /\ stage[m] = "arrived" /\ stage' = [stage EXCEPT ![m] = "leading"]
      /\ state[m] = "none"
      /\ state' = [state EXCEPT ![m] = "open"] \/ state' = [state EXCEPT ![m] = "ready"]
      /\ members' = [members EXCEPT ![m] = <<m>>]
      /\ UNCHANGED <<answer, result, doneEvent, sent, status>>
  BY <1>1, Zenon DEF Open, Go, doneVars, LeaderAndState
<1>3. /\ members'[m] = <<m>>
      /\ \A g \in Member \ {m} : members'[g] = members[g]
  BY <1>1, <1>2 DEF DataOK
<1>4. /\ state'[m] \in {"open", "ready"}
      /\ \A g \in Member \ {m} : state'[g] = state[g]
      /\ \A g \in Member \ {m} : stage'[g] = stage[g]
      /\ stage'[m] = "leading"
  BY <1>1, <1>2 DEF DataOK
<1>5. Generations' = Generations \cup {m}
  BY <1>4 DEF Generations
<1> QED  BY <1>2, <1>3, <1>4, <1>5, RangeOfOne DEF OthersKept

\* Joining: one more member of a generation that is OPEN.
LEMMA JoinEffect ==
    ASSUME CoalescingInv, NEW m \in Member, NEW blockBytes, Join(m, blockBytes)
    PROVE  \E g \in Generations :
           /\ stage[m] = "arrived" /\ stage'[m] = "joined" /\ state'[m] = "none"
           /\ state[g] = "open" /\ state'[g] \in {"open", "ready"} /\ g # m
           /\ Generations' = Generations
           /\ Range(members'[g]) = Range(members[g]) \cup {m}
           /\ \A h \in Member \ {g} : state'[h] = state[h] /\ members'[h] = members[h]
           /\ UNCHANGED <<answer, result, doneEvent, sent, status>>
           /\ OthersKept(m)
<1> DEFINE g == openSlot[KeyOf[m]]
<1>1. DataOK /\ LeaderAndState(m) /\ RegistryInv
  BY TypeParts DEF CoalescingInv, RequestInv, RegistryInv
<1>2. g \in Member /\ state[g] = "open"
  BY <1>1, OpenSlotOfKey DEF Join, RegistryInv
<1> HIDE DEF g
<1>3. /\ stage[m] = "arrived" /\ stage' = [stage EXCEPT ![m] = "joined"]
      /\ state[m] = "none"
      /\ state' = state \/ state' = [state EXCEPT ![g] = "ready"]
      /\ members' = [members EXCEPT ![g] = Append(@, m)]
      /\ UNCHANGED <<answer, result, doneEvent, sent, status>>
  BY <1>1, Zenon DEF Join, Go, doneVars, LeaderAndState, g
<1>4. /\ members'[g] = Append(members[g], m)
      /\ \A h \in Member \ {g} : members'[h] = members[h]
  BY <1>1, <1>2, <1>3 DEF DataOK
<1>5. /\ state'[g] \in {"open", "ready"}
      /\ \A h \in Member \ {g} : state'[h] = state[h]
      /\ \A h \in Member \ {m} : stage'[h] = stage[h]
      /\ stage'[m] = "joined" /\ state'[m] = "none" /\ g # m
  BY <1>1, <1>2, <1>3 DEF DataOK
<1>6. Range(Append(members[g], m)) = Range(members[g]) \cup {m}
  BY <1>1, <1>2, RangeOfAppend DEF DataOK
<1>7. Generations' = Generations /\ g \in Generations
  BY <1>2, <1>5 DEF Generations
<1>8. OthersKept(m)
  BY <1>2, <1>3, <1>5 DEF OthersKept
<1> QED  BY <1>2, <1>3, <1>4, <1>5, <1>6, <1>7, <1>8

LEMMA EffectOnOthers ==
    ASSUME CoalescingInv, NEW m \in Member, Arrive(m) \/ Step(m)
    PROVE  OthersKept(m)
<1>1. DataOK /\ Lane!TypeOK /\ RegistryInv
  BY TypeParts DEF CoalescingInv, RegistryInv
<1> USE DEF OthersKept
<1>2. CASE Enqueue(m)
  BY <1>2, OpenEffect, JoinEffect DEF Enqueue
<1>3. CASE Arrive(m) \/ JoinerReturns(m)
  BY <1>1, <1>3 DEF Arrive, JoinerReturns, Answered, Go, DataOK, doneVars
<1>4. CASE SkipLane(m) \/ Queue(m) \/ Admitted(m) \/ LaneTimeout(m)
  BY <1>1, <1>4, LaneCalls DEF SkipLane, Queue, Admitted, LaneTimeout, CloseWith, Go,
     DataOK, Lane!TypeOK, doneVars
<1>5. CASE NotSent(m) \/ Malformed(m) \/ Executed(m) \/ LeaderRaises(m)
  BY <1>1, <1>5, LaneCalls DEF NotSent, Malformed, Executed, LeaderRaises, Answered, Go,
     DataOK, Lane!TypeOK, doneVars
<1>6. CASE CloseOpenSlot(m) \/ Send(m)
  BY <1>1, <1>6 DEF CloseOpenSlot, Send, Go, DataOK, doneVars
<1>7. CASE Publish(m) \/ Wake(m)
  BY <1>1, <1>7 DEF Publish, Wake, Answered, Go, DataOK
<1>8. CASE Lapse(m) \/ QueueBudgetSpent(m) \/ TotalBudgetSpent(m)
  BY <1>1, <1>8, LaneCalls DEF Lapse, QueueBudgetSpent, TotalBudgetSpent, requestVars,
     doneVars, Lane!TypeOK
<1> QED  BY <1>2, <1>3, <1>4, <1>5, <1>6, <1>7, <1>8 DEF Step, Lead

LEMMA EffectOnGenerations ==
    ASSUME CoalescingInv, NEW m \in Member, Arrive(m) \/ Step(m)
    PROVE  GenerationsKept /\ NobodyElseAdded(m)
<1>1. DataOK /\ LeaderAndState(m)
  BY TypeParts DEF CoalescingInv, RequestInv
<1>2. ASSUME NEW blockBytes, Open(m, blockBytes) PROVE GenerationsKept /\ NobodyElseAdded(m)
  BY <1>2, OpenEffect DEF GenerationsKept, NobodyElseAdded, Delivered, Generations
<1>3. ASSUME NEW blockBytes, Join(m, blockBytes) PROVE GenerationsKept /\ NobodyElseAdded(m)
  BY <1>3, JoinEffect DEF GenerationsKept, NobodyElseAdded, Delivered, Generations
<1>4. CASE ~Enqueue(m)
  <2>1. SameMembership /\ NobodyElseAdded(m)
    BY <1>4, SameMembershipStep DEF SameMembership, NobodyElseAdded
  <2>2. /\ \A g \in Generations : state[g] # "open" => state'[g] # "open"
        /\ \A g \in Member : Delivered(g) => Delivered(g)'
    <3>1. CASE UNCHANGED <<state, sent>>
      BY <2>1, <3>1 DEF SameMembership, Delivered
    <3>2. CASE CloseOpenSlot(m) \/ Send(m) \/ Publish(m)
      BY <1>1, <2>1, <3>2 DEF CloseOpenSlot, Send, Publish, DataOK, LeaderAndState,
         SameMembership, Delivered, Generations
    <3>3. CASE Arrive(m) \/ JoinerReturns(m) \/ Lapse(m) \/ QueueBudgetSpent(m)
               \/ TotalBudgetSpent(m)
      BY <3>1, <3>3 DEF Arrive, JoinerReturns, Lapse, QueueBudgetSpent, TotalBudgetSpent
    <3>4. CASE SkipLane(m) \/ Queue(m) \/ Admitted(m) \/ LaneTimeout(m) \/ NotSent(m)
               \/ Malformed(m) \/ Executed(m) \/ LeaderRaises(m) \/ Wake(m)
      BY <3>1, <3>4 DEF SkipLane, Queue, Admitted, LaneTimeout, NotSent, Malformed,
         Executed, LeaderRaises, Wake
    <3> QED  BY <1>4, <3>2, <3>3, <3>4 DEF Step, Lead
  <2> QED  BY <2>1, <2>2 DEF SameMembership, GenerationsKept
<1> QED  BY <1>2, <1>3, <1>4 DEF Enqueue
-----------------------------------------------------------------------------
(***************************************************************************)
(* A step of m keeps what is known of the other requests, and of m itself. *)
(***************************************************************************)

LEMMA OthersStep ==
    ASSUME CoalescingInv, NEW m \in Member, Arrive(m) \/ Step(m), NEW n \in Member \ {m}
    PROVE  RequestInv(n)'
<1>1. RequestInv(n)
  BY DEF CoalescingInv
<1>2. GenerationsKept /\ NobodyElseAdded(m) /\ OthersKept(m)
  BY EffectOnGenerations, EffectOnOthers
<1>3. /\ stage'[n] = stage[n] /\ answer'[n] = answer[n] /\ status'[n] = status[n]
      /\ result'[n] = result[n] /\ (n \in doneEvent' <=> n \in doneEvent)
      /\ \/ state'[n] = state[n]
         \/ state[n] = "open" /\ state'[n] = "ready"
      /\ Delivered(n) => Delivered(n)'
  BY <1>2 DEF OthersKept, GenerationsKept
<1>4. /\ LeaderAndState(n)' /\ AnswerSoFar(n)' /\ Published(n)' /\ LeaderAndLane(n)'
  BY <1>1, <1>3 DEF RequestInv, LeaderAndState, AnswerSoFar, Published, LeaderAndLane,
     HasToken
<1>5. Membership(n)'
  BY <1>1, <1>2, <1>3 DEF RequestInv, Membership, GenerationsKept, NobodyElseAdded,
     Generations
<1>6. Served(n)'
  <2>1. SUFFICES ASSUME stage'[n] = "answered", answer'[n] = "upstream_result"
                 PROVE  \E g \in Generations' : n \in Range(members'[g]) /\ Delivered(g)'
    BY DEF Served
  <2>2. PICK g \in Generations : n \in Range(members[g]) /\ Delivered(g)
    BY <1>1, <1>3, <2>1 DEF RequestInv, Served
  <2> QED  BY <1>2, <2>2 DEF GenerationsKept, Generations
<1> QED  BY <1>4, <1>5, <1>6 DEF RequestInv

\* A request that neither opens nor joins stays where it is a member.
LEMMA OwnMembership ==
    ASSUME NEW m \in Member, Membership(m), SameMembership,
           stage'[m] = "joined" => stage[m] = "joined",
           stage'[m] \in {"new", "arrived"} => stage[m] \in {"new", "arrived"}
    PROVE  Membership(m)'
BY DEF SameMembership, Membership, Generations

\* The generation a joiner waits for.
LEMMA GenerationOfJoiner ==
    ASSUME NEW m \in Member, Membership(m), stage[m] = "joined"
    PROVE  GenOf(m) \in Generations /\ m \in Range(members[GenOf(m)])
BY DEF Membership, GenOf

LEMMA OwnStepArriving ==
    ASSUME CoalescingInv, NEW m \in Member, Arrive(m) \/ Enqueue(m)
    PROVE  RequestInv(m)'
<1>1. DataOK /\ RequestInv(m)
  BY TypeParts DEF CoalescingInv
<1>2. CASE Arrive(m)
  <2>1. /\ stage[m] = "new" /\ answer[m] = "none"
        /\ \/ stage'[m] = "arrived" /\ answer'[m] = "none"
           \/ stage'[m] = "answered" /\ answer'[m] = "refused"
        /\ UNCHANGED <<state, members, sent, result, doneEvent, status>>
    BY <1>1, <1>2 DEF Arrive, Answered, Go, DataOK, RequestInv, AnswerSoFar, slotVars, doneVars
  <2>2. Membership(m)'
    BY <1>1, <2>1, OwnMembership DEF RequestInv, SameMembership, Generations
  <2> QED
    BY <1>1, <2>1, <2>2 DEF RequestInv, LeaderAndState, AnswerSoFar, Published, Served,
       LeaderAndLane, Delivered
<1>3. ASSUME NEW blockBytes, Open(m, blockBytes) PROVE RequestInv(m)'
  <2>1. Membership(m)'
    BY <1>1, <1>3, OpenEffect DEF Membership, RequestInv, Generations
  <2>2. result[m] # "upstream_result"
    BY <1>1, <1>3, OpenEffect DEF RequestInv, Published, Delivered
  <2> QED
    BY <1>1, <1>3, <2>1, <2>2, OpenEffect DEF RequestInv, LeaderAndState, AnswerSoFar,
       Published, Served, LeaderAndLane
<1>4. ASSUME NEW blockBytes, Join(m, blockBytes) PROVE RequestInv(m)'
  <2>1. PICK g \in Generations :
           /\ stage[m] = "arrived" /\ stage'[m] = "joined" /\ state'[m] = "none"
           /\ Generations' = Generations
           /\ Range(members'[g]) = Range(members[g]) \cup {m}
           /\ \A h \in Member \ {g} : members'[h] = members[h]
           /\ UNCHANGED <<answer, result, doneEvent, sent, status>>
    BY <1>4, JoinEffect
  <2>2. g \in Generations' /\ Generations \subseteq Member
    BY <2>1 DEF Generations
  <2>3. \A h \in Generations : m \notin Range(members[h])
    BY <1>1, <2>1 DEF RequestInv, Membership
  <2>4. Membership(m)'
    BY <2>1, <2>2, <2>3 DEF Membership
  <2>5. state[m] = "none"
    BY <1>1, <2>1 DEF RequestInv, LeaderAndState
  <2> QED
    BY <1>1, <2>1, <2>4, <2>5 DEF RequestInv, LeaderAndState, AnswerSoFar, Published,
       Served, LeaderAndLane, Delivered
<1> QED  BY <1>2, <1>3, <1>4 DEF Enqueue

LEMMA OwnStepLane ==
    ASSUME CoalescingInv, NEW m \in Member,
           SkipLane(m) \/ Queue(m) \/ Admitted(m) \/ LaneTimeout(m)
    PROVE  RequestInv(m)'
<1>1. DataOK /\ RequestInv(m) /\ Lane!TypeOK
  BY TypeParts DEF CoalescingInv
<1>2. /\ stage[m] \in {"leading", "waiting"}
      /\ \/ stage'[m] = "waiting" /\ answer'[m] = "none" /\ status'[m] = "waiting"
         \/ stage'[m] = "closing" /\ answer'[m] \in {"unavailable", "queue_timeout"}
         \/ stage'[m] = "closing" /\ answer'[m] = "none" /\ status'[m] = "holding"
      /\ UNCHANGED <<state, members, sent, result, doneEvent>>
  BY <1>1, LaneCalls DEF SkipLane, Queue, Admitted, LaneTimeout, CloseWith, Go, DataOK,
     RequestInv, AnswerSoFar, Lane!TypeOK, slotVars, doneVars
<1>3. Membership(m)'
  BY <1>1, <1>2, OwnMembership DEF RequestInv, SameMembership, Generations
<1> QED
  BY <1>1, <1>2, <1>3 DEF RequestInv, LeaderAndState, AnswerSoFar, Published, Served,
     LeaderAndLane, HasToken, Delivered

LEMMA OwnStepClosing ==
    ASSUME CoalescingInv, NEW m \in Member, CloseOpenSlot(m) \/ Send(m)
    PROVE  RequestInv(m)'
<1>1. DataOK /\ RequestInv(m)
  BY TypeParts DEF CoalescingInv
<1>2. SameMembership
  BY SameMembershipStep DEF Step, Lead, Enqueue, Open, Join, CloseOpenSlot, Send
<1>3. UNCHANGED <<answer, result, doneEvent, status>>
  BY DEF CloseOpenSlot, Send, doneVars
<1>4. CASE CloseOpenSlot(m)
  <2>1. /\ stage[m] = "closing" /\ stage'[m] = "closed"
        /\ state[m] \in {"open", "ready"} /\ state'[m] = "ready" /\ sent' = sent
    BY <1>1, <1>4 DEF CloseOpenSlot, Go, DataOK, RequestInv, LeaderAndState
  <2>2. Membership(m)'
    BY <1>1, <1>2, <2>1, OwnMembership DEF RequestInv
  <2> QED
    BY <1>1, <1>3, <2>1, <2>2 DEF RequestInv, LeaderAndState, AnswerSoFar, Published,
       Served, LeaderAndLane, HasToken, Delivered
<1>5. CASE Send(m)
  <2>1. /\ stage[m] = "closed" /\ stage'[m] = "executing" /\ answer[m] = "none"
        /\ state[m] = "ready" /\ state'[m] = "in_flight"
        /\ sent'[m] = members[m]
    BY <1>1, <1>5 DEF Send, Go, DataOK, RequestInv, LeaderAndState, HasToken
  <2>2. Membership(m)'
    BY <1>1, <1>2, <2>1, OwnMembership DEF RequestInv
  <2>3. Delivered(m)'
    BY <1>2, <2>1 DEF Delivered, SameMembership
  <2> QED
    BY <1>1, <1>3, <2>1, <2>2, <2>3 DEF RequestInv, LeaderAndState, AnswerSoFar, Published,
       Served, LeaderAndLane, HasToken
<1> QED  BY <1>4, <1>5

LEMMA OwnStepEnding ==
    ASSUME CoalescingInv, NEW m \in Member,
           NotSent(m) \/ Malformed(m) \/ Executed(m) \/ LeaderRaises(m)
    PROVE  RequestInv(m)'
<1>1. DataOK /\ RequestInv(m)
  BY TypeParts DEF CoalescingInv
<1>2. /\ stage[m] \in {"closed", "executing"}
      /\ \/ stage'[m] = "answered" /\ answer'[m] = "exception"
         \/ /\ stage'[m] = "finishing"
            /\ \/ answer'[m] \in {"unavailable", "queue_timeout", "total_timeout"}
               \/ answer'[m] = "upstream_result" /\ stage[m] = "executing"
      /\ UNCHANGED <<state, members, sent, result, doneEvent>>
  BY <1>1 DEF NotSent, Malformed, Executed, LeaderRaises, Answered, Go, HasToken, DataOK,
     RequestInv, AnswerSoFar, slotVars, doneVars
<1>3. Membership(m)'
  BY <1>1, <1>2, OwnMembership DEF RequestInv, SameMembership, Generations
<1> QED
  BY <1>1, <1>2, <1>3 DEF RequestInv, LeaderAndState, AnswerSoFar, Published, Served,
     LeaderAndLane, Delivered

LEMMA OwnStepFinishing ==
    ASSUME CoalescingInv, NEW m \in Member, Publish(m) \/ Wake(m)
    PROVE  RequestInv(m)'
<1>1. DataOK /\ RequestInv(m)
  BY TypeParts DEF CoalescingInv
<1>2. SameMembership
  BY SameMembershipStep DEF Step, Lead, Enqueue, Open, Join, Publish, Wake
<1>3. CASE Publish(m)
  <2>1. /\ stage[m] = "finishing" /\ stage'[m] = "waking" /\ answer' = answer
        /\ state'[m] = "done" /\ state[m] \in {"ready", "in_flight"}
        /\ result'[m] = answer[m] /\ answer[m] # "none"
        /\ UNCHANGED <<members, sent, doneEvent, status>>
    BY <1>1, <1>3 DEF Publish, Go, DataOK, RequestInv, LeaderAndState, AnswerSoFar, slotVars
  <2>2. Membership(m)'
    BY <1>1, <1>2, <2>1, OwnMembership DEF RequestInv
  <2> QED
    BY <1>1, <2>1, <2>2 DEF RequestInv, LeaderAndState, AnswerSoFar, Published, Served,
       LeaderAndLane, Delivered
<1>4. CASE Wake(m)
  <2>1. /\ stage[m] = "waking" /\ stage'[m] = "answered" /\ answer'[m] = answer[m]
        /\ state[m] = "done" /\ result[m] = answer[m] /\ answer[m] # "none"
        /\ doneEvent' = doneEvent \cup {m}
        /\ UNCHANGED <<state, members, sent, result, status>>
    BY <1>1, <1>4 DEF Wake, Answered, Go, DataOK, RequestInv, LeaderAndState, AnswerSoFar,
       slotVars
  <2>2. Membership(m)'
    BY <1>1, <1>2, <2>1, OwnMembership DEF RequestInv
  <2>3. m \in Generations' /\ m \in Range(members'[m])
    BY <1>1, <2>1 DEF RequestInv, Membership, Generations
  <2> QED
    BY <1>1, <2>1, <2>2, <2>3 DEF RequestInv, LeaderAndState, AnswerSoFar, Published,
       Served, LeaderAndLane, Delivered
<1> QED  BY <1>3, <1>4

LEMMA OwnStepJoiner ==
    ASSUME CoalescingInv, NEW m \in Member, JoinerReturns(m)
    PROVE  RequestInv(m)'
<1>1. DataOK /\ RequestInv(m)
  BY TypeParts DEF CoalescingInv
<1>2. /\ stage[m] = "joined" /\ stage'[m] = "answered"
      /\ answer'[m] \in {result[GenOf(m)], "total_timeout"}
      /\ UNCHANGED <<state, members, sent, result, doneEvent, status>>
  BY <1>1 DEF JoinerReturns, Answered, Go, DataOK, slotVars, doneVars
<1>3. PICK g \in Generations : g = GenOf(m) /\ m \in Range(members[g])
  BY <1>1, <1>2, GenerationOfJoiner DEF RequestInv
<1>4. Membership(m)'
  BY <1>1, <1>2, OwnMembership DEF RequestInv, SameMembership, Generations
<1>5. Served(m)'
  <2>1. SUFFICES ASSUME answer'[m] = "upstream_result"
                 PROVE  \E h \in Generations' : m \in Range(members'[h]) /\ Delivered(h)'
    BY DEF Served
  <2>2. g \in Member /\ g \in Generations' /\ m \in Range(members'[g])
    BY <1>2, <1>3 DEF Generations
  <2>3. result[g] = "upstream_result"
    BY <1>2, <1>3, <2>1
  <2>4. Delivered(g)
    BY <2>2, <2>3 DEF CoalescingInv, RequestInv, Published
  <2> QED  BY <1>2, <2>2, <2>4 DEF Delivered
<1> QED
  BY <1>1, <1>2, <1>4, <1>5 DEF RequestInv, LeaderAndState, AnswerSoFar, Published,
     LeaderAndLane, Delivered

LEMMA OwnStepBeside ==
    ASSUME CoalescingInv, NEW m \in Member,
           Lapse(m) \/ QueueBudgetSpent(m) \/ TotalBudgetSpent(m)
    PROVE  RequestInv(m)'
<1>1. RequestInv(m)
  BY DEF CoalescingInv
<1>2. /\ UNCHANGED <<stage, answer, state, members, sent, result, doneEvent>>
      /\ status' = status \/ stage[m] \in {"finishing", "waking", "answered"}
  BY DEF Lapse, QueueBudgetSpent, TotalBudgetSpent, requestVars, slotVars, doneVars
<1>3. Membership(m)'
  BY <1>1, <1>2, OwnMembership DEF RequestInv, SameMembership, Generations
<1> QED
  BY <1>1, <1>2, <1>3 DEF RequestInv, LeaderAndState, AnswerSoFar, Published, Served,
     LeaderAndLane, HasToken, Delivered, Generations

LEMMA RequestStep ==
    ASSUME CoalescingInv, NEW m \in Member, Arrive(m) \/ Step(m), NEW n \in Member
    PROVE  RequestInv(n)'
<1>1. CASE n # m
  BY <1>1, OthersStep
<1>2. CASE n = m
  BY <1>2, OwnStepArriving, OwnStepLane, OwnStepClosing, OwnStepEnding, OwnStepFinishing,
     OwnStepJoiner, OwnStepBeside DEF Step, Lead
<1> QED  BY <1>1, <1>2
-----------------------------------------------------------------------------
(***************************************************************************)
(* The invariant, and the properties that follow from it.                  *)
(***************************************************************************)

LEMMA CoalescingInit == Init => CoalescingInv
<1> SUFFICES ASSUME Init PROVE CoalescingInv
  OBVIOUS
<1> USE DEF Init
<1>1. TypeOK
  <2>1. ClocksOK
    BY DEF ClocksOK, Underway
  <2>2. << >> \in Seq(Member)
    OBVIOUS
  <2>3. /\ members \in [Member -> Seq(Member)]
        /\ sent \in [Member -> Seq(Member)]
    BY <2>2
  <2>4. DataOK
    BY <2>3 DEF DataOK, Stages
  <2>5. Lane!TypeOK
    BY DEF Lane!Init, Lane!TypeOK, Lane!Statuses
  <2> QED  BY <2>1, <2>4, <2>5, TypeParts
<1>2. OpenIffRegistered /\ \A k \in Key : Registered(k)
  BY CoalescingAssumption DEF OpenIffRegistered, Registered
<1>3. ASSUME NEW m \in Member PROVE RequestInv(m)
  BY DEF RequestInv, LeaderAndState, AnswerSoFar, Published, Membership, Served,
     LeaderAndLane, Generations, Lane!Init
<1>4. PoolInv
  <2>1. Lane!Holding = {}
    BY DEF Lane!Init, Lane!Holding
  <2> QED  BY <2>1, FS_EmptySet, CoalescingAssumption DEF PoolInv
<1> QED  BY <1>1, <1>2, <1>3, <1>4 DEF CoalescingInv

LEMMA CoalescingStep == CoalescingInv /\ [Next]_vars => CoalescingInv'
<1> SUFFICES ASSUME CoalescingInv, [Next]_vars PROVE CoalescingInv'
  OBVIOUS
<1>1. Lane!TypeOK' /\ PoolInv'
  BY LanePart, PoolStep
<1>2. ASSUME NEW m \in Member, Arrive(m) \/ Step(m) PROVE CoalescingInv'
  <2>1. DataOK' /\ RegistryInv' /\ \A n \in Member : RequestInv(n)'
    BY <1>2, DataStep, RegistryStep, RequestStep
  <2>2. ClocksOK'
    BY <1>2, ClockStep, TypeParts DEF CoalescingInv, DataOK
  <2>3. TypeOK'
    BY <1>1, <2>1, <2>2 DEF TypeOK, ClocksOK, DataOK
  <2> QED  BY <1>1, <2>1, <2>3 DEF CoalescingInv, RegistryInv
<1>3. CASE UNCHANGED vars
  BY <1>3 DEF vars, requestVars, budgetVars, slotVars, doneVars, CoalescingInv, TypeOK,
     Underway, Lane!TypeOK, OpenIffRegistered, Registered, RequestInv, LeaderAndState,
     AnswerSoFar, Published, Membership, Served, LeaderAndLane, HasToken, Delivered,
     Generations, PoolInv, Lane!Holding
<1> QED  BY <1>2, <1>3 DEF Next

LEMMA CoalescingInvariant == Spec => []CoalescingInv
BY CoalescingInit, CoalescingStep, PTL DEF Spec

\* Every variable keeps its type; the requests under way are ordered by when they
\* read the clock, and budgets are followed only for them.
THEOREM CoalescingTypeCorrect == Spec => []TypeOK
<1>1. CoalescingInv => TypeOK
  BY DEF CoalescingInv
<1> QED  BY <1>1, CoalescingInvariant, PTL

\* Under any interleaving of openers, joiners and closing leaders, a generation
\* can be found in _open_queue_slots exactly while it is OPEN, and it is below the
\* byte bound then: append() and seal() never raise.
THEOREM CoalescingOpenIffRegistered == Spec => []OpenIffRegistered
<1>1. CoalescingInv => OpenIffRegistered
  BY DEF CoalescingInv
<1> QED  BY <1>1, CoalescingInvariant, PTL

\* Whoever returns the upstream's result, leader or joiner, was in the body sent.
THEOREM CoalescingResultMeansSent == Spec => []ResultMeansSent
<1>1. CoalescingInv => ResultMeansSent
  BY DEF CoalescingInv, RequestInv, Served, Delivered, ResultMeansSent
<1> QED  BY <1>1, CoalescingInvariant, PTL

\* The members of a generation are fixed once it leaves OPEN, and it never reopens.
THEOREM CoalescingMembershipFrozen == Spec => MembershipFrozen
<1>1. CoalescingInv /\ [Next]_vars =>
          [\A g \in Generations : state[g] # "open" =>
               members'[g] = members[g] /\ state'[g] # "open"]_vars
  BY EffectOnGenerations DEF Next, GenerationsKept
<1> QED  BY <1>1, CoalescingInvariant, PTL DEF Spec, MembershipFrozen

\* The event of a generation is set only after its result: a joiner that returns
\* has the leader's outcome, or its own deadline has passed.
THEOREM CoalescingJoinerHearsLeader == Spec => JoinerHearsLeader
<1> DEFINE Hears ==
        \A m \in Member : stage[m] = "joined" /\ stage'[m] = "answered" =>
          \/ answer'[m] = result[GenOf(m)] /\ answer'[m] # "none"
          \/ answer'[m] = "total_timeout" /\ m \in totalSpent
<1>1. ASSUME CoalescingInv, NEW m \in Member, Arrive(m) \/ Step(m),
             NEW n \in Member, stage[n] = "joined", stage'[n] = "answered"
      PROVE  \/ answer'[n] = result[GenOf(n)] /\ answer'[n] # "none"
             \/ answer'[n] = "total_timeout" /\ n \in totalSpent
  <2>1. DataOK
    BY <1>1, TypeParts DEF CoalescingInv
  <2>2. n = m
    BY <1>1, EffectOnOthers DEF OthersKept
  <2>3. JoinerReturns(m)
    BY <1>1, <2>1, <2>2 DEF Arrive, Step, Enqueue, Open, Join, Lead, SkipLane, Queue,
       Admitted, LaneTimeout, CloseOpenSlot, NotSent, Malformed, Send, Executed,
       LeaderRaises, Publish, Wake, Lapse, QueueBudgetSpent, TotalBudgetSpent, requestVars
  <2>4. GenOf(m) \in Member
    BY <1>1, <2>2, GenerationOfJoiner DEF CoalescingInv, RequestInv, Generations
  <2>5. Published(GenOf(m))
    BY <1>1, <2>4 DEF CoalescingInv, RequestInv
  <2> HIDE DEF GenOf
  <2> QED
    BY <2>1, <2>2, <2>3, <2>5 DEF JoinerReturns, Answered, DataOK, Published
<1>2. CoalescingInv /\ [Next]_vars => [Hears]_vars
  BY <1>1 DEF Next
<1> QED  BY <1>2, CoalescingInvariant, PTL DEF Spec, JoinerHearsLeader

\* A request is a member of one generation at most, so the generation a joiner
\* waits for is the one it was appended to.
THEOREM CoalescingOneGeneration ==
    Spec => [](\A m \in Member : \A g, h \in Generations :
                   m \in Range(members[g]) /\ m \in Range(members[h]) => g = h)
<1>1. CoalescingInv => \A m \in Member : \A g, h \in Generations :
          m \in Range(members[g]) /\ m \in Range(members[h]) => g = h
  BY DEF CoalescingInv, RequestInv, Membership
<1> QED  BY <1>1, CoalescingInvariant, PTL

\* However many members a generation has, each physical request holds one place of
\* the lane: no more than concurrency_limit are in flight.
THEOREM CoalescingCapacity ==
    Spec => [](Cardinality({m \in Member : stage[m] = "executing"}) <= Capacity)
<1>1. CoalescingInv => Cardinality({m \in Member : stage[m] = "executing"}) <= Capacity
  <2> SUFFICES ASSUME CoalescingInv
               PROVE  Cardinality({m \in Member : stage[m] = "executing"}) <= Capacity
    OBVIOUS
  <2> DEFINE executing == {m \in Member : stage[m] = "executing"}
  <2>1. executing \subseteq Lane!Holding
    BY DEF CoalescingInv, RequestInv, LeaderAndLane, Lane!Holding
  <2>2. IsFiniteSet(Lane!Holding) /\ Cardinality(Lane!Holding) <= Capacity
    BY DEF CoalescingInv, PoolInv
  <2> HIDE DEF executing
  <2>3. IsFiniteSet(executing) /\ Cardinality(executing) <= Cardinality(Lane!Holding)
    BY <2>1, <2>2, FS_Subset
  <2>4. Cardinality(Lane!Holding) \in Nat /\ Cardinality(executing) \in Nat
    BY <2>2, <2>3, FS_CardinalityType
  <2>5. Cardinality(executing) <= Capacity
    BY <2>2, <2>3, <2>4, CoalescingAssumption
  <2> QED  BY <2>5 DEF executing
<1> QED  BY <1>1, CoalescingInvariant, PTL
=============================================================================
