--------------------------- MODULE ForwarderProofs ---------------------------
(***************************************************************************)
(* What is proved about forward() for every set of concurrent calls.       *)
(*                                                                         *)
(* The argument: the two critical sections are ordered, so the worker      *)
(* reports late exactly if the caller gave up before it published, and the *)
(* caller gives up exactly if the worker had not published yet.            *)
(***************************************************************************)
EXTENDS Forwarder, TLAPS

\* The worker has put its result into the box.
Published(r) == worker[r] \in {"notifying", "done"}

\* How the two threads of one call stand to each other.
Handshake(r) ==
    /\ caller[r] = "idle" <=> worker[r] = "none"
    /\ Published(r) => /\ outcome[r] # "unbound"
                       /\ box[r] = Pair(outcome[r], closed[r])
                       /\ notifyLate[r] = gaveUp[r]
    /\ ~Published(r) => box[r] = NoPair
    /\ worker[r] # "done" => late[r] = << >>
    /\ worker[r] = "done" /\ ~gaveUp[r] => late[r] = << >>
    /\ worker[r] = "done" /\ gaveUp[r]  => late[r] = <<box[r]>>
    /\ caller[r] # "returned" => ~gaveUp[r] /\ returned[r] = NoPair
    /\ caller[r] = "returned" /\ gaveUp[r]  => returned[r] = NoResponse
    /\ caller[r] = "returned" /\ ~gaveUp[r] => Published(r) /\ returned[r] = box[r]

\* What the worker's local variable closed says about the connection.
Connection(r) ==
    /\ closed[r] <=> connection[r] = "closed"
    /\ worker[r] = "none" <=> connection[r] = "none"
    /\ worker[r] \in {"requesting", "reading", "closing"} => connection[r] = "open"

Inv == TypeOK /\ \A r \in Req : Handshake(r) /\ Connection(r)
-----------------------------------------------------------------------------
(* Calls share no state.                                                   *)

StepOf(r) == CallerStep(r) \/ BudgetSpent(r) \/ WorkerStep(r)

SameCall(q) ==
    /\ caller'[q] = caller[q]         /\ worker'[q] = worker[q]
    /\ connection'[q] = connection[q] /\ budget'[q] = budget[q]
    /\ outcome'[q] = outcome[q]       /\ closed'[q] = closed[q]
    /\ box'[q] = box[q]               /\ gaveUp'[q] = gaveUp[q]
    /\ notifyLate'[q] = notifyLate[q] /\ returned'[q] = returned[q]
    /\ late'[q] = late[q]

LEMMA OnlyThisCall ==
    ASSUME TypeOK, NEW r \in Req, StepOf(r), NEW q \in Req \ {r}
    PROVE  SameCall(q)
<1> USE DEF TypeOK, SameCall, callerVars, workerVars
<1>1. CASE CallerStep(r)
  BY <1>1 DEF CallerStep, Start, JoinReturns, CallerDecides
<1>2. CASE BudgetSpent(r)
  BY <1>2 DEF BudgetSpent
<1>3. CASE Request(r) \/ Read(r)
  BY <1>3 DEF Request, Read, Conclude
<1>4. CASE Unwind(r)
  BY <1>4 DEF Unwind, Close, Publish, Notify
<1> QED  BY <1>1, <1>2, <1>3, <1>4 DEF StepOf, WorkerStep

LEMMA HandshakeKept ==
    ASSUME NEW q, Handshake(q), Connection(q), SameCall(q)
    PROVE  Handshake(q)' /\ Connection(q)'
BY DEF Handshake, Connection, Published, SameCall, Pair, NoPair, NoResponse
-----------------------------------------------------------------------------
(* The invariant.                                                          *)

LEMMA PairType ==
    /\ \A result \in Outcomes, isClosed \in BOOLEAN :
          /\ Pair(result, isClosed) \in Pairs
          /\ Pair(result, isClosed) # NoPair
          /\ Pair(result, isClosed) # NoResponse
          /\ Pair(result, isClosed).closed = isClosed
    /\ NoPair \notin Pairs /\ NoResponse \notin Pairs /\ NoPair # NoResponse
    /\ NoPair.closed = FALSE /\ NoResponse.closed = FALSE
BY DEF Pair, Pairs, NoPair, NoResponse, Outcomes

\* The variables of every call keep their types.
LEMMA TypeStep ==
    ASSUME Inv, NEW r \in Req, StepOf(r)
    PROVE  TypeOK'
<1> USE DEF TypeOK, callerVars, workerVars
<1>0. TypeOK /\ Handshake(r)
  BY DEF Inv
<1>1. CASE Start(r) \/ JoinReturns(r) \/ BudgetSpent(r)
  BY <1>0, <1>1 DEF Start, JoinReturns, BudgetSpent
<1>2. CASE CallerDecides(r)
  BY <1>0, <1>2 DEF CallerDecides
<1>3. CASE Request(r)
  BY <1>0, <1>3 DEF Request, Conclude, Outcomes
<1>4. CASE Read(r)
  BY <1>0, <1>4 DEF Read, Conclude, Outcomes
<1>5. CASE Close(r)
  BY <1>0, <1>5 DEF Close
<1>6. CASE Publish(r)
  <2>1. outcome[r] # "unbound" => Pair(outcome[r], closed[r]) \in Pairs
    BY <1>0, PairType
  <2> QED  BY <1>0, <1>6, <2>1 DEF Publish
<1>7. CASE Notify(r)
  <2>1. late[r] = << >> /\ Pair(outcome[r], closed[r]) \in Pairs
    BY <1>0, <1>7, PairType DEF Notify, Handshake, Published
  <2>2. Append(late[r], Pair(outcome[r], closed[r])) = <<Pair(outcome[r], closed[r])>>
    BY <2>1
  <2>3. late' \in [Req -> {<< >>} \cup {<<pair>> : pair \in Pairs}]
    BY <1>0, <1>7, <2>1, <2>2 DEF Notify
  <2> QED  BY <1>0, <1>7, <2>3 DEF Notify
<1> QED
  BY <1>1, <1>2, <1>3, <1>4, <1>5, <1>6, <1>7
     DEF StepOf, CallerStep, WorkerStep, Unwind

LEMMA InvInit == Init => Inv
BY DEF Init, Inv, TypeOK, Handshake, Connection, Published, Outcomes, Pair, NoPair

\* The call that steps keeps its two threads in agreement.
LEMMA HandshakeStep ==
    ASSUME Inv, NEW r \in Req, StepOf(r)
    PROVE  Handshake(r)' /\ Connection(r)'
<1>0. TypeOK /\ Handshake(r) /\ Connection(r)
  BY DEF Inv
<1> USE DEF TypeOK, Handshake, Connection, Published, callerVars, workerVars
<1>1. CASE Start(r) \/ JoinReturns(r) \/ BudgetSpent(r)
  BY <1>0, <1>1 DEF Start, JoinReturns, BudgetSpent
<1>2. CASE CallerDecides(r)
  BY <1>0, <1>2, PairType DEF CallerDecides
<1>3. CASE Request(r) \/ Read(r)
  BY <1>0, <1>3 DEF Request, Read, Conclude
<1>4. CASE Close(r)
  BY <1>0, <1>4 DEF Close
<1>5. CASE Publish(r)
  BY <1>0, <1>5 DEF Publish
<1>6. CASE Notify(r)
  <2>1. Append(late[r], Pair(outcome[r], closed[r])) = <<box[r]>>
    BY <1>0, <1>6 DEF Notify
  <2> QED  BY <1>0, <1>6, <2>1 DEF Notify
<1> QED
  BY <1>1, <1>2, <1>3, <1>4, <1>5, <1>6
     DEF StepOf, CallerStep, WorkerStep, Unwind

LEMMA InvStep == Inv /\ [Next]_vars => Inv'
<1> SUFFICES ASSUME Inv, [Next]_vars PROVE Inv'
  OBVIOUS
<1>1. ASSUME NEW r \in Req, StepOf(r)
      PROVE  Inv'
  <2>1. \A q \in Req \ {r} : Handshake(q)' /\ Connection(q)'
    BY <1>1, OnlyThisCall, HandshakeKept DEF Inv
  <2> QED  BY <1>1, <2>1, TypeStep, HandshakeStep DEF Inv
<1>2. CASE UNCHANGED vars
  BY <1>2 DEF vars, callerVars, workerVars, Inv, TypeOK, Handshake, Connection, Published
<1> QED  BY <1>1, <1>2 DEF Next, StepOf

THEOREM ForwarderInvariant == Spec => []Inv
BY InvInit, InvStep, PTL DEF Spec

\* The variables of forward() keep their types, and a late completion is
\* reported at most once.
THEOREM ForwarderTypeCorrect == Spec => []TypeOK
<1>1. Inv => TypeOK
  BY DEF Inv
<1> QED  BY <1>1, ForwarderInvariant, PTL

\* A finished worker's result reaches the caller exactly once, as the value of
\* forward() or through on_late_completion, in every interleaving.
THEOREM ForwarderDeliversOnce == Spec => []ResultDeliveredOnce
<1>1. Inv => ResultDeliveredOnce
  BY DEF Inv, TypeOK, ResultDeliveredOnce, Handshake, Published
<1> QED  BY <1>1, ForwarderInvariant, PTL

\* Nobody is told that the connection is closed before it is.
THEOREM ForwarderClosedIsConfirmed == Spec => []ClosedIsConfirmed
<1>1. Inv => ClosedIsConfirmed
  <2> SUFFICES ASSUME Inv, NEW r \in Req,
                      returned[r].closed \/ (late[r] # << >> /\ late[r][1].closed)
               PROVE  connection[r] = "closed"
    BY DEF ClosedIsConfirmed
  <2>0. TypeOK /\ Handshake(r) /\ Connection(r)
    BY DEF Inv
  <2>1. Published(r) => box[r].closed = closed[r]
    BY <2>0, PairType DEF TypeOK, Handshake
  <2>2. returned[r].closed => closed[r]
    BY <2>0, <2>1, PairType DEF TypeOK, Handshake
  <2>3. late[r] # << >> => late[r][1] = box[r] /\ Published(r)
    BY <2>0 DEF TypeOK, Handshake, Published
  <2> QED  BY <2>0, <2>1, <2>2, <2>3 DEF Connection
<1> QED  BY <1>1, ForwarderInvariant, PTL
-----------------------------------------------------------------------------
(* forward() implements UpstreamCall.                                      *)

LEMMA ToldTable ==
    ASSUME NEW r \in Req
    PROVE  /\ caller[r] = "idle" => CallTold(r) = "idle"
           /\ caller[r] \in {"joining", "deciding"} => CallTold(r) = "pending"
           /\ caller[r] = "returned" /\ returned[r] # NoResponse =>
                 CallTold(r) = IF returned[r].closed THEN "confirmed" ELSE "unconfirmed"
           /\ caller[r] = "returned" /\ returned[r] = NoResponse =>
                 CallTold(r) = IF late[r] = << >> THEN "gaveup"
                               ELSE IF late[r][1].closed THEN "lateConfirmed"
                               ELSE "lateUnconfirmed"
BY DEF CallTold

LEMMA ToldTableNext ==
    ASSUME NEW r \in Req
    PROVE  /\ caller'[r] = "idle" => CallTold(r)' = "idle"
           /\ caller'[r] \in {"joining", "deciding"} => CallTold(r)' = "pending"
           /\ caller'[r] = "returned" /\ returned'[r] # NoResponse =>
                 CallTold(r)' = IF returned'[r].closed THEN "confirmed" ELSE "unconfirmed"
           /\ caller'[r] = "returned" /\ returned'[r] = NoResponse =>
                 CallTold(r)' = IF late'[r] = << >> THEN "gaveup"
                                ELSE IF late'[r][1].closed THEN "lateConfirmed"
                                ELSE "lateUnconfirmed"
<1>1. NoResponse' = NoResponse
  BY DEF NoResponse, Pair
<1> QED  BY <1>1 DEF CallTold

InHand == {"requesting", "reading", "closing"}

LEMMA UpstreamTable ==
    ASSUME NEW r \in Req
    PROVE  /\ connection[r] = "none" => InUpstream(r) = "idle"
           /\ connection[r] = "closed" => InUpstream(r) = "stopped"
           /\ connection[r] = "open" /\ worker[r] \in InHand => InUpstream(r) = "running"
           /\ connection[r] = "open" /\ worker[r] \notin InHand => InUpstream(r) = "unknown"
BY DEF InUpstream, InHand

LEMMA UpstreamTableNext ==
    ASSUME NEW r \in Req
    PROVE  /\ connection'[r] = "none" => InUpstream(r)' = "idle"
           /\ connection'[r] = "closed" => InUpstream(r)' = "stopped"
           /\ connection'[r] = "open" /\ worker'[r] \in InHand
                 => InUpstream(r)' = "running"
           /\ connection'[r] = "open" /\ worker'[r] \notin InHand
                 => InUpstream(r)' = "unknown"
BY DEF InUpstream, InHand

\* Only what is told about, and only what becomes of, the stepping call changes.
LEMMA AbstractStep ==
    ASSUME Inv, NEW r \in Req, StepOf(r)
    PROVE  /\ callTold' = [callTold EXCEPT ![r] = CallTold(r)']
           /\ inUpstream' = [inUpstream EXCEPT ![r] = InUpstream(r)']
<1>1. \A q \in Req \ {r} : SameCall(q)
  BY OnlyThisCall DEF Inv
<1>2. \A q \in Req \ {r} : CallTold(q)' = CallTold(q)
  BY <1>1 DEF SameCall, CallTold, NoResponse, Pair
<1>3. \A q \in Req \ {r} : InUpstream(q)' = InUpstream(q)
  BY <1>1 DEF SameCall, InUpstream
<1> QED  BY <1>2, <1>3 DEF callTold, inUpstream

\* A step that tells the caller nothing and leaves the upstream as it is.
LEMMA Invisible ==
    ASSUME Inv, NEW r \in Req, StepOf(r),
           CallTold(r)' = CallTold(r), InUpstream(r)' = InUpstream(r)
    PROVE  UNCHANGED <<callTold, inUpstream>>
BY AbstractStep DEF callTold, inUpstream

LEMMA CallStep == Inv /\ Inv' /\ [Next]_vars => [Call!Next]_Call!vars
<1> SUFFICES ASSUME Inv, Inv', [Next]_vars
             PROVE  Call!Next \/ UNCHANGED <<callTold, inUpstream>>
  BY DEF Call!vars
<1>a. ASSUME NEW r \in Req, StepOf(r)
      PROVE  Call!Next \/ UNCHANGED <<callTold, inUpstream>>
  <2>0. /\ TypeOK /\ Handshake(r) /\ Connection(r)
        /\ TypeOK' /\ Handshake(r)' /\ Connection(r)'
    BY DEF Inv
  <2> USE DEF callerVars, workerVars
  <2>1. CASE Start(r)
    <3>1. CallTold(r) = "idle" /\ InUpstream(r) = "idle"
      BY <2>0, <2>1, ToldTable, UpstreamTable DEF Start, Handshake, Connection
    <3>2. CallTold(r)' = "pending" /\ InUpstream(r)' = "running"
      BY <2>0, <2>1, ToldTableNext, UpstreamTableNext DEF Start, TypeOK, InHand
    <3>3. Call!Start(r)
      BY <1>a, <3>1, <3>2, AbstractStep DEF Call!Start, callTold, inUpstream
    <3> QED  BY <3>3 DEF Call!Next
  <2>2. CASE JoinReturns(r) \/ BudgetSpent(r)
    <3>1. CallTold(r) = "pending" /\ CallTold(r)' = "pending"
      BY <2>0, <2>2, ToldTable, ToldTableNext DEF JoinReturns, BudgetSpent, TypeOK
    <3>2. InUpstream(r)' = InUpstream(r)
      BY <2>2 DEF JoinReturns, BudgetSpent, InUpstream
    <3> QED  BY <1>a, <3>1, <3>2, Invisible
  <2>3. CASE CallerDecides(r) /\ box[r] # NoPair
    <3>1. CallTold(r) = "pending" /\ InUpstream(r)' = InUpstream(r)
      BY <2>3, ToldTable DEF CallerDecides, InUpstream
    <3>2. /\ Published(r) /\ returned'[r] = box[r] /\ caller'[r] = "returned"
          /\ box[r] = Pair(outcome[r], closed[r]) /\ outcome[r] \in Outcomes
          /\ closed[r] \in BOOLEAN
      BY <2>0, <2>3 DEF CallerDecides, Handshake, TypeOK
    <3>3. returned'[r] # NoResponse /\ returned'[r].closed = closed[r]
      BY <3>2, PairType
    <3>4. CallTold(r)' = IF closed[r] THEN "confirmed" ELSE "unconfirmed"
      BY <3>2, <3>3, ToldTableNext
    <3>5. InUpstream(r) = IF closed[r] THEN "stopped" ELSE "unknown"
      BY <2>0, <3>2, UpstreamTable DEF Connection, Published, TypeOK, InHand
    <3>6. Call!Answer(r)
      BY <1>a, <3>1, <3>4, <3>5, AbstractStep DEF Call!Answer, Call!Ended, callTold, inUpstream
    <3> QED  BY <3>6 DEF Call!Next
  <2>4. CASE CallerDecides(r) /\ box[r] = NoPair
    <3>1. CallTold(r) = "pending" /\ InUpstream(r)' = InUpstream(r)
      BY <2>4, ToldTable DEF CallerDecides, InUpstream
    <3>2. worker[r] # "done"
      BY <2>0, <2>4, PairType DEF Handshake, Published, TypeOK
    <3>3. caller'[r] = "returned" /\ returned'[r] = NoResponse /\ late'[r] = << >>
      BY <2>0, <2>4, <3>2 DEF CallerDecides, Handshake, TypeOK
    <3>4. CallTold(r)' = "gaveup"
      BY <3>3, ToldTableNext
    <3>5. Call!GiveUp(r)
      BY <1>a, <3>1, <3>4, AbstractStep DEF Call!GiveUp, callTold, inUpstream
    <3> QED  BY <3>5 DEF Call!Next
  <2>5. CASE Request(r) \/ Read(r) \/ Publish(r)
    <3>1. CallTold(r)' = CallTold(r)
      BY <2>5 DEF Request, Read, Conclude, Publish, CallTold, NoResponse, Pair
    <3>2. /\ connection' = connection
          /\ worker[r] \in InHand <=> worker'[r] \in InHand
      BY <2>0, <2>5 DEF Request, Read, Conclude, Publish, TypeOK, InHand
    <3>3. InUpstream(r)' = InUpstream(r)
      BY <2>0, <3>2, UpstreamTable, UpstreamTableNext DEF TypeOK
    <3> QED  BY <1>a, <3>1, <3>3, Invisible
  <2>6. CASE Close(r)
    <3>1. CallTold(r)' = CallTold(r)
      BY <2>6 DEF Close, CallTold, NoResponse, Pair
    <3>2. InUpstream(r) = "running"
      BY <2>0, <2>6, UpstreamTable DEF Close, Connection, InHand
    <3>3. InUpstream(r)' \in {"stopped", "unknown"}
      BY <2>0, <2>6, UpstreamTableNext DEF Close, Connection, TypeOK, InHand
    <3>4. Call!Finish(r)
      BY <1>a, <3>1, <3>2, <3>3, AbstractStep DEF Call!Finish, callTold, inUpstream
    <3> QED  BY <3>4 DEF Call!Next
  <2>7. CASE Notify(r) /\ gaveUp[r]
    <3>1. /\ Published(r) /\ box[r] = Pair(outcome[r], closed[r])
          /\ outcome[r] \in Outcomes /\ closed[r] \in BOOLEAN
          /\ late[r] = << >> /\ caller[r] = "returned" /\ returned[r] = NoResponse
      BY <2>0, <2>7 DEF Notify, Handshake, Published, TypeOK
    <3>2. /\ caller'[r] = "returned" /\ returned'[r] = NoResponse
          /\ late'[r] = <<box[r]>>
      BY <2>0, <2>7, <3>1 DEF Notify, Handshake, TypeOK
    <3>3. late'[r] # << >> /\ late'[r][1].closed = closed[r]
      BY <3>1, <3>2, PairType
    <3>4. CallTold(r) = "gaveup"
      BY <3>1, ToldTable
    <3>5. CallTold(r)' = IF closed[r] THEN "lateConfirmed" ELSE "lateUnconfirmed"
      BY <3>2, <3>3, ToldTableNext
    <3>6. InUpstream(r) = IF closed[r] THEN "stopped" ELSE "unknown"
      BY <2>0, <3>1, UpstreamTable DEF Connection, Published, TypeOK, InHand
    <3>7. InUpstream(r)' = InUpstream(r)
      BY <2>0, <2>7, UpstreamTable, UpstreamTableNext DEF Notify, TypeOK, InHand
    <3>8. Call!ReportLate(r)
      BY <1>a, <3>4, <3>5, <3>6, <3>7, AbstractStep
         DEF Call!ReportLate, Call!Ended, callTold, inUpstream
    <3> QED  BY <3>8 DEF Call!Next
  <2>8. CASE Notify(r) /\ ~gaveUp[r]
    <3>1. /\ late' = late /\ caller' = caller /\ returned' = returned
      BY <2>0, <2>8 DEF Notify, Handshake, Published
    <3>2. CallTold(r)' = CallTold(r)
      BY <3>1 DEF CallTold, NoResponse, Pair
    <3>3. InUpstream(r)' = InUpstream(r)
      BY <2>0, <2>8, UpstreamTable, UpstreamTableNext DEF Notify, TypeOK, InHand
    <3> QED  BY <1>a, <3>2, <3>3, Invisible
  <2> QED
    BY <1>a, <2>1, <2>2, <2>3, <2>4, <2>5, <2>6, <2>7, <2>8
       DEF StepOf, CallerStep, WorkerStep, Unwind
<1>b. CASE UNCHANGED vars
  BY <1>b DEF vars, callerVars, workerVars, callTold, inUpstream, CallTold, InUpstream,
              NoResponse, Pair
<1> QED  BY <1>a, <1>b DEF Next, StepOf

\* forward() keeps the promise the gateway relies on: whatever its two threads
\* do, a caller is told "closed" only of a request that is stopped, and is told
\* late at most once, after it gave up.
THEOREM ForwarderImplementsCall == Spec => Call!Spec
<1>1. Init => Call!Init
  BY ToldTable, UpstreamTable DEF Init, callTold, inUpstream, Call!Init
<1> QED  BY <1>1, CallStep, ForwarderInvariant, PTL DEF Spec, Call!Spec
=============================================================================
