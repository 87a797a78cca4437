------------------------------ MODULE Forwarder ------------------------------
(***************************************************************************)
(* aalp/forwarder.py, forward(): one upstream request carried by a worker  *)
(* thread, while the caller waits for it at most its compression timeout.  *)
(*                                                                         *)
(* An element of Req is one call of forward() whose path is declared (a    *)
(* path that is not raises ValueError before anything starts).  The worker *)
(* and the caller meet in two critical sections of outcome_lock, Publish   *)
(* and CallerDecides.  The upstream may answer, fail or stall as it likes. *)
(***************************************************************************)
EXTENDS Sequences

CONSTANT Req    \* the calls of forward()

VARIABLES caller,       \* the thread that called forward()
          worker,       \* the background thread running _do_call()
          connection,   \* the upstream connection
          budget,       \* whether timeout_seconds have elapsed
          outcome,      \* the worker's local variable result
          closed,       \* the worker's local variable closed
          box,          \* outcome_box
          gaveUp,       \* caller_gave_up
          notifyLate,   \* the worker's local variable notify_late
          returned,     \* what forward() returned
          late          \* the calls of on_late_completion, in order

callerVars == <<caller, gaveUp, returned>>
workerVars == <<worker, connection, outcome, closed, box, notifyLate, late>>
vars       == <<callerVars, workerVars, budget>>

Outcomes == {"success", "compression_timeout", "upstream_error", "invalid_response"}

\* A pair (result, closed).  The caller's own "no response within the timeout"
\* is told apart from a COMPRESSION_TIMEOUT the worker reports.
Pair(result, isClosed) == [outcome |-> result, closed |-> isClosed]
NoPair     == Pair("none", FALSE)
NoResponse == Pair("no_response", FALSE)
Pairs      == [outcome : Outcomes, closed : BOOLEAN]

Init ==
    /\ caller = [r \in Req |-> "idle"]
    /\ worker = [r \in Req |-> "none"]
    /\ connection = [r \in Req |-> "none"]
    /\ budget = [r \in Req |-> "running"]
    /\ outcome = [r \in Req |-> "unbound"]
    /\ closed = [r \in Req |-> FALSE]
    /\ box = [r \in Req |-> NoPair]
    /\ gaveUp = [r \in Req |-> FALSE]
    /\ notifyLate = [r \in Req |-> FALSE]
    /\ returned = [r \in Req |-> NoPair]
    /\ late = [r \in Req |-> << >>]
-----------------------------------------------------------------------------
(* The caller.                                                             *)

\* The worker thread is started, and joined with a timeout.
Start(r) ==
    /\ caller[r] = "idle"
    /\ caller' = [caller EXCEPT ![r] = "joining"]
    /\ worker' = [worker EXCEPT ![r] = "requesting"]
    /\ connection' = [connection EXCEPT ![r] = "open"]
    /\ UNCHANGED <<budget, outcome, closed, box, gaveUp, notifyLate, returned, late>>

\* timeout_seconds have elapsed since the worker was started.
BudgetSpent(r) ==
    /\ caller[r] = "joining"
    /\ budget[r] = "running"
    /\ budget' = [budget EXCEPT ![r] = "spent"]
    /\ UNCHANGED <<callerVars, workerVars>>

JoinWithoutTimeout(r) ==
    /\ caller[r] = "joining"
    /\ worker[r] \in {"done", "crashed"}
    /\ caller' = [caller EXCEPT ![r] = "deciding"]
    /\ UNCHANGED <<workerVars, budget, gaveUp, returned>>

\* worker.join(timeout_seconds) returns: the thread ended, or time is up.
JoinReturns(r) ==
    /\ caller[r] = "joining"
    /\ worker[r] \in {"done", "crashed"} \/ budget[r] = "spent"
    /\ caller' = [caller EXCEPT ![r] = "deciding"]
    /\ UNCHANGED <<workerVars, budget, gaveUp, returned>>

\* Under outcome_lock: return what is in the box, or give up on the worker.
CallerDecidesWithoutGivingUp(r) ==
    /\ caller[r] = "deciding"
    /\ caller' = [caller EXCEPT ![r] = "returned"]
    /\ returned' = [returned EXCEPT ![r] = IF box[r] # NoPair THEN box[r] ELSE NoResponse]
    /\ UNCHANGED <<workerVars, budget, gaveUp>>

CallerDecides(r) ==
    /\ caller[r] = "deciding"
    /\ caller' = [caller EXCEPT ![r] = "returned"]
    /\ \/ /\ box[r] # NoPair
          /\ returned' = [returned EXCEPT ![r] = box[r]]
          /\ UNCHANGED gaveUp
       \/ /\ box[r] = NoPair
          /\ gaveUp' = [gaveUp EXCEPT ![r] = TRUE]
          /\ returned' = [returned EXCEPT ![r] = NoResponse]
    /\ UNCHANGED <<workerVars, budget>>

CallerStep(r) == Start(r) \/ JoinReturns(r) \/ CallerDecides(r)
-----------------------------------------------------------------------------
(* The worker.                                                             *)

\* The worker has bound result, and goes on to its finally clause.
Conclude(r, result) ==
    /\ outcome' = [outcome EXCEPT ![r] = result]
    /\ worker' = [worker EXCEPT ![r] = "closing"]
    /\ UNCHANGED <<callerVars, connection, budget, closed, box, notifyLate, late>>

\* connection.request() and getresponse(): a response, a timeout, an OSError or
\* HTTPException, or another exception (an illegal header value), which no
\* clause catches: the finally clause runs with result unbound.
Request(r) ==
    /\ worker[r] = "requesting"
    /\ \/ /\ worker' = [worker EXCEPT ![r] = "reading"]
          /\ UNCHANGED <<callerVars, connection, budget, outcome, closed, box,
                         notifyLate, late>>
       \/ \E result \in {"compression_timeout", "upstream_error", "unbound"} :
             Conclude(r, result)

\* response.read(): the body, a timeout, or any other exception.
Read(r) ==
    /\ worker[r] = "reading"
    /\ \E result \in {"success", "compression_timeout", "invalid_response"} :
          Conclude(r, result)

\* connection.close(), which may raise.
CloseConfirmedAnyway(r) ==
    /\ worker[r] = "closing"
    /\ worker' = [worker EXCEPT ![r] = "publishing"]
    /\ closed' = [closed EXCEPT ![r] = TRUE]
    /\ \E state \in {"closed", "open"} :
          connection' = [connection EXCEPT ![r] = state]
    /\ UNCHANGED <<callerVars, budget, outcome, box, notifyLate, late>>

Close(r) ==
    /\ worker[r] = "closing"
    /\ worker' = [worker EXCEPT ![r] = "publishing"]
    /\ \/ /\ connection' = [connection EXCEPT ![r] = "closed"]
          /\ closed' = [closed EXCEPT ![r] = TRUE]
       \/ UNCHANGED <<connection, closed>>
    /\ UNCHANGED <<callerVars, budget, outcome, box, notifyLate, late>>

\* Under outcome_lock: fill the box and learn whether the caller is gone.
\* Evaluating an unbound result raises before the box is touched.
PublishWithoutLooking(r) ==
    /\ worker[r] = "publishing"
    /\ outcome[r] # "unbound"
    /\ box' = [box EXCEPT ![r] = Pair(outcome[r], closed[r])]
    /\ notifyLate' = [notifyLate EXCEPT ![r] = TRUE]
    /\ worker' = [worker EXCEPT ![r] = "notifying"]
    /\ UNCHANGED <<callerVars, connection, budget, outcome, closed, late>>

Publish(r) ==
    /\ worker[r] = "publishing"
    /\ \/ /\ outcome[r] # "unbound"
          /\ box' = [box EXCEPT ![r] = Pair(outcome[r], closed[r])]
          /\ notifyLate' = [notifyLate EXCEPT ![r] = gaveUp[r]]
          /\ worker' = [worker EXCEPT ![r] = "notifying"]
       \/ /\ outcome[r] = "unbound"
          /\ worker' = [worker EXCEPT ![r] = "crashed"]
          /\ UNCHANGED <<box, notifyLate>>
    /\ UNCHANGED <<callerVars, connection, budget, outcome, closed, late>>

NotifyAgain(r) ==
    /\ worker[r] = "notifying"
    /\ worker' = [worker EXCEPT ![r] = "done"]
    /\ late' = [late EXCEPT ![r] = Append(@, NoPair)]
    /\ UNCHANGED <<callerVars, connection, budget, outcome, closed, box, notifyLate>>

NotifyOnlyWhenClosed(r) ==
    /\ worker[r] = "notifying"
    /\ worker' = [worker EXCEPT ![r] = "done"]
    /\ late' = IF notifyLate[r] /\ closed[r]
               THEN [late EXCEPT ![r] = Append(@, Pair(outcome[r], closed[r]))]
               ELSE late
    /\ UNCHANGED <<callerVars, connection, budget, outcome, closed, box, notifyLate>>

\* on_late_completion(result, closed), if the caller had given up.
Notify(r) ==
    /\ worker[r] = "notifying"
    /\ worker' = [worker EXCEPT ![r] = "done"]
    /\ late' = IF notifyLate[r]
               THEN [late EXCEPT ![r] = Append(@, Pair(outcome[r], closed[r]))]
               ELSE late
    /\ UNCHANGED <<callerVars, connection, budget, outcome, closed, box, notifyLate>>

\* What the worker does by itself, and what it does once the upstream let go.
Unwind(r)     == Close(r) \/ Publish(r) \/ Notify(r)
WorkerStep(r) == Request(r) \/ Read(r) \/ Unwind(r)

Next == \E r \in Req : CallerStep(r) \/ BudgetSpent(r) \/ WorkerStep(r)

Spec == Init /\ [][Next]_vars

(***************************************************************************)
(* Both threads are scheduled and time passes, but a request may hang in   *)
(* the upstream for ever: the socket timeout bounds the gap between two    *)
(* reads, never the whole call.                                            *)
(***************************************************************************)
Fairness ==
    \A r \in Req : /\ WF_vars(JoinReturns(r))
                   /\ WF_vars(CallerDecides(r))
                   /\ WF_vars(BudgetSpent(r))
                   /\ WF_vars(Unwind(r))

FairSpec == Spec /\ Fairness
-----------------------------------------------------------------------------
TypeOK ==
    /\ caller \in [Req -> {"idle", "joining", "deciding", "returned"}]
    /\ worker \in [Req -> {"none", "requesting", "reading", "closing", "publishing",
                           "notifying", "done", "crashed"}]
    /\ connection \in [Req -> {"none", "open", "closed"}]
    /\ budget \in [Req -> {"running", "spent"}]
    /\ outcome \in [Req -> Outcomes \cup {"unbound"}]
    /\ closed \in [Req -> BOOLEAN]
    /\ box \in [Req -> Pairs \cup {NoPair}]
    /\ gaveUp \in [Req -> BOOLEAN]
    /\ notifyLate \in [Req -> BOOLEAN]
    /\ returned \in [Req -> Pairs \cup {NoPair, NoResponse}]
    /\ late \in [Req -> {<< >>} \cup {<<pair>> : pair \in Pairs}]

\* A finished worker's result reaches the caller exactly once: as the value of
\* forward() or through on_late_completion, never both and never neither.
ResultDeliveredOnce ==
    \A r \in Req : worker[r] = "done" /\ caller[r] = "returned" =>
        \/ returned[r] = box[r] /\ late[r] = << >>
        \/ returned[r] = NoResponse /\ late[r] = <<box[r]>>

\* closed = TRUE is told to nobody, by either way, while the connection may
\* still carry the request: only a confirmed close frees the caller's slot.
ClosedIsConfirmed ==
    \A r \in Req :
        returned[r].closed \/ (late[r] # << >> /\ late[r][1].closed)
            => connection[r] = "closed"

\* forward() reports that there was no response within the timeout only when
\* the timeout has elapsed ("If the deadline passes before the background
\* thread finishes").
NoResponseMeansTimeUp ==
    \A r \in Req : returned[r] = NoResponse => budget[r] = "spent"

\* forward() returns within its budget even if the upstream never does.
CallerReturns == \A r \in Req : caller[r] = "joining" ~> caller[r] = "returned"

\* A caller that gave up still learns the true outcome once the worker has one.
LateOutcomeReported ==
    \A r \in Req : (gaveUp[r] /\ outcome[r] # "unbound") ~> late[r] # << >>
-----------------------------------------------------------------------------
(***************************************************************************)
(* forward() implements UpstreamCall.                                      *)
(***************************************************************************)
CallTold(r) ==
    CASE caller[r] = "idle"                   -> "idle"
      [] caller[r] \in {"joining", "deciding"} -> "pending"
      [] caller[r] = "returned" /\ returned[r] # NoResponse ->
            IF returned[r].closed THEN "confirmed" ELSE "unconfirmed"
      [] caller[r] = "returned" /\ returned[r] = NoResponse ->
            IF late[r] = << >> THEN "gaveup"
            ELSE IF late[r][1].closed THEN "lateConfirmed" ELSE "lateUnconfirmed"

InUpstream(r) ==
    CASE connection[r] = "none"                                   -> "idle"
      [] connection[r] = "closed"                                 -> "stopped"
      [] connection[r] = "open" /\ worker[r] \in {"requesting", "reading", "closing"}
                                                                  -> "running"
      [] connection[r] = "open" /\ worker[r] \notin {"requesting", "reading", "closing"}
                                                                  -> "unknown"

callTold   == [r \in Req |-> CallTold(r)]
inUpstream == [r \in Req |-> InUpstream(r)]

Call == INSTANCE UpstreamCall WITH call <- callTold, upstream <- inUpstream

\* Every step of the two threads is a step of the promise, or invisible.
ImplementsCall == Call!FairSpec
=============================================================================
