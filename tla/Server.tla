-------------------------------- MODULE Server -------------------------------
(***************************************************************************)
(* The daemon as deploy/aalp.service runs it: serve.py constructs the      *)
(* Gateway, which first migrates the credential (Migration), and serves    *)
(* it through the Ingress.  The thread of a connection runs the gateway's  *)
(* handler, whose only effect seen here is that it appends to the audit    *)
(* log (AuditLog); lanes and forwarding are the subject of Gateway.        *)
(*                                                                         *)
(* The process may be killed anywhere.  What is in files survives it, what *)
(* is in memory does not, and systemd starts it again (Restart=always).    *)
(***************************************************************************)
EXTENDS AuditLog

CONSTANTS Path, Value, ValidValue,    \* of Migration
          Secret,                     \* of Ingress
          MaxFaults                   \* how many disturbances are followed

ASSUME ServerAssumption ==
    Secret # {} /\ ValidValue \subseteq Value /\ MaxFaults \in Nat

VARIABLES legacy, store, origin, migrating, candidates, status
VARIABLES secretFile, descriptor, socketFile,
          main, secret, accepting, stopRequested, conn, known, reply
VARIABLE  faults                      \* the disturbances so far

Migrate == INSTANCE Migration
Listen  == INSTANCE Ingress WITH Client <- Thread

migrateVars == <<legacy, store, origin, migrating, candidates, status>>
listenVars  == <<secretFile, descriptor, socketFile, main, secret, accepting,
                 stopRequested, conn, known, reply>>
vars        == <<migrateVars, listenVars, logVars, faults>>

Init ==
    /\ Migrate!Init /\ Listen!Init /\ LogInit
    /\ faults = 0

\* Nothing disturbs the server infinitely often.
Disturbed == faults < MaxFaults /\ faults' = faults + 1
-----------------------------------------------------------------------------
(* The main thread.                                                        *)

\* Gateway.__init__() calls migrate_ci().
Boot ==
    /\ Listen!Boot /\ Migrate!Start
    /\ UNCHANGED <<logVars, faults>>

MigrateStep ==
    /\ Migrate!Step
    /\ UNCHANGED <<listenVars, logVars, faults>>

MigrateStepFails ==
    /\ Migrate!StepFails
    /\ Disturbed
    /\ UNCHANGED <<listenVars, logVars>>

\* migrate_ci() returned, whatever it returned.
GatewayBuilt ==
    /\ migrating = "returned"
    /\ Listen!Constructed
    /\ UNCHANGED <<migrateVars, logVars, faults>>

MemoryLost == Migrate!ProcessEnds /\ LogProcessEnds

\* Nobody catches what migrate_ci() raises.
GatewayFails ==
    /\ migrating = "raised"
    /\ Listen!ProcessEnds /\ MemoryLost
    /\ UNCHANGED faults

StartUp ==
    /\ Listen!StartUp
    /\ UNCHANGED <<migrateVars, logVars, faults>>

\* From JoinAccept to Leave, with which main() returns.
ShutDown ==
    /\ Listen!ShutDown
    /\ IF main' = "down" THEN MemoryLost ELSE UNCHANGED <<migrateVars, logVars>>
    /\ UNCHANGED faults

Main == Boot \/ MigrateStep \/ GatewayBuilt \/ GatewayFails \/ StartUp \/ ShutDown
-----------------------------------------------------------------------------
(* The accept thread and the connections.                                  *)

AcceptLoop ==
    /\ Listen!CheckStop \/ Listen!PollTimesOut \/ \E c \in Thread : Listen!Accept(c)
    /\ UNCHANGED <<migrateVars, logVars, faults>>

AcceptFails ==
    /\ Listen!AcceptFails
    /\ Disturbed
    /\ UNCHANGED <<migrateVars, logVars>>

Connection(c) ==
    /\ \/ Listen!ReadPublished(c) \/ Listen!Connect(c)
       \/ Listen!Reject(c) \/ Listen!Authenticate(c) \/ Listen!Drop(c)
       \/ Listen!Reply(c)
    /\ UNCHANGED <<migrateVars, logVars, faults>>

\* handle() or handle_queue() has decided the outcome and records it.
Record(c, size) ==
    /\ conn[c] = "handling"
    /\ AppendStart(c, size)
    /\ UNCHANGED <<migrateVars, listenVars, faults>>

Recording(c) ==
    /\ Appending(c)
    /\ UNCHANGED <<migrateVars, listenVars, faults>>

RecordingFails(c) ==
    /\ CallFails(c)
    /\ Disturbed
    /\ UNCHANGED <<migrateVars, listenVars>>

\* The outcome is recorded, or the request was one of discovery.
HandlerReturns(c) ==
    /\ \/ step[c] = "recorded" /\ AppendReturns(c)
       \/ step[c] = "idle" /\ UNCHANGED logVars
    /\ Listen!HandlerReturns(c)
    /\ UNCHANGED <<migrateVars, faults>>

\* append() raised, or something before it: read_credential() with no
\* credential stored, or a leader (see Coalescing).
HandlerRaises(c) ==
    /\ \/ step[c] = "raised" /\ AppendReturns(c)
       \/ step[c] = "idle" /\ UNCHANGED logVars
    /\ Listen!HandlerRaises(c)
    /\ UNCHANGED <<migrateVars, faults>>

Serve(c) ==
    \/ Connection(c) \/ Recording(c) \/ HandlerReturns(c) \/ HandlerRaises(c)
    \/ \E size \in Lines : Record(c, size)
-----------------------------------------------------------------------------
(* What disturbs the server.                                               *)

\* The process is killed, also by a signal before its handler is installed.
Die ==
    /\ main # "down"
    /\ Listen!ProcessEnds /\ MemoryLost
    /\ Disturbed

Signal ==
    /\ Listen!Signal
    /\ Disturbed
    /\ UNCHANGED <<migrateVars, logVars>>

\* The operator changes the stored credential.
Operate ==
    /\ Migrate!Remove \/ \E v \in Value : Migrate!Enter(v)
    /\ Disturbed
    /\ UNCHANGED <<listenVars, logVars>>

Next ==
    \/ Main \/ MigrateStepFails
    \/ AcceptLoop \/ AcceptFails
    \/ \E c \in Thread : Serve(c) \/ RecordingFails(c)
    \/ Die \/ Signal \/ Operate

Fairness == WF_vars(Main) /\ WF_vars(AcceptLoop)

Spec == Init /\ [][Next]_vars /\ Fairness
-----------------------------------------------------------------------------
\* The parts keep their types, and agree on which of the threads exist.
TypeOK ==
    /\ Migrate!TypeOK /\ Listen!TypeOK /\ LogTypeOK
    /\ faults \in 0..MaxFaults
    /\ (migrating = "idle") <=> (main = "down")
    /\ migrating \notin {"idle", "returned"} => main = "constructing"
    /\ \A c \in Thread : step[c] # "idle" => conn[c] = "handling"

\* Deleting ADP's files loses nothing, also across crashes and restarts:
\* whatever is deleted is in AALP's store and has authenticated, unless the
\* operator has replaced or removed it there.
DeletedIsKept == Migrate!DeletedIsKept

\* A client that presents the secret it found through the descriptor is never
\* turned away, however often the daemon has ended and started since, and even
\* when it is served before the new process has written its descriptor.
SecretHonoured == Listen!SecretHonoured

\* If ADP's copies of the credential agree, or there are none, the daemon is up
\* again after every disturbance: no file that an earlier process has left
\* behind, be it a socket, a secret or half a migration, keeps it down for good.
ComesUp ==
    Migrate!Existing = {} \/ Migrate!Consistent(Migrate!Existing)
        => []<>(main = "waiting")

\* stop() returns and the process ends, whatever its connections are doing.
StopReturns == stopRequested ~> main = "down"

\* After a probe that failed, "both copies survive so a retry (of migrate_ci, or
\* of the probe alone) is possible", says the comment in migrate_ci(): it must
\* not take a copy that never authenticated for a finished migration.
PresentMeansProved == Migrate!PresentMeansProved
=============================================================================
