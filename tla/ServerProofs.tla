----------------------------- MODULE ServerProofs ----------------------------
(***************************************************************************)
(* What is proved about the daemon for every number of clients, every set  *)
(* of places and values of the credential, and any number of crashes,      *)
(* restarts and interventions of the operator.                             *)
(***************************************************************************)
EXTENDS Server, AuditLogProofs

-----------------------------------------------------------------------------
(* Each part of the composition behaves as its module says.                *)

\* A step of the server is a step of the log, or none.
LEMMA LogPart == [Next]_vars => [LogNext]_logVars
<1> SUFFICES ASSUME [Next]_vars PROVE [LogNext]_logVars
  OBVIOUS
<1> USE DEF LogNext
<1>1. CASE Main
  BY <1>1 DEF Main, Boot, MigrateStep, GatewayBuilt, GatewayFails, StartUp, ShutDown,
              MemoryLost
<1>2. CASE MigrateStepFails \/ AcceptLoop \/ AcceptFails
  BY <1>2 DEF MigrateStepFails, AcceptLoop, AcceptFails
<1>3. ASSUME NEW c \in Thread, Serve(c)
      PROVE  [LogNext]_logVars
  BY <1>3 DEF Serve, Connection, Record, Recording, HandlerReturns, HandlerRaises
<1>4. CASE Die \/ Signal \/ Operate
  BY <1>4 DEF Die, Signal, Operate, MemoryLost
<1>5. CASE UNCHANGED vars
  BY <1>5 DEF vars
<1>6. ASSUME NEW c \in Thread, RecordingFails(c)
      PROVE  [LogNext]_logVars
  BY <1>6 DEF RecordingFails
<1> QED  BY <1>1, <1>2, <1>3, <1>4, <1>5, <1>6 DEF Next

\* A step of the server is a step of the migration, or none.
LEMMA MigratePart == [Next]_vars => [Migrate!Next]_(Migrate!vars)
<1> SUFFICES ASSUME [Next]_vars PROVE Migrate!Next \/ UNCHANGED Migrate!vars
  OBVIOUS
<1> USE DEF Migrate!Next
<1>m. UNCHANGED migrateVars => UNCHANGED Migrate!vars
  BY DEF migrateVars, Migrate!vars, Migrate!files, Migrate!runVars
<1>1. CASE Main
  BY <1>1, <1>m DEF Main, Boot, MigrateStep, GatewayBuilt, GatewayFails, StartUp,
              ShutDown, MemoryLost
<1>2. CASE MigrateStepFails \/ AcceptLoop \/ AcceptFails
  BY <1>2, <1>m DEF MigrateStepFails, AcceptLoop, AcceptFails
<1>3. ASSUME NEW c \in Thread, Serve(c)
      PROVE  UNCHANGED Migrate!vars
  BY <1>3, <1>m DEF Serve, Connection, Record, Recording, HandlerReturns, HandlerRaises
<1>4. CASE Die \/ Signal \/ Operate
  BY <1>4, <1>m DEF Die, Signal, Operate, MemoryLost
<1>5. CASE UNCHANGED vars
  BY <1>5, <1>m DEF vars
<1>6. ASSUME NEW c \in Thread, RecordingFails(c)
      PROVE  UNCHANGED Migrate!vars
  BY <1>6, <1>m DEF RecordingFails
<1> QED  BY <1>1, <1>2, <1>3, <1>4, <1>5, <1>6 DEF Next

\* A step of the server is a step of the ingress, or none.
LEMMA ListenPart == [Next]_vars => [Listen!Next]_(Listen!vars)
<1> SUFFICES ASSUME [Next]_vars PROVE Listen!Next \/ UNCHANGED Listen!vars
  OBVIOUS
<1> USE DEF Listen!Next
<1>l. UNCHANGED listenVars => UNCHANGED Listen!vars
  BY DEF listenVars, Listen!vars, Listen!publishedVars, Listen!daemonVars,
         Listen!connVars
<1>1. CASE Main
  BY <1>1, <1>l DEF Main, Boot, MigrateStep, GatewayBuilt, GatewayFails, StartUp, ShutDown
<1>2. CASE MigrateStepFails \/ AcceptLoop \/ AcceptFails
  BY <1>2, <1>l DEF MigrateStepFails, AcceptLoop, AcceptFails
<1>3. ASSUME NEW c \in Thread, Serve(c)
      PROVE  Listen!Next \/ UNCHANGED Listen!vars
  BY <1>3, <1>l DEF Serve, Connection, Record, Recording, HandlerReturns, HandlerRaises
<1>4. CASE Die \/ Signal \/ Operate
  BY <1>4, <1>l DEF Die, Signal, Operate
<1>5. CASE UNCHANGED vars
  BY <1>5, <1>l DEF vars
<1>6. ASSUME NEW c \in Thread, RecordingFails(c)
      PROVE  UNCHANGED Listen!vars
  BY <1>6, <1>l DEF RecordingFails
<1> QED  BY <1>1, <1>2, <1>3, <1>4, <1>5, <1>6 DEF Next

\* The server is a composition: it behaves as the migration, as the ingress and
\* as the audit log do by themselves, with the process ends of all three at once.
THEOREM ServerComposes == Spec => Migrate!Spec /\ Listen!Spec /\ LogSpec
BY LogPart, MigratePart, ListenPart, PTL
   DEF Spec, Init, Migrate!Spec, Listen!Spec, LogSpec

\* So the log stays bounded under all the threads of the server, which die in
\* the middle of an append with the process and leave their file to the next.
THEOREM ServerLogBounded == Spec => []LogBounded
BY ServerComposes, AuditLogBounded, PTL
-----------------------------------------------------------------------------
(***************************************************************************)
(* The migration.  From the moment the value was found consistent, every   *)
(* place that is still to be deleted holds one valid value; the store      *)
(* holds the same, copied or proved, unless the operator has stepped in.   *)
(***************************************************************************)
Intervened == origin \in {"none", "entered"}

StoreIs(how) == origin = how /\ \A p \in candidates : store = legacy[p]

OneValue == \E v \in ValidValue : \A p \in candidates : legacy[p] = {v}

MigrateInv ==
    /\ Migrate!TypeOK
    /\ migrating \in {"copying", "probing", "deleting"} =>
          candidates # {} /\ OneValue
    /\ migrating = "probing" => Intervened \/ StoreIs("copied")
    /\ migrating = "deleting" => Intervened \/ StoreIs("proved")

\* What consistent candidates hold is what each of them holds.
LEMMA ConsistentMeansOne ==
    ASSUME Migrate!TypeOK, NEW v, NEW paths \in SUBSET candidates,
           Migrate!Contents(paths) = {v}
    PROVE  paths # {} /\ \A p \in paths : legacy[p] = {v}
<1>1. \A p \in paths : legacy[p] # {} /\ legacy[p] \subseteq {v}
  BY DEF Migrate!TypeOK, Migrate!Existing, Migrate!Contents
<1>2. paths # {}
  BY DEF Migrate!Contents
<1> QED  BY <1>1, <1>2

\* And the other way round.
LEMMA OneMeansConsistent ==
    ASSUME NEW v, candidates # {}, \A p \in candidates : legacy[p] = {v}
    PROVE  Migrate!Contents(candidates) = {v}
BY DEF Migrate!Contents

LEMMA MigrateInit == Migrate!Init => MigrateInv
BY DEF Migrate!Init, MigrateInv, Migrate!TypeOK, Migrate!Stages

LEMMA MigrateInvStep == MigrateInv /\ [Migrate!Next]_(Migrate!vars) => MigrateInv'
<1> SUFFICES ASSUME MigrateInv, Migrate!Next \/ UNCHANGED Migrate!vars
             PROVE  MigrateInv'
  OBVIOUS
<1> USE DEF MigrateInv, Migrate!TypeOK, Migrate!Stages, Migrate!Return,
            Migrate!Continue, Migrate!files, Intervened, StoreIs, OneValue
<1>1. CASE Migrate!Start
  BY <1>1 DEF Migrate!Start, Migrate!Existing
<1>2. CASE Migrate!Discover
  BY <1>2 DEF Migrate!Discover, Migrate!Existing
<1>3. CASE Migrate!Read
  <2>1. CASE migrating' = "copying"
    <3>1. PICK v \in ValidValue : Migrate!Contents(candidates) = {v}
      BY <1>3, <2>1 DEF Migrate!Read, Migrate!Consistent
    <3>2. candidates # {} /\ \A p \in candidates : legacy[p] = {v}
      BY <3>1, ConsistentMeansOne
    <3> QED  BY <1>3, <2>1, <3>1, <3>2 DEF Migrate!Read, Migrate!Existing
  <2>2. CASE migrating' = "raised"
    BY <1>3, <2>2 DEF Migrate!Read, Migrate!Existing
  <2> QED  BY <1>3, <2>1, <2>2 DEF Migrate!Read
<1>4. CASE Migrate!Copy
  <2>1. PICK v \in ValidValue : \A p \in candidates : legacy[p] = {v}
    BY <1>4 DEF Migrate!Copy
  <2>2. candidates # {} /\ store' = {v}
    BY <1>4, <2>1, OneMeansConsistent DEF Migrate!Copy
  <2> QED  BY <1>4, <2>1, <2>2 DEF Migrate!Copy, Migrate!Existing
<1>5. CASE Migrate!Probe
  BY <1>5 DEF Migrate!Probe, Migrate!Existing
<1>6. ASSUME NEW p \in Path, Migrate!Unlink(p)
      PROVE  MigrateInv'
  <2>1. /\ legacy' = [legacy EXCEPT ![p] = {}] /\ candidates' = candidates \ {p}
        /\ migrating = "deleting" /\ UNCHANGED <<store, origin>>
    BY <1>6 DEF Migrate!Unlink
  <2>2. legacy' \in [Path -> {{}} \cup {{v} : v \in Value}]
    BY <2>1
  <2>3. candidates' \subseteq Migrate!Existing'
    BY <2>1 DEF Migrate!Existing
  <2>4. \A q \in candidates' : q \in candidates /\ legacy'[q] = legacy[q]
    BY <2>1 DEF Migrate!Existing
  <2>5. /\ migrating' \in {"deleting", "returned"}
        /\ migrating' = "deleting" => candidates' # {}
        /\ status' \in {"none", "already_present", "needs_prompt", "migrated"}
    BY <1>6 DEF Migrate!Unlink
  <2> QED  BY <2>1, <2>2, <2>3, <2>4, <2>5
<1>7. CASE Migrate!StepFails
  BY <1>7 DEF Migrate!StepFails, Migrate!Existing
<1>8. CASE Migrate!ProcessEnds
  BY <1>8 DEF Migrate!ProcessEnds, Migrate!Existing
<1>9. ASSUME NEW v \in Value, Migrate!Enter(v)
      PROVE  MigrateInv'
  BY <1>9 DEF Migrate!Enter, Migrate!Existing, Migrate!runVars
<1>10. CASE Migrate!Remove
  BY <1>10 DEF Migrate!Remove, Migrate!Existing, Migrate!runVars
<1>11. CASE UNCHANGED Migrate!vars
  BY <1>11 DEF Migrate!vars, Migrate!Existing, Migrate!runVars
<1> QED
  BY <1>1, <1>2, <1>3, <1>4, <1>5, <1>6, <1>7, <1>8, <1>9, <1>10, <1>11
     DEF Migrate!Next, Migrate!Step

\* A step deletes nothing but what the store holds too, and has authenticated.
LEMMA MigrateKeeps ==
    ASSUME MigrateInv, Migrate!Next \/ UNCHANGED Migrate!vars,
           NEW p \in Migrate!Existing, legacy'[p] = {}
    PROVE  \/ store = legacy[p] /\ origin = "proved"
           \/ origin \in {"none", "entered"}
<1>1. UNCHANGED legacy \/ \E q \in Path : Migrate!Unlink(q)
  BY DEF Migrate!Next, Migrate!Step, Migrate!Start, Migrate!Discover, Migrate!Read,
         Migrate!Copy, Migrate!Probe, Migrate!StepFails, Migrate!ProcessEnds,
         Migrate!Enter, Migrate!Remove, Migrate!vars, Migrate!files
<1>2. PICK q \in Path : Migrate!Unlink(q)
  BY <1>1 DEF Migrate!Existing
<1>3. q = p
  BY <1>2 DEF Migrate!Unlink, Migrate!Existing, MigrateInv, Migrate!TypeOK
<1> QED  BY <1>2, <1>3 DEF Migrate!Unlink, MigrateInv, Intervened, StoreIs

\* Whatever crashes, restarts, failed probes and changes by the operator come
\* between the copy and the deletions, for any number of places: a credential
\* deleted at ADP is in AALP's store and has authenticated, unless the operator
\* has replaced or removed it there.
THEOREM ServerDeletedIsKept == Spec => DeletedIsKept
<1>1. MigrateInv /\ [Migrate!Next]_(Migrate!vars)
        => [\A p \in Migrate!Existing : legacy'[p] = {} =>
              \/ store = legacy[p] /\ origin = "proved"
              \/ origin \in {"none", "entered"}]_(Migrate!vars)
  BY MigrateKeeps
<1> QED
  BY <1>1, ServerComposes, MigrateInit, MigrateInvStep, PTL
     DEF Migrate!Spec, DeletedIsKept, Migrate!DeletedIsKept
-----------------------------------------------------------------------------
(***************************************************************************)
(* The secret.  The file is written once; who knows a secret knows the one *)
(* in the file; and a daemon that can be reached has the one in the file.  *)
(***************************************************************************)
Loaded    == {"unlinking", "binding", "listening"}
Reachable == {"spawning", "publishing", "waiting", "joining", "closing", "leaving"}

SecretInv ==
    /\ Listen!TypeOK
    /\ \A c \in Thread : known[c] # {} => known[c] = secretFile
    /\ main = "storing" => secretFile = {} /\ secret # {}
    /\ main \in Loaded \cup Reachable => secret = secretFile
    /\ \A c \in Thread : conn[c] # "away" => main \in Reachable /\ known[c] # {}
    /\ accepting # "none" => main \in Reachable
    /\ SecretHonoured

\* While no file holds a secret nobody knows one, so there is a fresh one.
LEMMA FreshSecret ==
    ASSUME SecretInv, secretFile = {}
    PROVE  Listen!Fresh \in Secret
<1>1. \A s \in Secret : \A c \in Thread : s \notin known[c]
  BY DEF SecretInv
<1> QED  BY <1>1, ServerAssumption DEF Listen!Fresh

LEMMA SecretInit == Listen!Init => SecretInv
BY DEF Listen!Init, SecretInv, Listen!TypeOK, SecretHonoured, Listen!SecretHonoured,
       Loaded, Reachable

\* The main thread: the secret is drawn or read before anybody can connect.
LEMMA SecretMain ==
    ASSUME SecretInv, Listen!Boot \/ Listen!Constructed \/ Listen!StartUp
    PROVE  SecretInv'
<1> USE DEF SecretInv, Listen!TypeOK, SecretHonoured, Listen!SecretHonoured,
            Loaded, Reachable, Listen!MainGoes, Listen!publishedVars,
            Listen!connVars
<1>1. CASE Listen!Boot \/ Listen!Constructed
  BY <1>1 DEF Listen!Boot, Listen!Constructed
<1>2. CASE Listen!LoadSecret
  BY <1>2, FreshSecret DEF Listen!LoadSecret
<1>3. CASE Listen!StoreSecret
  BY <1>3 DEF Listen!StoreSecret
<1>4. CASE Listen!UnlinkStale \/ Listen!Bind \/ Listen!Listen
  BY <1>4 DEF Listen!UnlinkStale, Listen!Bind, Listen!Listen
<1>5. CASE Listen!SpawnAccept \/ Listen!PublishDescriptor
  BY <1>5 DEF Listen!SpawnAccept, Listen!PublishDescriptor
<1> QED  BY <1>1, <1>2, <1>3, <1>4, <1>5 DEF Listen!StartUp

\* Its end: the files stay, and nobody is connected any more.
LEMMA SecretEnd ==
    ASSUME SecretInv, Listen!Signal \/ Listen!ShutDown \/ Listen!ProcessEnds
    PROVE  SecretInv'
<1> USE DEF SecretInv, Listen!TypeOK, SecretHonoured, Listen!SecretHonoured,
            Loaded, Reachable, Listen!MainGoes, Listen!publishedVars,
            Listen!connVars, Listen!ThreadsEnd
<1>1. CASE Listen!Signal
  BY <1>1 DEF Listen!Signal
<1>2. CASE Listen!JoinAccept
  BY <1>2 DEF Listen!JoinAccept
<1>3. CASE Listen!CloseSocket
  BY <1>3 DEF Listen!CloseSocket
<1>4. CASE Listen!Leave
  BY <1>4 DEF Listen!Leave
<1>5. CASE Listen!ProcessEnds
  BY <1>5 DEF Listen!ProcessEnds
<1> QED  BY <1>1, <1>2, <1>3, <1>4, <1>5 DEF Listen!ShutDown

\* The accept thread.
LEMMA SecretAccept ==
    ASSUME SecretInv,
           \/ Listen!CheckStop \/ Listen!PollTimesOut \/ Listen!AcceptFails
           \/ \E c \in Thread : Listen!Accept(c)
    PROVE  SecretInv'
<1> USE DEF SecretInv, Listen!TypeOK, SecretHonoured, Listen!SecretHonoured,
            Loaded, Reachable, Listen!AcceptGoes, Listen!publishedVars,
            Listen!connVars
<1>1. CASE Listen!CheckStop \/ Listen!PollTimesOut \/ Listen!AcceptFails
  BY <1>1 DEF Listen!CheckStop, Listen!PollTimesOut, Listen!AcceptFails
<1>2. ASSUME NEW c \in Thread, Listen!Accept(c)
      PROVE  SecretInv'
  BY <1>2 DEF Listen!Accept
<1> QED  BY <1>1, <1>2

\* A client and its thread: what the one presents is what the other compares with.
LEMMA SecretConnection ==
    ASSUME SecretInv, NEW c \in Thread,
           \/ Listen!ReadPublished(c) \/ Listen!Connect(c)
           \/ Listen!Reject(c) \/ Listen!Authenticate(c) \/ Listen!Drop(c)
           \/ Listen!HandlerReturns(c) \/ Listen!HandlerRaises(c) \/ Listen!Reply(c)
    PROVE  SecretInv'
<1> USE DEF SecretInv, Listen!TypeOK, SecretHonoured, Listen!SecretHonoured,
            Loaded, Reachable, Listen!ConnGoes, Listen!Respond,
            Listen!publishedVars, Listen!daemonVars, Listen!connVars
<1>1. CASE Listen!ReadPublished(c)
  BY <1>1 DEF Listen!ReadPublished
<1>2. CASE Listen!Connect(c)
  BY <1>2 DEF Listen!Connect
<1>3. CASE Listen!Reject(c)
  BY <1>3 DEF Listen!Reject
<1>4. CASE Listen!Authenticate(c)
  <2>1. conn[c] = "reading" /\ known[c] = secret
    BY <1>4 DEF Listen!Authenticate
  <2> QED  BY <1>4, <2>1 DEF Listen!Authenticate
<1>5. CASE Listen!Drop(c)
  BY <1>5 DEF Listen!Drop
<1>6. CASE Listen!HandlerReturns(c) \/ Listen!HandlerRaises(c)
  BY <1>6 DEF Listen!HandlerReturns, Listen!HandlerRaises
<1>7. CASE Listen!Reply(c)
  BY <1>7 DEF Listen!Reply
<1> QED  BY <1>1, <1>2, <1>3, <1>4, <1>5, <1>6, <1>7

LEMMA SecretStep == SecretInv /\ [Listen!Next]_(Listen!vars) => SecretInv'
<1> SUFFICES ASSUME SecretInv, Listen!Next \/ UNCHANGED Listen!vars
             PROVE  SecretInv'
  OBVIOUS
<1>1. CASE UNCHANGED Listen!vars
  BY <1>1 DEF Listen!vars, Listen!publishedVars, Listen!daemonVars, Listen!connVars,
              SecretInv, Listen!TypeOK, SecretHonoured, Listen!SecretHonoured
<1>2. CASE Listen!Next
  BY <1>2, SecretMain, SecretEnd, SecretAccept, SecretConnection DEF Listen!Next
<1> QED  BY <1>1, <1>2

\* However often the daemon is killed and started, and whoever has kept a secret
\* from an earlier life: no client that found its secret is turned away.
THEOREM ServerSecretHonoured == Spec => []SecretHonoured
<1>1. SecretInv => SecretHonoured
  BY DEF SecretInv
<1> QED  BY <1>1, ServerComposes, SecretInit, SecretStep, PTL DEF Listen!Spec
-----------------------------------------------------------------------------
(***************************************************************************)
(* The parts together: which threads exist is the same for all of them.    *)
(***************************************************************************)
Together ==
    /\ faults \in 0..MaxFaults
    /\ (migrating = "idle") <=> (main = "down")
    /\ migrating \notin {"idle", "returned"} => main = "constructing"
    /\ \A c \in Thread : step[c] # "idle" => conn[c] = "handling"

ServerInv == MigrateInv /\ SecretInv /\ LogTypeOK /\ Together

LEMMA ServerInvInit == Init => ServerInv
<1> SUFFICES ASSUME Init PROVE ServerInv
  OBVIOUS
<1>1. MigrateInv /\ SecretInv /\ LogTypeOK
  BY MigrateInit, SecretInit, LogTypeInit DEF Init
<1>2. Together
  BY ServerAssumption DEF Init, Migrate!Init, Listen!Init, LogInit, Together
<1> QED  BY <1>1, <1>2 DEF ServerInv

\* A step of the main thread, which alone goes through the migration.
LEMMA TogetherMain ==
    ASSUME ServerInv, Main \/ MigrateStepFails
    PROVE  Together'
<1> USE DEF Together
<1>s. /\ step \in [Thread -> Steps] /\ conn \in [Thread -> {"away", "queued", "reading",
                                                         "handling", "replying"}]
      /\ faults \in Nat /\ MaxFaults \in Nat
  BY ServerAssumption DEF ServerInv, LogTypeOK, SecretInv, Listen!TypeOK
<1>1. CASE Boot
  BY <1>1 DEF Boot, Listen!Boot, Listen!MainGoes, Listen!connVars, Migrate!Start,
              Migrate!Continue, logVars, ServerInv
<1>2. CASE MigrateStep
  <2>1. migrating \notin {"idle", "returned"} /\ migrating' # "idle"
    BY <1>2 DEF MigrateStep, Migrate!Step, Migrate!Discover, Migrate!Read, Migrate!Copy,
                Migrate!Probe, Migrate!Unlink, Migrate!Continue, Migrate!Return
  <2> QED  BY <1>2, <2>1 DEF MigrateStep, listenVars, logVars, ServerInv
<1>3. CASE MigrateStepFails
  BY <1>3, <1>s DEF MigrateStepFails, Migrate!StepFails, Migrate!Continue, Disturbed,
              listenVars, logVars, ServerInv
<1>4. CASE GatewayBuilt
  BY <1>4 DEF GatewayBuilt, Listen!Constructed, Listen!MainGoes, Listen!connVars,
              migrateVars, logVars, ServerInv
<1>5. CASE GatewayFails
  BY <1>5 DEF GatewayFails, MemoryLost, Listen!ProcessEnds, Listen!ThreadsEnd,
              Migrate!ProcessEnds, LogProcessEnds, ServerInv
<1>6. CASE StartUp
  <2>1. main \notin {"down", "constructing"} /\ main' # "down" /\ UNCHANGED conn
    BY <1>6 DEF StartUp, Listen!StartUp, Listen!LoadSecret, Listen!StoreSecret,
                Listen!UnlinkStale, Listen!Bind, Listen!Listen, Listen!SpawnAccept,
                Listen!PublishDescriptor, Listen!MainGoes, Listen!connVars
  <2> QED  BY <1>6, <2>1 DEF StartUp, migrateVars, logVars, ServerInv
<1>7. CASE ShutDown
  <2>1. CASE Listen!JoinAccept \/ Listen!CloseSocket
    <3>1. /\ main \notin {"down", "constructing"} /\ main' # "down"
          /\ \A c \in Thread : conn[c] = "handling" => conn'[c] = "handling"
      BY <2>1, <1>s DEF Listen!JoinAccept, Listen!CloseSocket, Listen!MainGoes,
                        Listen!connVars
    <3> QED  BY <1>7, <3>1 DEF ShutDown, migrateVars, logVars, ServerInv
  <2>2. CASE Listen!Leave
    BY <1>7, <2>2 DEF ShutDown, MemoryLost, Listen!Leave, Listen!ThreadsEnd,
                      Migrate!ProcessEnds, LogProcessEnds, ServerInv
  <2> QED  BY <1>7, <2>1, <2>2 DEF ShutDown, Listen!ShutDown
<1> QED  BY <1>1, <1>2, <1>3, <1>4, <1>5, <1>6, <1>7 DEF Main

\* A step of a connection: a thread appends only while it handles a request.
LEMMA TogetherServe ==
    ASSUME ServerInv, NEW c \in Thread, Serve(c)
    PROVE  Together'
<1> USE DEF Together
<1>s. /\ step \in [Thread -> Steps] /\ conn \in [Thread -> {"away", "queued", "reading",
                                                         "handling", "replying"}]
      /\ faults \in 0..MaxFaults
  BY DEF ServerInv, LogTypeOK, SecretInv, Listen!TypeOK
<1>1. CASE Connection(c)
  <2>1. UNCHANGED main /\ (\A d \in Thread : conn[d] = "handling" => conn'[d] = "handling")
    BY <1>1, <1>s DEF Connection, Listen!ReadPublished, Listen!Connect, Listen!Reject,
            Listen!Authenticate, Listen!Drop, Listen!Reply, Listen!ConnGoes,
            Listen!Respond, Listen!daemonVars, Listen!connVars
  <2> QED  BY <1>1, <2>1 DEF Connection, migrateVars, logVars, ServerInv
<1>2. ASSUME NEW size \in Lines, Record(c, size)
      PROVE  Together'
  BY <1>2, <1>s DEF Record, AppendStart, Go, migrateVars, listenVars, ServerInv
<1>3. CASE Recording(c)
  <2>1. /\ step[c] # "idle"
        /\ \A d \in Thread \ {c} : step'[d] = step[d]
    BY <1>3, <1>s DEF Recording, Appending, Exists, Stat, Replace, Open, Write, Go
  <2> QED  BY <1>3, <2>1 DEF Recording, migrateVars, listenVars, ServerInv
<1>4. CASE HandlerReturns(c) \/ HandlerRaises(c)
  <2>1. /\ step'[c] = "idle" /\ UNCHANGED main
        /\ \A d \in Thread \ {c} : step'[d] = step[d] /\ conn'[d] = conn[d]
    BY <1>4, <1>s DEF HandlerReturns, HandlerRaises, AppendReturns, Go, logVars,
            Listen!HandlerReturns, Listen!HandlerRaises, Listen!Respond,
            Listen!ConnGoes, Listen!daemonVars
  <2> QED  BY <1>4, <2>1 DEF HandlerReturns, HandlerRaises, migrateVars, ServerInv
<1> QED  BY <1>1, <1>2, <1>3, <1>4 DEF Serve

LEMMA TogetherStep == ServerInv /\ [Next]_vars => Together'
<1> SUFFICES ASSUME ServerInv, [Next]_vars PROVE Together'
  OBVIOUS
<1> USE DEF Together
<1>f. Disturbed => faults' \in 0..MaxFaults
  BY ServerAssumption DEF Disturbed, ServerInv
<1>1. CASE AcceptLoop \/ AcceptFails
  <2>1. UNCHANGED main /\ \A d \in Thread : conn[d] = "handling" => conn'[d] = "handling"
    BY <1>1 DEF AcceptLoop, AcceptFails, Listen!CheckStop, Listen!PollTimesOut,
            Listen!Accept, Listen!AcceptFails, Listen!AcceptGoes, Listen!connVars,
            ServerInv, SecretInv, Listen!TypeOK
  <2> QED  BY <1>1, <1>f, <2>1 DEF AcceptLoop, AcceptFails, migrateVars, logVars, ServerInv
<1>2. CASE Die
  BY <1>2, <1>f DEF Die, MemoryLost, Listen!ProcessEnds, Listen!ThreadsEnd,
              Migrate!ProcessEnds, LogProcessEnds, ServerInv
<1>3. CASE Signal
  <2>1. main = "waiting" /\ main' = "joining" /\ UNCHANGED conn
    BY <1>3 DEF Signal, Listen!Signal, Listen!connVars
  <2> QED  BY <1>3, <1>f, <2>1 DEF Signal, migrateVars, logVars, ServerInv
<1>4. CASE Operate
  BY <1>4, <1>f DEF Operate, Migrate!Remove, Migrate!Enter, Migrate!runVars, listenVars,
              logVars, ServerInv
<1>5. CASE UNCHANGED vars
  BY <1>5 DEF vars, migrateVars, listenVars, logVars, ServerInv
<1>6. ASSUME NEW c \in Thread, RecordingFails(c)
      PROVE  Together'
  <2>1. /\ step[c] # "idle" /\ \A d \in Thread \ {c} : step'[d] = step[d]
    BY <1>6 DEF RecordingFails, CallFails, Go, ServerInv, LogTypeOK
  <2> QED  BY <1>6, <1>f, <2>1 DEF RecordingFails, migrateVars, listenVars, ServerInv
<1> QED
  BY <1>1, <1>2, <1>3, <1>4, <1>5, <1>6, TogetherMain, TogetherServe DEF Next

\* Every reachable state of the daemon is well typed, and its parts agree: no
\* migration without a main thread that constructs the gateway, no append
\* without a connection, nothing of either once the process has ended.
THEOREM ServerTypeCorrect == Spec => []TypeOK
<1>1. ServerInv /\ [Next]_vars => ServerInv'
  BY LogPart, MigratePart, ListenPart, LogTypeStep, MigrateInvStep, SecretStep,
     TogetherStep DEF ServerInv
<1>2. ServerInv => TypeOK
  BY DEF ServerInv, MigrateInv, SecretInv, Together, TypeOK
<1> QED  BY <1>1, <1>2, ServerInvInit, PTL DEF Spec
=============================================================================
