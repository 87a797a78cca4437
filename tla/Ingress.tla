------------------------------- MODULE Ingress ------------------------------
(***************************************************************************)
(* aalp/ingress.py and aalp/serve.py: the life of the daemon, from its     *)
(* start to its exit, and the clients that find it through the files it    *)
(* publishes.  The main thread starts and stops it, the accept thread      *)
(* takes connections, each connection has a thread of its own.  A process  *)
(* that ends leaves its files behind; clients remember what they read.     *)
(*                                                                         *)
(* One daemon runs at a time, as under systemd.  A file is the set of its  *)
(* contents.  A client has one connection at a time.  What the handler     *)
(* does is left open: see Server.                                          *)
(***************************************************************************)
CONSTANTS Client,    \* who connects; also the thread that serves the connection
          Secret     \* bearer secrets

VARIABLES secretFile,     \* the content of ingress.secret
          descriptor,     \* whether ingress.json exists
          socketFile      \* what the socket's path names

VARIABLES main,           \* where the main thread stands
          secret,         \* self.secret
          accepting,      \* where the accept thread stands
          stopRequested   \* _stop_requested

VARIABLES conn,           \* where each connection, or its thread, stands
          known,          \* the secret each client has read
          reply           \* the response being written

publishedVars == <<secretFile, descriptor, socketFile>>
daemonVars    == <<main, secret, accepting, stopRequested>>
connVars      == <<conn, reply>>
vars          == <<publishedVars, daemonVars, connVars, known>>

Init ==
    /\ secretFile = {} /\ descriptor = FALSE /\ socketFile = "absent"
    /\ main = "down" /\ secret = {} /\ accepting = "none" /\ stopRequested = FALSE
    /\ conn = [c \in Client |-> "away"]
    /\ known = [c \in Client |-> {}]
    /\ reply = [c \in Client |-> "none"]

\* The main thread goes on, and changes nothing else in the daemon.
MainGoes(from, to) ==
    /\ main = from /\ main' = to
    /\ UNCHANGED <<secret, accepting, stopRequested>>
-----------------------------------------------------------------------------
(* main(): build_ingress() and start().                                    *)

Boot ==
    /\ MainGoes("down", "constructing")
    /\ UNCHANGED <<publishedVars, connVars, known>>

\* Gateway() is constructed.
Constructed ==
    /\ MainGoes("constructing", "loading")
    /\ UNCHANGED <<publishedVars, connVars, known>>

\* load_or_create_secret(): a secret nobody has, if there is no file.
Fresh == CHOOSE s \in Secret : \A c \in Client : s \notin known[c]

LoadSecretAlwaysNew ==
    /\ main = "loading" /\ main' = "storing"
    /\ secret' = {Fresh}
    /\ UNCHANGED <<accepting, stopRequested, publishedVars, connVars, known>>

LoadSecret ==
    /\ main = "loading"
    /\ \/ secretFile # {} /\ secret' = secretFile /\ main' = "unlinking"
       \/ secretFile = {} /\ secret' = {Fresh} /\ main' = "storing"
    /\ UNCHANGED <<accepting, stopRequested, publishedVars, connVars, known>>

\* _atomic_write().
StoreSecret ==
    /\ MainGoes("storing", "unlinking")
    /\ secretFile' = secret
    /\ UNCHANGED <<descriptor, socketFile, connVars, known>>

UnlinkNothing ==
    /\ MainGoes("unlinking", "binding")
    /\ UNCHANGED <<publishedVars, connVars, known>>

\* The socket that an earlier process left behind.
UnlinkStale ==
    /\ MainGoes("unlinking", "binding")
    /\ socketFile' = "absent"
    /\ UNCHANGED <<secretFile, descriptor, connVars, known>>

\* bind() refuses a path that exists.
Bind ==
    /\ MainGoes("binding", "listening")
    /\ socketFile = "absent"
    /\ socketFile' = "bound"
    /\ UNCHANGED <<secretFile, descriptor, connVars, known>>

Listen ==
    /\ MainGoes("listening", "spawning")
    /\ UNCHANGED <<publishedVars, connVars, known>>

SpawnAccept ==
    /\ main = "spawning" /\ main' = "publishing"
    /\ accepting' = "checking"
    /\ UNCHANGED <<secret, stopRequested, publishedVars, connVars, known>>

\* write_ingress_descriptor(); the clients may be connecting already.
PublishDescriptor ==
    /\ MainGoes("publishing", "waiting")
    /\ descriptor' = TRUE
    /\ UNCHANGED <<secretFile, socketFile, connVars, known>>

StartUp ==
    \/ LoadSecret \/ StoreSecret \/ UnlinkStale \/ Bind \/ Listen
    \/ SpawnAccept \/ PublishDescriptor
-----------------------------------------------------------------------------
(* stop(), and the end of the process.                                     *)

\* SIGINT or SIGTERM, once their handlers are installed.
Signal ==
    /\ main = "waiting" /\ main' = "joining"
    /\ stopRequested' = TRUE
    /\ UNCHANGED <<secret, accepting, publishedVars, connVars, known>>

JoinAccept ==
    /\ accepting = "ended"
    /\ MainGoes("joining", "closing")
    /\ UNCHANGED <<publishedVars, connVars, known>>

\* The listening socket is closed; connections not accepted yet are reset.
CloseSocket ==
    /\ MainGoes("closing", "leaving")
    /\ conn' = [c \in Client |-> IF conn[c] = "queued" THEN "away" ELSE conn[c]]
    /\ UNCHANGED <<publishedVars, reply, known>>

\* Every thread ends with the process, and every connection with its thread.
ThreadsEnd ==
    /\ main' = "down" /\ secret' = {} /\ accepting' = "none" /\ stopRequested' = FALSE
    /\ conn' = [c \in Client |-> "away"]
    /\ reply' = [c \in Client |-> "none"]
    /\ UNCHANGED known

\* The path is unlinked and main() returns; served connections are cut off.
Leave ==
    /\ main = "leaving"
    /\ socketFile' = "absent"
    /\ ThreadsEnd
    /\ UNCHANGED <<secretFile, descriptor>>

\* The process is killed, or an exception ends it: its files stay.
ProcessEnds ==
    /\ socketFile' = IF socketFile = "bound" THEN "dead" ELSE socketFile
    /\ ThreadsEnd
    /\ UNCHANGED <<secretFile, descriptor>>

ShutDown == JoinAccept \/ CloseSocket \/ Leave
-----------------------------------------------------------------------------
(* The accept thread, _serve_forever().                                    *)

AcceptGoes(from, to) ==
    /\ accepting = from /\ accepting' = to
    /\ UNCHANGED <<main, secret, stopRequested>>

CheckStop ==
    /\ \/ stopRequested /\ AcceptGoes("checking", "ended")
       \/ ~stopRequested /\ AcceptGoes("checking", "polling")
    /\ UNCHANGED <<publishedVars, connVars, known>>

\* accept() returns a connection, which gets a thread of its own.
Accept(c) ==
    /\ AcceptGoes("polling", "checking")
    /\ conn[c] = "queued"
    /\ conn' = [conn EXCEPT ![c] = "reading"]
    /\ UNCHANGED <<publishedVars, reply, known>>

PollForever ==
    /\ FALSE
    /\ UNCHANGED vars

\* accept() times out, after _ACCEPT_POLL_SECONDS.
PollTimesOut ==
    /\ AcceptGoes("polling", "checking")
    /\ UNCHANGED <<publishedVars, connVars, known>>

\* accept() raises OSError, say for lack of descriptors: the thread returns.
AcceptFails ==
    /\ AcceptGoes("polling", "ended")
    /\ UNCHANGED <<publishedVars, connVars, known>>
-----------------------------------------------------------------------------
(* A connection: the client, and _handle_connection().                     *)

ConnGoes(c, from, to) == conn[c] = from /\ conn' = [conn EXCEPT ![c] = to]

\* The client follows the descriptor to the secret.
ReadPublished(c) ==
    /\ conn[c] = "away"
    /\ descriptor /\ secretFile # {}
    /\ known' = [known EXCEPT ![c] = secretFile]
    /\ UNCHANGED <<publishedVars, daemonVars, connVars>>

\* It connects, now or much later; refused unless somebody listens.
Connect(c) ==
    /\ ConnGoes(c, "away", "queued")
    /\ known[c] # {}
    /\ main \in {"spawning", "publishing", "waiting", "joining", "closing"}
    /\ UNCHANGED <<publishedVars, daemonVars, reply, known>>

Respond(c, from, response) ==
    /\ ConnGoes(c, from, "replying")
    /\ reply' = [reply EXCEPT ![c] = response]
    /\ UNCHANGED <<publishedVars, daemonVars, known>>

\* 413, 400, and 401 for a request that does not carry the client's secret.
Reject(c) == Respond(c, "reading", "other")

\* A request that carries the secret the client has read.
Authenticate(c) ==
    \/ known[c] # secret /\ Respond(c, "reading", "unauthorized")
    \/ /\ known[c] = secret
       /\ ConnGoes(c, "reading", "handling")
       /\ UNCHANGED <<publishedVars, daemonVars, reply, known>>

\* The peer goes away, or an exception that nobody catches ends the thread.
Drop(c) ==
    /\ ConnGoes(c, "reading", "away")
    /\ UNCHANGED <<publishedVars, daemonVars, reply, known>>

HandlerReturns(c) == Respond(c, "handling", "other")
HandlerRaises(c)  == Respond(c, "handling", "other")

\* write_frame(), delivered or not, and the connection is closed.
Reply(c) ==
    /\ ConnGoes(c, "replying", "away")
    /\ reply' = [reply EXCEPT ![c] = "none"]
    /\ UNCHANGED <<publishedVars, daemonVars, known>>

Next ==
    \/ Boot \/ Constructed \/ StartUp \/ Signal \/ ShutDown \/ ProcessEnds
    \/ CheckStop \/ PollTimesOut \/ AcceptFails
    \/ \E c \in Client :
        \/ Accept(c)
        \/ ReadPublished(c) \/ Connect(c)
        \/ Reject(c) \/ Authenticate(c) \/ Drop(c)
        \/ HandlerReturns(c) \/ HandlerRaises(c) \/ Reply(c)

Spec == Init /\ [][Next]_vars
-----------------------------------------------------------------------------
TypeOK ==
    /\ secretFile \in {{}} \cup {{s} : s \in Secret}
    /\ descriptor \in BOOLEAN
    /\ socketFile \in {"absent", "bound", "dead"}
    /\ main \in {"down", "constructing", "loading", "storing", "unlinking", "binding",
                 "listening", "spawning", "publishing", "waiting", "joining",
                 "closing", "leaving"}
    /\ secret \in {{}} \cup {{s} : s \in Secret}
    /\ accepting \in {"none", "checking", "polling", "ended"}
    /\ stopRequested \in BOOLEAN
    /\ conn \in [Client -> {"away", "queued", "reading", "handling", "replying"}]
    /\ \A c \in Client : conn[c] # "replying" => reply[c] = "none"
    /\ known \in [Client -> {{}} \cup {{s} : s \in Secret}]
    /\ reply \in [Client -> {"none", "unauthorized", "other"}]

\* A client that presents the secret it found through the descriptor is never
\* turned away, however often the daemon has ended and started since, and even
\* when it is served before the new process has written its descriptor.
SecretHonoured == \A c \in Client : reply[c] # "unauthorized"
=============================================================================
