------------------------------ MODULE Migration -----------------------------
(***************************************************************************)
(* aalp/migrate_ci.py over aalp/credential.py: when the daemon starts, the *)
(* credential that ADP left on this machine is copied into AALP's store,   *)
(* probed against the provider, and then deleted where ADP had it.  The    *)
(* process may end between any two of these steps and be started again;    *)
(* the operator may enter or remove the stored credential at any time.     *)
(*                                                                         *)
(* A file is the set of its contents, empty when it does not exist.  What  *)
(* os.replace() makes visible is one step: nothing reads a temporary file. *)
(* ADP leaves its files alone while a daemon starts.                       *)
(***************************************************************************)
CONSTANTS Path,        \* where ADP may have kept the credential
          Value,       \* what such a file may hold
          ValidValue   \* what _validate_credential_value() accepts

VARIABLES legacy,      \* the content of ADP's files
          store,       \* the content of .aalp/credential/ci
          migrating,   \* where migrate_ci() stands
          candidates,  \* what discover() found, less what was deleted since
          status       \* what migrate_ci() returned

VARIABLE  origin       \* history: where the stored value comes from

files   == <<legacy, store, origin>>
runVars == <<migrating, candidates, status>>
vars    == <<files, runVars>>

Existing == {p \in Path : legacy[p] # {}}

Contents(paths) == UNION {legacy[p] : p \in paths}

Init ==
    /\ legacy \in [Path -> {{}} \cup {{v} : v \in Value}]
    /\ store = {} /\ origin = "none"
    /\ migrating = "idle" /\ candidates = {} /\ status = "none"
-----------------------------------------------------------------------------
(* migrate_ci(), as called by Gateway.__init__().                          *)

Return(result) == migrating' = "returned" /\ status' = result

Continue(to) == migrating' = to /\ UNCHANGED status

Start ==
    /\ migrating = "idle"
    /\ Continue("checking")
    /\ UNCHANGED <<files, candidates>>

\* The store is looked at first, then every place ADP may have used.
DiscoverOnly ==
    /\ migrating = "checking"
    /\ \/ Existing = {} /\ Return("needs_prompt")
       \/ Existing # {} /\ Continue("reading")
    /\ candidates' = Existing
    /\ UNCHANGED files

Discover ==
    /\ migrating = "checking"
    /\ \/ store # {} /\ Return("already_present") /\ UNCHANGED candidates
       \/ /\ store = {}
          /\ candidates' = Existing
          /\ \/ Existing = {} /\ Return("needs_prompt")
             \/ Existing # {} /\ Continue("reading")
    /\ UNCHANGED files

\* All candidates hold one value, and it looks like a credential.
Consistent(paths) == \E v \in ValidValue : Contents(paths) = {v}

\* MigrationConflict, or CredentialError.
Read ==
    /\ migrating = "reading"
    /\ \/ Consistent(candidates) /\ Continue("copying")
       \/ ~Consistent(candidates) /\ Continue("raised")
    /\ UNCHANGED <<files, candidates>>

\* write_credential(): the value is there as a whole, whatever was there before.
Copy ==
    /\ migrating = "copying"
    /\ Continue("probing")
    /\ store' = Contents(candidates)
    /\ origin' = "copied"
    /\ UNCHANGED <<legacy, candidates>>

\* probe() sends the value that was read, not the one that is stored by now.
ProbeIgnored ==
    /\ migrating = "probing"
    /\ Continue("deleting")
    /\ UNCHANGED <<files, candidates>>

Probe ==
    /\ migrating = "probing"
    /\ \/ /\ Continue("deleting")
          /\ origin' = IF origin = "copied" THEN "proved" ELSE origin
       \/ Continue("raised") /\ UNCHANGED origin       \* MigrationValidationError
    /\ UNCHANGED <<legacy, store, candidates>>

\* path.unlink() for each candidate; after the last, the migration is done.
Unlink(p) ==
    /\ migrating = "deleting"
    /\ p \in candidates
    /\ legacy' = [legacy EXCEPT ![p] = {}]
    /\ candidates' = candidates \ {p}
    /\ \/ candidates' = {} /\ Return("migrated")
       \/ candidates' # {} /\ Continue("deleting")
    /\ UNCHANGED <<store, origin>>

Step == Discover \/ Read \/ Copy \/ Probe \/ \E p \in Path : Unlink(p)

\* A file operation, discover() or load_provider() raises, and leaves the files as they are.
StepFails ==
    /\ migrating \in {"checking", "reading", "copying", "probing", "deleting"}
    /\ Continue("raised")
    /\ UNCHANGED <<files, candidates>>

\* The process ends, with everything it knew.
ProcessEnds ==
    /\ migrating' = "idle" /\ candidates' = {} /\ status' = "none"
    /\ UNCHANGED files
-----------------------------------------------------------------------------
(* The operator's use of the store.                                        *)

\* write_credential().
Enter(v) ==
    /\ v \in ValidValue
    /\ store' = {v}
    /\ origin' = "entered"
    /\ UNCHANGED <<legacy, runVars>>

\* remove_credential(), which refuses a credential that it could not read.
Remove ==
    /\ store # {} /\ store \subseteq ValidValue
    /\ store' = {}
    /\ origin' = "none"
    /\ UNCHANGED <<legacy, runVars>>

Next ==
    \/ Start \/ Step \/ StepFails \/ ProcessEnds
    \/ Remove \/ \E v \in Value : Enter(v)

Spec == Init /\ [][Next]_vars
-----------------------------------------------------------------------------
Stages == {"idle", "checking", "reading", "copying", "probing", "deleting",
           "returned", "raised"}

TypeOK ==
    /\ legacy \in [Path -> {{}} \cup {{v} : v \in Value}]
    /\ store \in {{}} \cup {{v} : v \in ValidValue}
    /\ origin \in {"none", "copied", "proved", "entered"}
    /\ (origin = "none") <=> (store = {})
    /\ migrating \in Stages
    /\ candidates \subseteq Existing
    /\ status \in {"none", "already_present", "needs_prompt", "migrated"}

\* Deleting ADP's files loses nothing: whatever is deleted is in AALP's store
\* and has authenticated, unless the operator has replaced or removed it there.
DeletedIsKept ==
    [][\A p \in Existing : legacy'[p] = {} =>
          \/ store = legacy[p] /\ origin = "proved"
          \/ origin \in {"none", "entered"}]_vars

\* migrate_ci() takes a stored credential for a finished migration, or for one
\* the operator entered; so it must not be a copy that never authenticated.
PresentMeansProved == status = "already_present" => origin # "copied"
=============================================================================
