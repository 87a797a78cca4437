------------------------------ MODULE AuditLog ------------------------------
(***************************************************************************)
(* aalp/audit.py, append(): every ingress thread appends its entry to one  *)
(* log file, which is rotated to a single backup.  Nothing serialises the  *)
(* threads: each system call on the two names is an action.                *)
(*                                                                         *)
(* Files are numbered as they are created, and a name refers to a file or  *)
(* to none; a file whose name was given to another is gone for readers but *)
(* not for a descriptor still open on it.  Entries are counted in bytes.   *)
(***************************************************************************)
EXTENDS Integers, FiniteSets, Sequences

CONSTANTS Thread,       \* the threads that append
          Lines,        \* the sizes of an entry
          LongestLine,  \* no entry is longer
          MaxBytes,     \* max_bytes
          MaxAppends    \* how many calls of append() are followed

ASSUME AuditLogAssumption ==
    /\ IsFiniteSet(Thread)
    /\ MaxBytes \in Nat /\ LongestLine \in 1..MaxBytes
    /\ Lines \subseteq 1..LongestLine
    /\ MaxAppends \in Nat

VARIABLES step,       \* where each thread stands in append()
          line,       \* len(line) of the entry it appends
          fd,         \* the file its descriptor is open on
          appends,    \* how many calls were made
          bytes,      \* the sizes of the files created so far
          log,        \* the file that has the log's name
          backup      \* the file that has the backup's name

names   == <<log, backup>>
logVars == <<step, line, fd, appends, bytes, names>>

NoFile == 0

LogInit ==
    /\ step = [t \in Thread |-> "idle"]
    /\ line = [t \in Thread |-> 0]
    /\ fd = [t \in Thread |-> NoFile]
    /\ appends = 0
    /\ bytes = << >>
    /\ log = NoFile
    /\ backup = NoFile

Go(t, to) == step' = [step EXCEPT ![t] = to]

\* append() is called.
AppendStart(t, size) ==
    /\ step[t] = "idle"
    /\ appends < MaxAppends
    /\ appends' = appends + 1
    /\ Go(t, "checking")
    /\ line' = [line EXCEPT ![t] = size]
    /\ UNCHANGED <<fd, bytes, names>>

\* log_path.exists().
Exists(t) ==
    /\ step[t] = "checking"
    /\ Go(t, IF log # NoFile THEN "measuring" ELSE "opening")
    /\ UNCHANGED <<line, fd, appends, bytes, names>>

\* log_path.stat().st_size, which raises if the log was rotated meanwhile.
Full(t) == bytes[log] + line[t] > MaxBytes

StatIgnoringSize(t) ==
    /\ step[t] = "measuring"
    /\ Go(t, "opening")
    /\ UNCHANGED <<line, fd, appends, bytes, names>>

Stat(t) ==
    /\ step[t] = "measuring"
    /\ \/ log = NoFile /\ Go(t, "raised")
       \/ log # NoFile /\ Full(t) /\ Go(t, "rotating")
       \/ log # NoFile /\ ~Full(t) /\ Go(t, "opening")
    /\ UNCHANGED <<line, fd, appends, bytes, names>>

\* os.replace(log_path, backup_path), which raises likewise.
ReplaceKeepingLog(t) ==
    /\ step[t] = "rotating"
    /\ Go(t, "opening")
    /\ backup' = log
    /\ UNCHANGED <<line, fd, appends, bytes, log>>

Replace(t) ==
    /\ step[t] = "rotating"
    /\ \/ log = NoFile /\ Go(t, "raised") /\ UNCHANGED names
       \/ log # NoFile /\ Go(t, "opening") /\ backup' = log /\ log' = NoFile
    /\ UNCHANGED <<line, fd, appends, bytes>>

\* os.open(log_path, O_APPEND | O_CREAT | O_WRONLY).
Open(t) ==
    /\ step[t] = "opening"
    /\ Go(t, "writing")
    /\ \/ /\ log = NoFile
          /\ bytes' = Append(bytes, 0)
          /\ log' = Len(bytes')
       \/ log # NoFile /\ UNCHANGED <<bytes, log>>
    /\ fd' = [fd EXCEPT ![t] = log']
    /\ UNCHANGED <<line, appends, backup>>

\* os.write() and os.close(), on whatever name the file has by now.
Write(t) ==
    /\ step[t] = "writing"
    /\ Go(t, "recorded")
    /\ bytes' = [bytes EXCEPT ![fd[t]] = @ + line[t]]
    /\ fd' = [fd EXCEPT ![t] = NoFile]
    /\ UNCHANGED <<line, appends, names>>

\* append() returns, or its exception leaves it.
AppendReturns(t) ==
    /\ step[t] \in {"recorded", "raised"}
    /\ Go(t, "idle")
    /\ line' = [line EXCEPT ![t] = 0]
    /\ UNCHANGED <<fd, appends, bytes, names>>

\* mkdir(), chmod() or one of the calls above raises an OSError: the entry is
\* lost, and a descriptor that was open is closed.
CallFails(t) ==
    /\ step[t] \in {"checking", "measuring", "rotating", "opening", "writing"}
    /\ Go(t, "raised")
    /\ fd' = [fd EXCEPT ![t] = NoFile]
    /\ UNCHANGED <<line, appends, bytes, names>>

Appending(t) == Exists(t) \/ Stat(t) \/ Replace(t) \/ Open(t) \/ Write(t)

\* The process ends with all its threads and descriptors; the files stay.
LogProcessEnds ==
    /\ step' = [t \in Thread |-> "idle"]
    /\ line' = [t \in Thread |-> 0]
    /\ fd' = [t \in Thread |-> NoFile]
    /\ UNCHANGED <<appends, bytes, names>>

LogNext ==
    \/ \E t \in Thread :
        \/ \E size \in Lines : AppendStart(t, size)
        \/ Appending(t) \/ CallFails(t) \/ AppendReturns(t)
    \/ LogProcessEnds

LogSpec == LogInit /\ [][LogNext]_logVars
-----------------------------------------------------------------------------
Steps == {"idle", "checking", "measuring", "rotating", "opening", "writing",
          "recorded", "raised"}

LogTypeOK ==
    /\ step \in [Thread -> Steps]
    /\ line \in [Thread -> Lines \cup {0}]
    /\ bytes \in Seq(Nat)
    /\ fd \in [Thread -> 0..Len(bytes)]
    /\ \A t \in Thread : step[t] = "writing" <=> fd[t] # NoFile
    /\ appends \in 0..MaxAppends
    /\ log \in 0..Len(bytes) /\ backup \in 0..Len(bytes)
    /\ log = backup => log = NoFile

\* The log is size-bounded, though threads that measured it before any of them
\* wrote may overshoot: by at most one entry for each other thread.
LogBounded ==
    \A f \in DOMAIN bytes :
        bytes[f] <= MaxBytes + (Cardinality(Thread) - 1) * LongestLine

\* The log becomes the backup, and the old backup is lost, only "once max_bytes
\* would be exceeded" (the module's docstring) by the thread that rotates it.
RotatedOnlyWhenFull ==
    [][backup' # backup =>
          \E t \in Thread : step[t] = "rotating" /\ step'[t] = "opening" /\ Full(t)]_logVars
=============================================================================
