---------------------------- MODULE AuditLogProofs ---------------------------
(***************************************************************************)
(* What is proved about the audit log for every number of threads, every   *)
(* bound and every choice of entries not longer than the bound.            *)
(***************************************************************************)
EXTENDS AuditLog, FiniteSetTheorems, TLAPS

-----------------------------------------------------------------------------
(* Type correctness.                                                       *)

\* An entry is no longer than the longest.
LEMMA EntrySize ==
    /\ LongestLine \in Nat /\ MaxBytes \in Nat /\ LongestLine <= MaxBytes
    /\ \A size \in Lines \cup {0} : size \in 0..LongestLine /\ size \in Nat
<1>1. /\ MaxBytes \in Nat /\ LongestLine \in 1..MaxBytes
      /\ \A size \in Lines : size \in 1..LongestLine
  BY AuditLogAssumption
<1> QED  BY <1>1

LEMMA LogTypeInit == LogInit => LogTypeOK
BY AuditLogAssumption DEF LogInit, LogTypeOK, Steps, NoFile

LEMMA LogTypeStep == LogTypeOK /\ [LogNext]_logVars => LogTypeOK'
<1> SUFFICES ASSUME LogTypeOK, [LogNext]_logVars PROVE LogTypeOK'
  OBVIOUS
<1> USE AuditLogAssumption DEF LogTypeOK, Steps, NoFile, Go, names
<1>1. ASSUME NEW t \in Thread, NEW size \in Lines, AppendStart(t, size)
      PROVE  LogTypeOK'
  BY <1>1 DEF AppendStart
<1>2. ASSUME NEW t \in Thread, Exists(t) PROVE LogTypeOK'
  BY <1>2 DEF Exists
<1>3. ASSUME NEW t \in Thread, Stat(t) PROVE LogTypeOK'
  BY <1>3 DEF Stat
<1>4. ASSUME NEW t \in Thread, Replace(t) PROVE LogTypeOK'
  <2>1. CASE log = NoFile
    BY <1>4, <2>1 DEF Replace
  <2>2. CASE log # NoFile
    <3>1. /\ step' = [step EXCEPT ![t] = "opening"] /\ backup' = log /\ log' = NoFile
          /\ UNCHANGED <<line, fd, appends, bytes>>
      BY <1>4, <2>2 DEF Replace
    <3>2. \A u \in Thread : step'[u] = "writing" <=> fd'[u] # NoFile
      BY <1>4, <3>1 DEF Replace
    <3> QED  BY <3>1, <3>2
  <2> QED  BY <2>1, <2>2
<1>5. ASSUME NEW t \in Thread, Open(t) PROVE LogTypeOK'
  <2>1. CASE log = NoFile
    <3>1. /\ bytes' \in Seq(Nat) /\ Len(bytes') = Len(bytes) + 1
          /\ log' = Len(bytes) + 1
      <4>1. bytes' = Append(bytes, 0) /\ log' = Len(bytes')
        BY <1>5, <2>1 DEF Open
      <4> QED  BY <4>1
    <3>2. /\ step' = [step EXCEPT ![t] = "writing"] /\ fd' = [fd EXCEPT ![t] = log']
          /\ UNCHANGED <<line, appends, backup>>
      BY <1>5 DEF Open
    <3> QED  BY <3>1, <3>2, <2>1
  <2>2. CASE log # NoFile
    BY <1>5, <2>2 DEF Open
  <2> QED  BY <2>1, <2>2
<1>6. ASSUME NEW t \in Thread, Write(t) PROVE LogTypeOK'
  <2>1. fd[t] \in DOMAIN bytes /\ line[t] \in Nat
    <3>1. fd[t] \in 1..Len(bytes)
      BY <1>6 DEF Write
    <3>2. line[t] \in Nat
      BY EntrySize
    <3> QED  BY <3>1, <3>2
  <2>2. bytes' \in Seq(Nat) /\ Len(bytes') = Len(bytes)
    BY <1>6, <2>1 DEF Write
  <2> QED  BY <1>6, <2>2 DEF Write
<1>7. ASSUME NEW t \in Thread, AppendReturns(t) PROVE LogTypeOK'
  BY <1>7 DEF AppendReturns
<1>8. CASE LogProcessEnds
  BY <1>8 DEF LogProcessEnds
<1>9. CASE UNCHANGED logVars
  BY <1>9 DEF logVars
<1>10. ASSUME NEW t \in Thread, CallFails(t) PROVE LogTypeOK'
  BY <1>10 DEF CallFails
<1> QED
  BY <1>1, <1>2, <1>3, <1>4, <1>5, <1>6, <1>7, <1>8, <1>9, <1>10
     DEF LogNext, Appending

\* append() keeps descriptors, names and sizes in their types, through any
\* interleaving of its system calls and any end of the process.
THEOREM LogTypeCorrect == LogSpec => []LogTypeOK
BY LogTypeInit, LogTypeStep, PTL DEF LogSpec
-----------------------------------------------------------------------------
(***************************************************************************)
(* The bound.  A thread that may still write to a file without measuring   *)
(* it again is pending on it; the thread that measured it last accounts    *)
(* for its own entry within the bound, every other one for an entry of the *)
(* longest kind beyond it.                                                 *)
(***************************************************************************)
Pending(f) ==
    {t \in Thread : \/ step[t] = "opening" /\ f = log
                    \/ step[t] = "writing" /\ fd[t] = f}

\* What the file may hold by now, if each pending thread but one is still to
\* write the longest entry.
Allowance(f) ==
    MaxBytes + (Cardinality(Thread) - Cardinality(Pending(f))) * LongestLine

Accounted(f) ==
    \/ bytes[f] + LongestLine <= Allowance(f)
    \/ \E t \in Pending(f) : bytes[f] + line[t] <= Allowance(f)

LogInv == LogTypeOK /\ \A f \in DOMAIN bytes : Accounted(f)

\* What is known of every pending thread and of their number.
LEMMA PendingCount ==
    ASSUME LogTypeOK, NEW f
    PROVE  /\ IsFiniteSet(Pending(f)) /\ Pending(f) \subseteq Thread
           /\ Cardinality(Thread) \in Nat
           /\ Cardinality(Pending(f)) \in 0..Cardinality(Thread)
           /\ \A t \in Thread : line[t] \in 0..LongestLine
<1>1. Pending(f) \in SUBSET Thread
  BY DEF Pending
<1>2. IsFiniteSet(Pending(f)) /\ Cardinality(Pending(f)) <= Cardinality(Thread)
  BY <1>1, AuditLogAssumption, FS_Subset
<1>3. Cardinality(Thread) \in Nat /\ Cardinality(Pending(f)) \in Nat
  BY <1>2, AuditLogAssumption, FS_CardinalityType
<1>4. ASSUME NEW t \in Thread
      PROVE  line[t] \in 0..LongestLine
  <2>1. line[t] \in Lines \cup {0}
    BY DEF LogTypeOK
  <2> QED  BY <2>1, EntrySize
<1> QED  BY <1>1, <1>2, <1>3, <1>4

\* The arithmetic of allowances: fewer pending threads allow more.
LEMMA AllowanceGrows ==
    ASSUME NEW n \in Nat, NEW k \in 0..n, NEW j \in 0..k
    PROVE  /\ 0 <= (n - k) * LongestLine
           /\ (n - k) * LongestLine <= (n - j) * LongestLine
           /\ j < k => (n - k) * LongestLine + LongestLine <= (n - j) * LongestLine
           /\ (n - j) * LongestLine \in Nat /\ (n - k) * LongestLine \in Nat
<1>1. LongestLine \in Nat
  BY AuditLogAssumption
<1>2. \A a, b \in Nat : a * b \in Nat
  OBVIOUS
<1>3. (n - k) * LongestLine + (k - j) * LongestLine = (n - j) * LongestLine
  BY <1>1
<1>4. (n - k) * LongestLine \in Nat /\ (k - j) * LongestLine \in Nat
  BY <1>1, <1>2
<1>5. ASSUME j < k
      PROVE  LongestLine <= (k - j) * LongestLine
  <2>1. (k - j - 1) * LongestLine \in Nat
    BY <1>1, <1>2, <1>5
  <2>2. (k - j) * LongestLine = (k - j - 1) * LongestLine + LongestLine
    BY <1>1
  <2> QED  BY <1>1, <2>1, <2>2
<1> QED  BY <1>1, <1>3, <1>4, <1>5

\* A file on which no thread becomes pending stays accounted for.
LEMMA FewerPending ==
    ASSUME LogTypeOK, LogTypeOK', NEW f \in DOMAIN bytes, Accounted(f),
           f \in DOMAIN bytes', bytes'[f] = bytes[f],
           Pending(f)' \subseteq Pending(f),
           \A t \in Pending(f)' : line'[t] = line[t]
    PROVE  Accounted(f)'
<1> DEFINE n == Cardinality(Thread)
           k == Cardinality(Pending(f))
           j == Cardinality(Pending(f)')
<1>1. /\ n \in Nat /\ k \in 0..n /\ j \in 0..k
      /\ IsFiniteSet(Pending(f))
      /\ \A t \in Pending(f) : line[t] \in Nat
      /\ bytes[f] \in Nat /\ LongestLine \in Nat /\ MaxBytes \in Nat
  <2>1. j <= k
    BY PendingCount, FS_Subset
  <2>2. bytes[f] \in Nat
    BY DEF LogTypeOK
  <2>3. j \in Nat
    BY PendingCount, FS_Subset, FS_CardinalityType
  <2> QED  BY <2>1, <2>2, <2>3, PendingCount, AuditLogAssumption
<1>2. /\ (n - k) * LongestLine <= (n - j) * LongestLine
      /\ j < k => (n - k) * LongestLine + LongestLine <= (n - j) * LongestLine
      /\ (n - j) * LongestLine \in Nat /\ (n - k) * LongestLine \in Nat
  BY <1>1, AllowanceGrows
<1>3. Allowance(f) = MaxBytes + (n - k) * LongestLine
  BY DEF Allowance
<1>4. Allowance(f)' = MaxBytes + (n - j) * LongestLine
  BY DEF Allowance
<1> HIDE DEF n, k, j
<1>5. CASE bytes[f] + LongestLine <= Allowance(f)
  BY <1>1, <1>2, <1>3, <1>4, <1>5 DEF Accounted
<1>6. ASSUME NEW t \in Pending(f), bytes[f] + line[t] <= Allowance(f)
      PROVE  Accounted(f)'
  <2>1. CASE t \in Pending(f)'
    BY <1>1, <1>2, <1>3, <1>4, <1>6, <2>1 DEF Accounted
  <2>2. CASE t \notin Pending(f)'
    <3>1. j < k
      BY <1>1, <2>2, FS_Subset DEF j, k
    <3> QED  BY <1>1, <1>2, <1>3, <1>4, <1>6, <3>1 DEF Accounted
  <2> QED  BY <2>1, <2>2
<1> QED  BY <1>5, <1>6 DEF Accounted

\* A thread that has measured the log, and it alone, is within the bound.
LEMMA Measured ==
    ASSUME LogTypeOK', NEW f \in DOMAIN bytes', NEW t \in Pending(f)',
           bytes'[f] + line'[t] <= MaxBytes
    PROVE  Accounted(f)'
<1> DEFINE n == Cardinality(Thread)
           k == Cardinality(Pending(f)')
<1>1. /\ n \in Nat /\ k \in 0..n /\ bytes'[f] \in Nat /\ line'[t] \in Nat
      /\ MaxBytes \in Nat
  <2>1. Pending(f)' \in SUBSET Thread
    BY DEF Pending
  <2>2. /\ IsFiniteSet(Pending(f)') /\ k <= n
        /\ n \in Nat /\ k \in Nat
    BY <2>1, AuditLogAssumption, FS_Subset, FS_CardinalityType
  <2>3. bytes'[f] \in Nat
    BY DEF LogTypeOK
  <2>4. line'[t] \in Lines \cup {0}
    BY <2>1 DEF LogTypeOK
  <2> QED  BY <2>2, <2>3, <2>4, EntrySize
<1>2. 0 <= (n - k) * LongestLine /\ (n - k) * LongestLine \in Nat
  <2>1. k \in 0..k
    BY <1>1
  <2> QED  BY <1>1, <2>1, AllowanceGrows
<1>3. Allowance(f)' = MaxBytes + (n - k) * LongestLine
  BY DEF Allowance
<1> HIDE DEF n, k
<1> QED  BY <1>1, <1>2, <1>3 DEF Accounted

\* A write uses up the allowance of the thread that writes.
LEMMA WriteAccounted ==
    ASSUME LogTypeOK, LogTypeOK', NEW t \in Thread, Write(t),
           NEW f \in DOMAIN bytes, f = fd[t], Accounted(f)
    PROVE  Accounted(f)'
<1> DEFINE n == Cardinality(Thread)
           k == Cardinality(Pending(f))
           j == Cardinality(Pending(f)')
<1>1. /\ bytes'[f] = bytes[f] + line[t] /\ line' = line
      /\ t \in Pending(f) /\ Pending(f)' = Pending(f) \ {t}
  <2>1. f # NoFile
    BY DEF LogTypeOK, NoFile
  <2>2. /\ step[t] = "writing" /\ step' = [step EXCEPT ![t] = "recorded"]
        /\ bytes' = [bytes EXCEPT ![f] = @ + line[t]]
        /\ UNCHANGED <<line, log>>
        /\ fd' = [fd EXCEPT ![t] = NoFile]
    BY DEF Write, Go, names
  <2>3. bytes'[f] = bytes[f] + line[t]
    BY <2>2 DEF LogTypeOK
  <2>4. \A u \in Thread \ {t} : step'[u] = step[u] /\ fd'[u] = fd[u]
    BY <2>2 DEF LogTypeOK
  <2>5. step'[t] = "recorded"
    BY <2>2 DEF LogTypeOK
  <2> QED  BY <2>2, <2>3, <2>4, <2>5 DEF Pending
<1>2. /\ n \in Nat /\ k \in 0..n /\ j = k - 1 /\ j \in 0..k
      /\ \A u \in Thread : line[u] \in 0..LongestLine
      /\ bytes[f] \in Nat /\ LongestLine \in Nat /\ MaxBytes \in Nat
  <2>1. j = k - 1
    BY <1>1, PendingCount, FS_RemoveElement
  <2>2. bytes[f] \in Nat
    BY DEF LogTypeOK
  <2>3. j \in Nat
    BY <1>1, PendingCount, FS_RemoveElement, FS_CardinalityType
  <2> QED  BY <2>1, <2>2, <2>3, PendingCount, AuditLogAssumption
<1>3. /\ (n - k) * LongestLine + LongestLine <= (n - j) * LongestLine
      /\ (n - j) * LongestLine \in Nat /\ (n - k) * LongestLine \in Nat
  BY <1>2, AllowanceGrows
<1>4. Allowance(f) = MaxBytes + (n - k) * LongestLine
  BY DEF Allowance
<1>5. Allowance(f)' = MaxBytes + (n - j) * LongestLine
  BY DEF Allowance
<1> HIDE DEF n, k, j
<1>6. CASE bytes[f] + LongestLine <= Allowance(f)
  BY <1>1, <1>2, <1>3, <1>4, <1>5, <1>6 DEF Accounted
<1>7. ASSUME NEW u \in Pending(f), bytes[f] + line[u] <= Allowance(f)
      PROVE  Accounted(f)'
  <2>1. CASE u = t
    BY <1>1, <1>2, <1>3, <1>4, <1>5, <1>7, <2>1 DEF Accounted
  <2>2. CASE u # t
    <3>1. u \in Pending(f)' /\ line'[u] = line[u] /\ u \in Thread
      BY <1>1, <1>7, <2>2 DEF Pending
    <3> QED  BY <1>1, <1>2, <1>3, <1>4, <1>5, <1>7, <3>1 DEF Accounted
  <2> QED  BY <2>1, <2>2
<1> QED  BY <1>6, <1>7 DEF Accounted

\* Every step keeps every file accounted for: only a measurement, and the
\* creation of a file, make threads pending.
LEMMA LogInvStep == LogInv /\ [LogNext]_logVars => LogInv'
<1> SUFFICES ASSUME LogInv, [LogNext]_logVars, LogTypeOK', NEW f \in DOMAIN bytes'
             PROVE  Accounted(f)'
  BY LogTypeStep DEF LogInv
<1> USE DEF Go, names, NoFile
<1>t. LogTypeOK /\ f \in Nat \ {0}
  <2>1. bytes' \in Seq(Nat)
    BY DEF LogTypeOK
  <2> QED  BY <2>1 DEF LogInv
<1>f. ASSUME f \in DOMAIN bytes, bytes'[f] = bytes[f],
             Pending(f)' \subseteq Pending(f),
             \A t \in Pending(f)' : line'[t] = line[t]
      PROVE  Accounted(f)'
  BY <1>t, <1>f, FewerPending DEF LogInv
<1>1. ASSUME NEW t \in Thread, NEW size \in Lines, AppendStart(t, size)
      PROVE  Accounted(f)'
  BY <1>t, <1>1, <1>f DEF AppendStart, Pending, LogTypeOK
<1>2. ASSUME NEW t \in Thread, Exists(t) PROVE Accounted(f)'
  BY <1>t, <1>2, <1>f DEF Exists, Pending, LogTypeOK
<1>3. ASSUME NEW t \in Thread, Stat(t) PROVE Accounted(f)'
  <2>1. CASE f = log /\ step'[t] = "opening"
    <3>1. f \in DOMAIN bytes /\ bytes' = bytes /\ line' = line
      BY <1>3, <1>t DEF Stat
    <3>2. bytes[f] + line[t] <= MaxBytes
      <4>1. ~Full(t)
        BY <1>3, <2>1, <1>t DEF Stat, LogTypeOK, Steps
      <4>2. bytes[f] \in Nat /\ line[t] \in Nat
        BY <1>t, <3>1, EntrySize DEF LogTypeOK
      <4> QED  BY <2>1, <4>1, <4>2, EntrySize DEF Full
    <3>3. t \in Pending(f)'
      BY <1>3, <2>1 DEF Stat, Pending
    <3> QED  BY <3>1, <3>2, <3>3, Measured
  <2>2. CASE ~(f = log /\ step'[t] = "opening")
    BY <1>t, <1>3, <1>f, <2>2 DEF Stat, Pending, LogTypeOK
  <2> QED  BY <2>1, <2>2
<1>4. ASSUME NEW t \in Thread, Replace(t) PROVE Accounted(f)'
  BY <1>t, <1>4, <1>f DEF Replace, Pending, LogTypeOK
<1>5. ASSUME NEW t \in Thread, Open(t) PROVE Accounted(f)'
  <2>1. CASE f \in DOMAIN bytes
    <3>1. /\ step[t] = "opening" /\ step' = [step EXCEPT ![t] = "writing"]
          /\ fd' = [fd EXCEPT ![t] = log'] /\ line' = line
          /\ f = log' => f = log
      BY <1>t, <1>5, <2>1 DEF Open, LogTypeOK
    <3>2. bytes'[f] = bytes[f]
      <4>1. bytes' = bytes \/ bytes' = Append(bytes, 0)
        BY <1>5 DEF Open
      <4>2. bytes \in Seq(Nat) /\ f \in 1..Len(bytes)
        <5>1. bytes \in Seq(Nat)
          BY <1>t DEF LogTypeOK
        <5> QED  BY <2>1, <5>1
      <4> QED  BY <4>1, <4>2
    <3>3. ASSUME NEW u \in Pending(f)'
          PROVE  u \in Pending(f)
      BY <1>t, <3>1, <3>3 DEF Pending, LogTypeOK
    <3> QED  BY <1>f, <2>1, <3>1, <3>2, <3>3
  <2>2. CASE f \notin DOMAIN bytes
    <3>1. bytes'[f] = 0 /\ f = log' /\ line' = line
      BY <1>t, <1>5, <2>2 DEF Open, LogTypeOK
    <3>2. t \in Pending(f)'
      BY <1>5, <3>1, <1>t DEF Open, Pending, LogTypeOK
    <3>3. bytes'[f] + line'[t] <= MaxBytes
      BY <3>1, <1>t, PendingCount, AuditLogAssumption
    <3> QED  BY <3>2, <3>3, Measured
  <2> QED  BY <2>1, <2>2
<1>6. ASSUME NEW t \in Thread, Write(t) PROVE Accounted(f)'
  <2>0. f \in DOMAIN bytes
    BY <1>t, <1>6 DEF Write, LogTypeOK
  <2>1. CASE f = fd[t]
    BY <1>t, <1>6, <2>0, <2>1, WriteAccounted DEF LogInv
  <2>2. CASE f # fd[t]
    BY <1>t, <1>6, <1>f, <2>0, <2>2 DEF Write, Pending, LogTypeOK
  <2> QED  BY <2>1, <2>2
<1>7. ASSUME NEW t \in Thread, AppendReturns(t) PROVE Accounted(f)'
  BY <1>t, <1>7, <1>f DEF AppendReturns, Pending, LogTypeOK
<1>8. CASE LogProcessEnds
  BY <1>8, <1>f DEF LogProcessEnds, Pending
<1>9. CASE UNCHANGED logVars
  BY <1>9, <1>f DEF logVars, Pending
<1>10. ASSUME NEW t \in Thread, CallFails(t) PROVE Accounted(f)'
  BY <1>t, <1>10, <1>f DEF CallFails, Pending, LogTypeOK
<1> QED
  BY <1>1, <1>2, <1>3, <1>4, <1>5, <1>6, <1>7, <1>8, <1>9, <1>10
     DEF LogNext, Appending

\* The most that is allowed is the bound.
LEMMA AccountedBound == LogInv => LogBounded
<1> SUFFICES ASSUME LogInv, NEW f \in DOMAIN bytes
             PROVE  bytes[f] <= MaxBytes + (Cardinality(Thread) - 1) * LongestLine
  BY DEF LogBounded
<1> DEFINE n == Cardinality(Thread)
           k == Cardinality(Pending(f))
<1>1. /\ n \in Nat /\ k \in 0..n /\ bytes[f] \in Nat /\ LongestLine \in Nat
      /\ MaxBytes \in Nat /\ IsFiniteSet(Pending(f)) /\ Pending(f) \subseteq Thread
      /\ \A t \in Thread : line[t] \in Nat
  BY PendingCount, AuditLogAssumption DEF LogInv, LogTypeOK
<1>2. Allowance(f) = MaxBytes + (n - k) * LongestLine
  BY DEF Allowance
<1>3. (n - 1) * LongestLine + LongestLine = n * LongestLine
  BY <1>1
<1>4. /\ (n - k) * LongestLine \in Nat /\ n * LongestLine \in Nat
      /\ (n - k) * LongestLine <= n * LongestLine
      /\ 0 < k => (n - k) * LongestLine + LongestLine <= n * LongestLine
  <2>1. 0 \in 0..k /\ (n - 0) * LongestLine = n * LongestLine
    BY <1>1
  <2> QED  BY <1>1, <2>1, AllowanceGrows
<1>5. ASSUME NEW t \in Pending(f)
      PROVE  0 < k
  BY <1>1, <1>5, FS_EmptySet
<1>6. (n - 1) * LongestLine \in Int
  BY <1>1
<1>7. Accounted(f)
  BY DEF LogInv
<1> HIDE DEF n, k
<1>8. bytes[f] <= MaxBytes + (n - 1) * LongestLine
  BY <1>1, <1>2, <1>3, <1>4, <1>5, <1>6, <1>7 DEF Accounted
<1> QED  BY <1>8 DEF n

LEMMA LogInvInit == LogInit => LogInv
BY LogTypeInit DEF LogInit, LogInv

\* The log, and its backup, outgrow max_bytes by at most one entry for each
\* other thread, for every number of threads that append without a lock.
THEOREM AuditLogBounded == LogSpec => []LogBounded
BY LogInvInit, LogInvStep, AccountedBound, PTL DEF LogSpec
=============================================================================
