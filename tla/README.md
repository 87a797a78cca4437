# A TLA+ model of AALP

AALP (`agent-api-lane-protocol`) carries requests of many agents to external API
providers. Every provider has a *lane* that admits a bounded number of requests
at a time; an admitted request is forwarded upstream under a lease that is kept
alive by heartbeats and given back when the upstream connection is known to be
closed. Requests that carry a queue key may be coalesced: several logical requests
travel as one physical request. A second lane, made of file locks, does the
admission for agents that run without the daemon.

The modules here model the parts of the code whose correctness depends on the
order in which threads, processes and clocks act. They are checked with TLC on
small instances; theorems about the two lanes, the forwarder, both paths through the
gateway, the audit log and the life of the daemon, for every value of the constants, are
proved with TLAPS. Every safety property that a passing run checks is also proved.

## The system

| Part | Source | State it keeps | Operations |
|---|---|---|---|
| Lane | `aalp/lane.py` | leases with their expiry, the list of tickets, the last activity | `acquire`, `heartbeat`, `release`, `status` |
| Forwarder | `aalp/forwarder.py` | per call: connection, outcome box, "caller gave up" | `forward`, `probe` |
| Gateway, per-flow path | `aalp/gateway.py` `handle`, `_execute_admitted` | one lane per active provider; per request a heartbeat thread and a token | `handle`, late completion, status |
| Gateway, coalesced path | `aalp/gateway.py` `handle_queue`, `aalp/queue.py` | the open generation of each queue key; members, state, result and event of a generation | open, join, lead, wait as joiner |
| File lane | `aalp/file_lane.py`, `aalp/filelock_compat.py` | who has locked each slot's file, kept by the operating system | `acquire`, `FileLease.release`, process death |
| Audit log | `aalp/audit.py` | the log file and one backup | `append`, `read_entries` |
| Ingress | `aalp/ingress.py` | socket, secret, descriptor files; a thread per connection | `start`, `stop`, one handler call per connection |
| Credential store | `aalp/credential.py` | one protected file per provider | write, read, remove |
| ci migration | `aalp/migrate_ci.py` | the legacy credential files and the new one | `migrate_ci` at start-up |
| Provider registry | `aalp/registry.py` | none after start-up | `load_providers` |
| Maintenance flag | `aalp/maintenance.py` | one file | enter, exit, test |
| Server | `aalp/serve.py` | none | construct, start, wait for a signal, stop |

How they interact: each ingress connection has a thread of its own that calls
`Gateway.handle` or `handle_queue`. That thread meets other request threads in
the provider's `Lane` (one condition variable), in the queue lock of the gateway
and, without any lock, in the audit log. `_execute_admitted` starts a heartbeat
thread that renews the lease, and `forward` starts a worker thread for the
upstream call; the worker may outlive the request and calls back
`_on_late_completion`, which releases the lease. The file lane shares nothing
with the daemon; its processes meet in the file system. `serve.py` constructs the
gateway, whose constructor migrates the credential, and then starts the ingress; systemd
starts the process again whenever it ends, and all that survives is in files.

What is hard here, and what each part must guarantee:

* **Lane**: the bound on leases while leases lapse by time; tickets that must not
  lose their turn; wakeups that must not be missed; tokens used after they lapsed.
* **Forwarder**: the answer of the worker races the caller's timeout, and "closed"
  decides later whether a slot is freed: delivered once, and never falsely.
* **Gateway**: a slot must be held as long as a caller waits for the upstream, be
  freed early only when the upstream operation cannot be running, and come back
  in the end even if nobody confirms anything.
* **Coalescing**: membership is frozen before the body is assembled; a generation
  that was sealed by size is replaced by a new one under the same key while its
  leader still waits; every member is answered.
* **File lane**: one holder per slot with no shared memory, processes that die
  anywhere, polling that must respect the deadline.
* **Audit log**: rotation by test-then-act with no lock.
* **Ingress**: what a killed process leaves behind, its socket, secret and descriptor,
  must neither keep the next one from starting nor mislead the clients that have read it;
  `stop()` must come to an end beside a thread that blocks in `accept()`.
* **ci migration**: copy, probe and deletions are separate steps; wherever the process
  dies, the credential must still exist somewhere and the next start must cope.

`PROJECT.json` lists every hazard at its line, with the properties aimed at it.

## Modules

| Module | Models | Written over |
|---|---|---|
| `AdmissionPool` | what any lane promises: at most `Capacity` attempts hold a place, an attempt that waits is settled | - |
| `UpstreamCall` | what `forward()` promises: a told outcome, and "closed" only of what is stopped | - |
| `Lane` | `lane.py`; implements `AdmissionPool` | - |
| `Forwarder` | `forward()`; implements `UpstreamCall` | - |
| `Gateway` | `handle` and `_execute_admitted` for one provider | `Lane`, `UpstreamCall` |
| `Coalescing` | `handle_queue`, leaders, joiners, `queue.py` | `AdmissionPool` |
| `FileLane` | `file_lane.py`, `filelock_compat.py`; implements `AdmissionPool` | - |
| `AuditLog` | `audit.append` | - |
| `Migration` | `migrate_ci.py` over `credential.py` | - |
| `Ingress` | `ingress.py`, `serve.py`: start, accept loop, connections, stop | - |
| `Server` | the daemon under systemd: its lives, its clients, its operator | `Migration`, `Ingress`, `AuditLog` |
| `LaneProofs`, `FileLaneProofs`, `ForwarderProofs`, `AuditLogProofs`, `CoalescingProofs` | theorems | the module they name |
| `GatewayProofs` | theorems about the per-flow path | `Gateway`, `LaneProofs` |
| `ServerProofs` | theorems about the daemon | `Server`, `AuditLogProofs` |
| `MC...` | instances for TLC | the module they name |

The abstract specifications are what makes the compositions small: `Gateway`
needs the real lane, because leases, lapses and heartbeats are its subject, but
only the promise of `forward()`; `Coalescing` needs only the promise of the lane.
That `Forwarder` and `Lane` keep those promises is checked by `ImplementsCall`
and `ImplementsPool`. `Server` leaves out the lanes and the upstream altogether: for the
life of the process a handler is something that may append to the audit log, return or
raise.

### Conventions

* An action is one critical section of the code (`with self.condition`,
  `with self._queue_lock`, `with outcome_lock`) or one system call, with
  everything the section does, including the nested `_expire()`.
* A call is identified with what it creates: a lane call with its ticket and its
  lease token, a generation with the member that leads it. The code draws these
  at random; no two are equal.
* Clocks are counted down to 0 (`ttl`, `remaining`, `nap`, `beat`), so no clock
  grows without bound. A timer at 0 is "past" and a lease at `ttl = 0` is not yet
  collected: collecting is `_expire()`, a part of every lane operation.
* Definitions with a name like `HasTurnOffByOne` or `GiveUpWithoutFinally` are
  deliberately wrong variants of the definition that follows them. No
  specification uses them; they are there to show that each property fails when
  the code is changed in that way.

### How the actions correspond to the code

*Lane.* `acquire()` is split where the lock is not held: `AcquireStart` reads the
clock, `AcquireEnter` takes the lock, appends the ticket and runs the loop once,
`Recheck` runs it again after `condition.wait()` returned by a notification or by
itself (`PollElapsed`). One turn of the loop is `Admit`, `GiveUp` or `Wait`.
`notify_all()` is `asleep' = {}`. Re-entry with a token and `heartbeat()` differ
only in what they return, and are both `Renew`. A token may be presented by any
holder string and after the lease lapsed; `release()` compares the two. Since the state
does not say who released a lease, the history variable `released` keeps the caller and
the lease of each `release()` that returned True. No action reads it; `LeaseLastsItsTerm`
does.

*Forwarder.* The worker's steps are `Request`, `Read`, `Close`, `Publish`,
`Notify`; the caller's are `Start`, `JoinReturns`, `CallerDecides`. `Request` may
end with a response, a timeout, a transport error, or an exception that no clause
catches: then `outcome` stays `"unbound"`, and `Publish` lets the worker crash
where Python raises `UnboundLocalError`.

*Gateway.* `Receive` is `handle()` up to `lane.acquire`, with its checks in their
order, `Queue` and `QueueTimeout` the wait, `TotalTimeout` the late total-deadline
check with its release, `Execute` the start of the heartbeat, `PrepareFails` /
`PathRefused` / `ForwardStart` / `ForwardReturn` the guarded block,
`StopHeartbeat` and `JoinHeartbeat` its `finally` (`set()`, and `join()` without a
timeout), and `Settle` the release or the quarantine. `Heartbeat`, `HeartbeatEnds`,
`UpstreamEnds` and `LateCompletion` run beside it. A heartbeat that was due when the event
was set still renews once. A section under the lane's lock is one step, so a
deadlock over that lock cannot be expressed; `handle()` holds no lock while it joins. Providers share
no lane, lock or lease, so one provider is modelled.

*Coalescing.* `Arrive` reads the clock and refuses what is malformed; `Open` and
`Join` are the two branches under the queue lock; the leader goes through
`SkipLane` / `Queue` / `Admitted` / `LaneTimeout`, `CloseOpenSlot`, `NotSent` /
`Malformed` / `Send`, `Executed`, `Publish` and `Wake`; `LeaderRaises` is every
exception that nobody catches. The budgets are flags that time may set, in the order in which
the requests started, since all of them have the provider's budgets; `earlier` holds that
order, as the set of those that are under way and started before each request.

*FileLane.* A round of attempts starts at any slot and takes one step per
`FileLock.acquire()`. That may find a free file busy too (`LockBusy`), since every `OSError`
of `flock` is taken for a lock held by somebody; an `OSError` of `os.open` is left out.
`Forget` drops what `acquire()` kept in local variables. `Die` ends a process anywhere; the operating system closes
its descriptors.

*AuditLog.* `exists`, `stat`, `replace`, `open` and `write` are separate steps.
Files are numbered, so that a descriptor stays on a file that was renamed. A write
of one line to an `O_APPEND` file is atomic and not short. `CallFails` is an `OSError` of
any of the calls, those that make the directory included. `AppendReturns` leaves the call, by its
return or its exception, and `LogProcessEnds` ends all threads where they are.

*Migration.* `Start` is the call in `Gateway.__init__`; `Discover`, `Read`, `Copy`, `Probe`
and one `Unlink` per file are the steps of `migrate_ci()`, each of which, from the first
look at the store on, may fail (`StepFails`, and the second branches of `Read` and `Probe`) and leaves the files as they
are. `Enter` and `Remove` are the operator's `write_credential()` and
`remove_credential()`, at any time. A write is one step, since `os.replace()` makes it
visible at once. The history variable `origin` says where the stored value comes from and
whether it has authenticated.

*Ingress.* The main thread goes from `Boot` over `Constructed`, `LoadSecret`, `StoreSecret`,
`UnlinkStale`, `Bind`, `Listen` and `SpawnAccept` to `PublishDescriptor`, in the order of
`build_ingress()` and `start()`, and from `Signal` over `JoinAccept` and `CloseSocket` to
`Leave`. The accept thread alternates `CheckStop` with `Accept`, `PollTimesOut` or
`AcceptFails`. A client reads the descriptor and the secret in `ReadPublished` and may keep
them for any time, through restarts; `Connect` to `Reply` are its connection. `Reject` is
every refusal that does not depend on the secret it has read.

*Server.* `Boot` starts a process and its migration, `GatewayBuilt` and `GatewayFails` are
the two ways `Gateway.__init__()` ends, `Record`, `Recording`, `HandlerReturns` and
`HandlerRaises` join the thread of a connection with that of an append, and `Die` ends the
process with all three parts. What disturbs the server (`Die`, `Signal`, `AcceptFails`,
`RecordingFails`, `MigrateStepFails`, `Operate`) is counted in `faults`.

## What the runs check

| Run | Instance | What it shows |
|---|---|---|
| `lane` | 4 calls, capacity 2, leases of 2 ticks, timeouts 0 and 2, one stranger | the capacity, no ghost tickets, no missed wakeup, no lost turn, leases last their term, `acquire` returns, `AdmissionPool` is implemented |
| `forwarder` | one call (calls share nothing) | one delivery of the outcome, truthful "closed", the caller returns, `UpstreamCall` is implemented |
| `forwarder_crash` | the same | an uncaught exception is reported as a timeout (finding) |
| `gateway` | 2 requests, capacity 1, leases of 3 ticks, heartbeat every tick and at most 1 late | the life of a slot from admission through quarantine |
| `gateway_ceiling` | the same | the ceiling on upstream requests is exceeded after a quarantine lapses (finding) |
| `coalescing` | 3 requests with one key, sizes 1 and 2, bound 2, capacity 1 | membership and state of generations, who is told what |
| `coalescing_liveness` | 2 requests | every member is answered |
| `coalescing_done` | 2 requests | an exception in the leader leaves the generation undone (finding) |
| `file_lane` | 3 processes, 2 slots, timeouts 0 and 2, naps 1 and 3 | one holder per slot, full rounds, `acquire` returns, `AdmissionPool` is implemented |
| `server` | 2 clients, 2 places of the legacy credential, one valid and one garbled value, 3 secrets, 3 appends of 2 bytes with a bound of 3, 2 disturbances | a credential deleted at ADP is kept, no client is turned away, the daemon comes up again, `stop()` returns, the log stays bounded across restarts |
| `migration_retry` | the same, no disturbances | a copy that never authenticated counts as a finished migration after a restart (finding) |
| `audit_rotation` | 3 threads, 5 appends, entries of 1 and 2 bytes, bound 3 | two threads rotate the same log (finding) |

Deadlock is checked for `lane` and `file_lane`, where the clock always ticks. In
the other runs the system may stop: calls end, a worker may be stuck in the
upstream, and a daemon whose accept thread has ended waits for a signal that need not come.

### Why the bounds are enough

* *Lane*: with capacity 2, overtaking needs two waiters beside two holders, hence
  four calls; leases of 2 ticks have an inner point, where they are neither fresh
  nor lapsed; timeout 0 fails at the first turn of the loop, 2 lives through a
  lapse. `MaxIdle` exceeds the lease term, so the bound of the idle counter is
  out of sight of the property about it. Ticket numbers are bounded by the number of
  calls. Beyond these bounds the theorems take over.
* *Gateway*: two requests are the least that contend for one slot, and the
  shortest lease with a heartbeat at a third of it has 3 ticks. The queue timeout
  is shorter than the lease, so requests give up behind a quarantined slot too.
* *Coalescing*: three requests let a second generation open, under the same key,
  while the leader of the first still waits, and a third request arrive in
  between. Sizes 1 and 2 with bound 2 give generations that are full with one
  member, with two, and with an overshoot. Different keys share only the lane,
  which the abstract pool already lets behave arbitrarily within its bound.
* *FileLane*: three processes for two slots make somebody wait; naps shorter and
  longer than the deadline exercise both branches of `min`.
* *Server*: two clients suffice for one to keep a secret through a restart while the other
  meets the new process, and for two appends that overtake each other at a full log (one
  entry of 2 bytes fits the bound of 3, a second does not). Two files let the process die
  between the deletions. Two disturbances are a crash and another, or a crash and an
  operator: the second may come in the recovery from the first. A probe that fails is not
  counted, so it may happen any number of times. Three secrets leave one that nobody knows
  whatever two clients have read. The bounds on appends and disturbances are
  `MaxAppends` and `MaxFaults`; the theorems hold for any value of them.
* *AuditLog*: three threads and five appends are enough to fill a log, rotate it twice and
  fill its successor.

## Assumptions

*Scheduling.* Liveness assumes weak fairness of what a running thread does next
and of the clock, nothing else. `condition.wait(min(remaining, 0.25))`,
`join(timeout)`, `Event.wait(timeout)` and `time.sleep` return by themselves, so
their return is fair. What the code cannot force is not fair: lease
holders need not release or heartbeat, an upstream may hang for ever, a process
with a file lock may hang, nobody has to send a request. A heartbeat thread that has been told to stop
ends its loop in the same way. In `Coalescing`, where
`_execute_admitted` is one step, that step is fair because `RequestAnswered` of
`Gateway` says that it returns. In `Server` the main thread is fair, its `Boot`
because `deploy/aalp.service` has `Restart=always` without a start limit, and the accept
loop is, because `accept()` times out after 0.2 seconds. Clients and handlers are not:
`stop()` has to return beside handlers that never do. A probe need not ever succeed.

*Time in `Gateway`.* The code is correct only if threads run before the lease
they depend on lapses. This is stated as `Prompt`, a guard of `Tick`: a heartbeat
is at most `Slack` ticks late, with `Interval + Slack < LeaseSeconds`, and the
heartbeat thread of an admitted request starts within the tick. With the
deployed values (30 seconds, heartbeat every 10) this is a stall of up to 20
seconds. Without it `HeldWhileForwarding` is false: a stalled process loses its
lease while it forwards. `Coalescing` leans on this: its `Lapse` takes the place of a leader
only after the upstream call, and the time from a leader's admission to its first heartbeat,
in which it closes its generation and assembles the body, is assumed to be shorter than the
lease.

*The daemon.* One daemon runs at a time, as under its systemd unit. ADP leaves its
credential files alone while a daemon starts (the migration reads them before it deletes
them, without a lock). The provider files are valid and the modes of the protected files
are right: if not, the daemon stays down until the operator acts, as it should. The server
is disturbed finitely often, without which no daemon comes up for good. `ComesUp` says that the
main thread gets to wait for its signal, not that the accept thread is still alive then.

*Environment.* Code that is not in the repository is modelled by how it is used:
the monotonic clock, the scheduler, the operating system's file locks and file
names, which are released with the process that holds them. A file lock is
opened, locked and closed in one step, since an open descriptor without the lock is
visible to nobody.

## What the code does differently from what it says

1. `gateway_ceiling`: the TTL of a quarantined lease frees its slot while the
   upstream operation may still run, against `contract.json:71` ("never starts a new
   upstream request ... beyond that provider's declared ceiling") and
   `contract.json:164`. What does hold is `AwaitedWithinLimit`: the operations
   somebody still waits for are within the limit.
2. `forwarder_crash`: an exception other than the ones listed (a header value
   with a line break is enough) leaves `result` unbound at `forwarder.py:158`;
   the caller is told "no response within ..." at once, and the late completion
   never comes, against `forwarder.py:87`.
3. `coalescing_done`: an exception in the leader (a missing credential file, a
   `member_block` that is not a string) skips `_finish_leader`; the generation is
   never DONE and its joiners wait out their whole total budget, against
   `gateway.py:143-145`. `MemberAnswered` shows that they are answered at least then.
4. `audit_rotation`: two threads that both found the log full rotate it twice; the
   second rotation replaces the full backup by a nearly empty file
   (`audit.py:67-69`, against `audit.py:12-13`).
5. `migration_retry`: after a probe that failed, or a crash before it, the restarted
   daemon finds the copy and returns `ALREADY_PRESENT` (`migrate_ci.py:119`): it neither
   probes nor deletes, then or ever after, against the retry that the comment at
   `migrate_ci.py:142-144` speaks of. `DeletedIsKept` shows that nothing is lost by it.

Disagreements seen while reading, for which there is no run:

* `lane.py:110` admits every waiter whose position is below the number of free slots, so
  with `capacity > 1` a later ticket may go first, against "admission is strictly FIFO"
  (`lane.py:4-5`, `contract.json:63`). `OvertakenHasTurn` shows the harm is bounded: whoever is
  overtaken has a free slot of its own. With capacity 1, as deployed, FIFO is proved
  (`LaneSingleSlotFifo`).
* A joiner is answered with its leader's queue timeout though its own queue
  budget began later (`gateway.py:538`; `contract.json:85-86`).
* A generation is opened under the queue lock but takes its lane ticket after
  the lock is released, so two generations of one key may be dispatched in the
  other order (`gateway.py:493`, against `gateway.py:468-470`).
* If `read_credential` raises, the admitted slot is idle, yet held until its TTL
  (`gateway.py:344`; README.md:9-10 has the slot "released once that one request's
  outcome is known").
* `append` raises when another thread rotates the log between two of its calls;
  the ingress then answers 500 for a request that succeeded.
* The accept thread starts before the descriptor is written (`ingress.py:303-304`,
  against `interface/v1/README.md:38`). `SecretHonoured` shows that this is harmless to a
  client that still has the files of an earlier process: the secret is the same.
* Any `OSError` of `accept()` ends the accept thread (`ingress.py:281`): the process lives on,
  so systemd does not restart it, and serves nobody.
* An operator who enters a credential between the check and the write of a migration has it
  overwritten with ADP's (`migrate_ci.py:119`, `:135`).

## What is proved

Every theorem is for arbitrary values of the constants under the ASSUMEs of its module: a
capacity and a lease term of at least 1 and timeouts that are naturals, which are the
argument checks of the constructors; for the log, finitely many threads and a longest
entry that fits into an empty log; for the server, that there is a secret to draw and that
the values accepted are values. The finiteness of the set of calls on a lane is
not assumed; that only finitely many calls hold a lease or wait is part of the invariant.

`LaneProofs`:

* The inductive invariant is `LaneInv`: the type invariant, the finiteness of
  `waiters` and `leases`, `Bookkeeping` (which phase goes with being a waiter or
  holding a lease), `TicketOrder` (the tickets of waiters and of lease holders
  were given out already, and no two waiters have the same), and
  `CapacityBound` itself. Type correctness alone is not inductive: to see
  that `Admit` adds a lease and keeps the bound one must know that the call holds
  none yet, and to see that a turn is kept one must count the waiters in
  front, which the ticket order makes a set that arrivals do not enlarge.
* From it: `LaneTypeCorrect`, `LaneCapacity`, `LaneTimeoutHoldsNothing`,
  `LaneTurnKept`, `LaneOvertaking`, `LaneWakeups`, `LaneLeaseTerm`, `LaneIdleTime`.
* `LaneLeaseTerm` rests on `ReleasedForGood` as well: a lease that was released is held no more,
  and its call is past `acquire()`. Without it a lease could end a second time, under a release that was
  recorded before.
* `LaneImplementsPool`: every step of the lane is a step of `AdmissionPool` or a
  stutter, under the mapping `PoolStatus`.
* `LaneSingleSlotFifo`: with capacity 1 admission is strictly FIFO.

`FileLaneProofs`:

* `FileLaneTypeCorrect` is inductive by itself. `FileLaneLocks` (`LockMeansLease`)
  is inductive on top of it: a slot may be locked only when its file has no
  owner, and both ways to lose a lock clear the owner.
* `FileLaneTriesAll` needs `RoundComplete` (who sleeps or timed out stands at the end
  of its round) and the lemma `FullRound`: from any start, the slots `(start +
  i) % Capacity` for `i` below `Capacity` are all slots.
* `FileLaneDeadline`: `SleepsWithinDeadline`.
* `FileLaneImplementsPool`: `AdmissionPool` is implemented. The bound, which is
  nowhere counted in this lane, follows from `LockMeansLease`: the leases map the
  holders one to one into the slots other than a free one (`RoomForOne`).

`ForwarderProofs`:

* The inductive invariant `Inv` says, of each call, how its two threads stand to each
  other (`Handshake`: once the result is in the box, `notify_late` equals
  "the caller gave up"; before, the box is empty and nothing was reported) and what
  `closed` says about the connection (`Connection`). Type correctness is part of it and
  not provable alone: that the late completion is one pair, and never one with an
  unbound result, is what the handshake says.
* From it: `ForwarderTypeCorrect`, `ForwarderDeliversOnce`,
  `ForwarderClosedIsConfirmed`, and `ForwarderImplementsCall`, the refinement of
  `UpstreamCall`. Calls share no state, so one lemma (`OnlyThisCall`) disposes of
  all the others.

`AuditLogProofs`:

* `LogTypeCorrect`: `LogTypeOK` is inductive.
* `AuditLogBounded`: no file outgrows `MaxBytes` by more than `LongestLine` for each thread
  but one. The bound is not inductive: it has to count who is still to write. A thread
  is `Pending` on a file that it will write to without measuring it again. `Accounted` says
  that what the file holds, with the longest entry for each pending thread but the last to measure,
  and that one's own entry, is within the bound: the last one has measured the file as it
  was, and the others are counted at one longest entry each. A write takes its thread out
  of the count with at most what was reserved for it, `Stat` puts one in, and a rotation
  leaves nobody pending on the old file but those that have it open. The counting rests on
  the cardinality lemmas `PendingCount`, `FewerPending` and `AllowanceGrows`.

`GatewayProofs`:

* `GatewayComposes`: every step of the gateway is a step of `Lane` or leaves the lane
  alone, and likewise for `UpstreamCall`. So `LaneInv` of `LaneProofs`, which the module
  instantiates with the requests as the calls, holds of the gateway's lane, and the proofs
  use it as `LaneFacts`. What one call of the lane does to the lease of its request and to
  those of the others is said once, in `AcquireEffect`, `ReleaseEffect`, `HeartbeatEffect` and
  `StatusEffect`.
* The inductive invariant is `GateInv`: for each request, where it stands in the lane
  (`AtLane`) and in `forward()` (`AtUpstream`), that its heartbeat thread runs from admission
  until the `finally` clause stops it and has ended when `join()` returns (`Beats`), how much of its lease is left (`Leased`), and that a
  refusal left nothing behind (`Refused`). `HeldWhileForwarding` is not inductive: that a
  lease has time left says nothing about the next tick. What is, is that the lease is
  exactly as old as its last heartbeat, `ttl = LeaseSeconds - Interval + beat`. With
  `beat >= -Slack`, which `Prompt` keeps, and `Interval + Slack < LeaseSeconds` the lease cannot
  lapse.
* From it: `GatewayTypeCorrect`, `GatewayHolds`, `GatewayRefusals`, `GatewayFreesIdle` and
  `GatewayQuarantine`. `GatewayAwaited` follows from `HeldWhileForwarding` and the bound of
  the lane: those who wait for the upstream hold as many leases.

`CoalescingProofs`:

* The inductive invariant is `CoalescingInv`. Its parts say, of each request, how the
  state of the generation it leads goes with the place of its thread (`LeaderAndState`), what
  outcome it has so far (`AnswerSoFar`), what its joiners are woken with (`Published`), which
  generation it belongs to (`Membership`), and that whoever has the upstream's result is in a
  generation that was `Delivered` (`Served`); of each key, that its slot was opened under it
  (`Registered`); and of the lane, that the leader of a generation that is to be sent holds a
  place (`LeaderAndLane`) and that the places are within the limit (`PoolInv`). None of the
  properties is inductive: `OpenIffRegistered` needs to know that a leader closes its
  generation before it sends and publishes it and that slots are registered under their own key;
  `ResultMeansSent` reaches a joiner by way of `_finish_leader()`, the event and
  `_wait_as_joiner()`, and at each of them somebody else may act.
* `Delivered` is what makes the argument go through: the body that was sent has all the
  members, and the state is `in_flight` or `done`, so no step takes it back. That nobody but
  the acting request is added to a generation, and only while it is OPEN, is
  `EffectOnGenerations`; what a step leaves of all the other requests is `EffectOnOthers`.
* From it: `CoalescingTypeCorrect`, `CoalescingOpenIffRegistered`,
  `CoalescingResultMeansSent`, `CoalescingMembershipFrozen`, `CoalescingJoinerHearsLeader`,
  and two that no run states: `CoalescingOneGeneration` (a request is a member of one
  generation at most, so `GenOf` is well defined) and `CoalescingCapacity` (at most
  `concurrency_limit` physical requests are executing, for any number of keys and members).
* `CoalescingUsesPool`: every step is a step of `AdmissionPool` or leaves the lane alone. The
  requests may therefore wait in any lane that implements it.

`ServerProofs`:

* `ServerComposes`: every step of the daemon is a step of the migration or a stutter of it,
  and likewise for the ingress and for the log. So `ServerLogBounded` follows from
  `AuditLogBounded`, and the following invariants need only be kept by the part they are about.
* `ServerDeletedIsKept` needs `MigrateInv`: from the moment the candidates were found
  consistent each that is left holds the same valid value, and until the deletions the store
  holds it too, copied before the probe and proved after it, unless the operator intervened.
* `ServerSecretHonoured` needs `SecretInv`: the secret file is written once; who knows a
  secret knows the one in the file; a daemon that can be reached has that one in
  memory; and nobody is connected to one that cannot. That a fresh secret exists when it is
  drawn (`FreshSecret`) follows, since nobody knows any before the first is published.
* `ServerTypeCorrect` adds `Together`, the invariant of the composition: a migration runs
  only under a main thread that constructs the gateway, an append only under a connection
  that is being handled.

## What is only model-checked

* All liveness: `AcquireReturns`, `CallerReturns`, `LateOutcomeReported`, `RequestAnswered`,
  `SlotComesBack`, `MemberAnswered`, `ComesUp`, `StopReturns`, and the fairness parts of `ImplementsPool` and
  `ImplementsCall` (`Pool!FairSpec`, `Call!FairSpec`). Liveness under fairness
  and `ENABLED` are out of the prover's reach; the theorems are about the safety
  parts, `Pool!Spec` and `Call!Spec`.

## What is not modelled

* The framing, the parsing of requests and the JSON of replies in `ingress.py`, and the
  arguments of `serve.py`: no state.
* Two daemons on one state directory: the unit runs one. `load_or_create_secret()` and the
  socket have no lock against a second.
* Files with wrong modes or garbled contents, other than a legacy credential: the daemon
  refuses to start until the operator acts. The Windows branches of `filelock_compat.py`.
* `probe()` is the step `Probe` of `Migration`, with whatever outcome: its request does not
  go through a lane, and nothing else runs while the daemon starts.
* The two toggles of the maintenance flag: the flag is read as a free choice.
* `registry.py`: pure validation at start-up. What it guarantees, a positive limit
  and a fixed set of active providers, is assumed by the modules.
* The discovery replies, status codes and the JSON envelopes: pure functions.
* An exception of `audit.append` inside `handle()`: it comes after every lane
  operation and changes only the reply, to a 500.
* Requests with and without a queue key on the same provider: `Coalescing` has
  only the former. In the pool they would only take places away, which
  the pool may do to an attempt anyway by letting it wait.
* The lanes across restarts of the daemon. `Server` restarts it without its lanes, which live
  in memory: the upstream may then still work on requests of the previous process, and
  the ceiling is exceeded as in `gateway_ceiling`.

## Plan

Done: the lanes, the forwarder, the two gateway paths, the audit log, the migration, the
ingress and the daemon they make up, with the theorems above. Next:

1. `Coalescing` over `Lane` in place of `AdmissionPool`: tickets of generations
   against the order in which the generations were opened.
