# Verification of the automation runtime, the agent tasks and the volume storage

TLA+ models, TLC runs and TLAPS proofs for the parts of OpenSail that have to
be right when several processes act at once: the **automation runtime** of the
orchestrator (`src/orchestrator/app/services/automations`), the **agent tasks of a
chat** with the locks in Redis, and the **volume storage**
(`src/services/btrfs-csi`). Python paths below are relative to
`src/orchestrator/app/`, Go paths to `src/services/btrfs-csi/pkg/`.

`PROJECT.json` lists components, runs, mutants, findings, hazards, theorems and,
under `map`, the source lines each definition stands for.

Check a run with `tlc -config <run>.cfg <module>`, a proof with
`tlapm <module>.tla`.

## 1. Inventory

### The system around it

OpenSail is a web platform on which users build apps with coding agents. A
FastAPI orchestrator (routers, services, Postgres, Redis) is flanked by ARQ
workers, controller processes, a messaging gateway, Go services (a btrfs CSI
driver, `tsinit`), an AST service, a marketplace service, SDKs, a front end and a
desktop shell. Most of it is CRUD in single transactions, integration glue or user
interface. In the parts above, state is shared by processes that do not wait for each
other.

### The automation runtime

An *automation definition* has triggers, actions and a contract. A trigger produces
an *event*; an event is dispatched to one *run*; a run executes actions, perhaps in
another worker, perhaps pausing for human approval.

| Component | State | Operations | Talks to |
|---|---|---|---|
| Lease backends (`lease/db.py`, `lease/redis.py`, `lease/k8s.py`) | holder, term, expiry | acquire, renew, release | supervisor |
| Supervisor (`controller_main.py`) | token, `lease_lost`, `shutdown_event`, child tasks | acquire loop, promote, renew loop, tick loop, stand down, release | lease; starts all controller loops |
| Cron producer (`cron_producer.py`) | triggers' `next_run_at`, event rows | verify lease, claim triggers, insert events, enqueue | lease row, ARQ |
| Heartbeat sweep (`heartbeat_sweep.py`) | – | expire running rows with an old heartbeat, enqueue retries | lease row, run rows, ARQ |
| Approval-timeout sweep (`approval_timeout_sweep.py`) | – | resolve expired requests, fail their runs | lease row, requests, runs |
| Intents, reconciler (`intents/`, `../apps/idle_reaper.py`) | `controller_intents` rows | record under lease, apply, supersede, fail | lease row, Kubernetes/Docker |
| Dispatcher (`dispatcher.py`) | `automation_runs` rows | upsert, preflight, allocate, execute, hand off, pause, defer, resume, finalise | ARQ, approvals, budget |
| Worker (`worker.py`) | agent task, heartbeat task | run a dispatch, resume or agent task; heartbeat and finalise the run | dispatcher, run rows |
| Approvals (`routers/automations.py`, `respond_to_approval`) | `automation_approval_requests` rows | resolve, set the run's status, enqueue the resume | ARQ, run rows |
| Event producers (`../gateway/scheduler.py`, `routers/app_triggers.py`, `run_automation`) | triggers, event rows | gateway cron tick, signed webhook, manual run | ARQ, dispatcher |
| Event recovery (`sweep_on_acquire.py`, `missed_event_drain.py`, `trigger_events.py`, `../apps/schedule_triggers.py`) | event rows | re-enqueue undispatched events | ARQ |
| Budget (`budget.py`) | day counters in Redis, keys | reserve along the parent chain, refund | dispatcher |
| Approval pressure (`approval_pressure.py`) | slot counter in Redis | acquire, release, deferred retry | dispatcher |

### Agent tasks and locks

A message in a chat becomes a task: the endpoint admits it under the user's cap and
enqueues it, a worker runs it while it holds the chat's lock, and the user may cancel
it, or send the next message, at any time. The orchestrator's pods share a second kind
of lock, for background loops that only one of them should run and for operations on
one project.

| Component | State | Operations | Talks to |
|---|---|---|---|
| Chat endpoints (`routers/chat.py`, `concurrency_limits.py`) | the user's slots in Redis | reserve, enqueue, cancel, report the active task and heal its lock, clear the lock | ARQ, pub/sub |
| Pub/sub (`pubsub/redis_pubsub.py`) | lock key of a chat (30 s), cancellation keys (600 s) | acquire or take over, extend, release, force-release, cancel | Redis |
| Agent task (`worker.py`, `execute_agent_task`) | heartbeat task, `Chat.status` | lock, run, check for cancellation, finalise, release, retry | pub/sub, database |
| Distributed lock (`distributed_lock.py`) | one key per lock, the value names the pod | acquire, renew, release, hold, wait, run a loop under the lock | Redis |

### The volume storage

A project's files are a btrfs subvolume on one storage node. The node's sync daemon
saves it as a chain of snapshots (content-addressed blobs, each a difference to its
parent) in an object store; the Hub knows which node owns a volume, hands out a
lease per volume and alone writes the manifest that lists the snapshots.

| Component | State | Operations | Talks to |
|---|---|---|---|
| Sync daemon (`sync/daemon.go`) | tracked volumes, one actor each, dirty flags, layers on disk | track, discover, sync, checkpoint, consolidate, rotate, restore, undo point, drain, move, untrack | Hub, object store, btrfs |
| Manifest (`cas/manifest.go`) | snapshots with parents, HEAD | append, restore chain, consolidations | Hub |
| Hub (`volumehub/server.go`, `registry.go`) | registry in memory: owner, cached nodes, lease; manifest and tombstone in the store | acquire, renew, revoke, reap; append; delete; ensure cached; rebuild; transfer | nodes, object store |
| Node and file operations (`nodeops/`, `fileops/`) | – | gRPC in front of the daemon; writes followed by `MarkDirty` | daemon |

### What is hard, and what makes each component correct

* **Lease**: renewals may be late, answers lost, releases delayed; a deposed leader
  does not know it is deposed. Correct: terms are exclusive and only grow; a term
  comparison is a sufficient fence; fail-over completes.
* **Fenced writes**: verification and commit are separate steps. Correct: no commit
  under an old term.
* **Intents**: a deposed reconciler works beside its successor on the same rows.
  Correct: no leader executes another leadership's decision; nothing stays pending.
* **Run**: jobs are delivered several times and run again when a worker dies; every
  status write is an UPDATE by id computed from an earlier read; two sweeps and
  several users write the same row. Correct: no success without a finished
  execution, no waiting run without an answerable request, no run stuck in a
  non-terminal status, no parallel execution.

* **Admission**: a reservation is several Redis commands on shared counters; it may
  be refused half-way, the day may end and a worker may die between any two.
  Correct: what is left and what is taken add up to the cap; a refused run holds
  nothing; no more slots than the cap.
* **Events**: the row is committed before the job is enqueued; four producers and two
  recovery sweeps write the same rows. Correct: a trigger's slot is used once, a
  stamp means that a job was put, every event is settled.
* **Agent tasks**: a task may lose its lock (expiry, takeover, a request that clears it)
  while it runs, and is cancelled by a flag that it reads between two events; a retry
  runs beside the task that has taken over. Correct: whoever runs is either the holder,
  cancelled, or about to find out; a task without the lock ends; slots are given back;
  the status of the chat comes to rest.
* **Locks**: the value of a key names the pod, not the task; a pod without a connection
  takes every lock. Correct: a key belongs to who set it; a second loop ends; the loop
  comes back.
* **Volume snapshots**: a difference restores correctly only if the subvolume it was
  taken against and the parent that the manifest records held the same data, after
  any sequence of syncs, restores, lost layers and crashes; writers do not pass
  through the actor. Correct: every snapshot restores to what it was taken of;
  restoring does not destroy unsaved work; what is written is saved in the end.
* **Hub**: leases expire, are revoked and force-released, the registry is lost on a
  restart, deletion waits for nodes that wait for its lease. Correct: no acknowledged
  snapshot disappears; deletion ends; what is deleted stays deleted.

`PROJECT.json` lists these hazards at the lines where they bite.

## 2. Modules

| Module | Models | Proofs |
|---|---|---|
| `LeaseContract` | what a lease backend promises (abstract specification) | |
| `ControllerLease` | the `controller_leases` row, the supervisor, the tick loop and its fenced transactions | `ControllerLeaseProofs` |
| `IntentReconciler` | intents, composed with `ControllerLease` (it extends it; its next-state relation includes the supervisor's steps) | `ControllerLeaseProofs` |
| `RedisLease` | the Redis backend, against `LeaseContract` | `LeaseBackendProofs` |
| `AutomationRun` | the life of one `automation_runs` row: dispatcher, agent task, approvals, sweeps | `AutomationRunProofs` |
| `RunAdmission` | what a dispatch takes from and returns to the Redis counters: daily budgets along the parent chain, approval-pressure slots | `RunAdmissionProofs` |
| `EventDelivery` | event rows from their producers to the dispatcher, ARQ jobs, both recovery sweeps | `EventDeliveryProofs` |
| `KubernetesLease` | the Kubernetes backend, against `LeaseContract` | `LeaseBackendProofs` |
| `ChatTask` | agent tasks of one chat: admission, lock, heartbeat, cancellation, status, retries, and the endpoints that clear a lock | `ChatTaskProofs` |
| `DistributedLock` | the pods' lock: a background loop under `run_with_lock` and operations under `hold` or `wait_for` | `LeaseBackendProofs` |
| `VolumeSync` | one volume on one storage node, with its manifest | `VolumeSyncProofs` |
| `VolumeHub` | the Hub's registry, lease, deletion and re-registration of one volume, with the nodes' operations | `VolumeHubProofs` |
| `MC…` | the symmetry sets, and the parents and caps, of the TLC instances | |

### ControllerLease

`lease` is the row (term 0: no row yet; `live`: `expires_at` is in the future).
`rowLock` is the transaction that holds it through `SELECT … FOR UPDATE`. `sup`,
`token`, `lost`, `shutdown` and `tick` are each process's supervisor, token term,
events and tick-loop task. A `Holder` is one incarnation of a process, as
`_make_holder_id` makes an id per start, so a crashed process is not restarted
under its name. Time is an expiry that may happen at any moment; if the owner still
leads it counts as a fault (a late renewal). One action per operation: `Acquire`,
`AcquireUnacked` (committed, answer lost), `Promote`, `Renew`, `RenewError`,
`StandDown`, `Release`, `ReleaseError`, `Crash`, and for each tick stage verify,
commit, error and `TickLeaseLost`. The cron stage locks the row between verify and
commit; the sweeps do not. `stale` records stages that committed under an old term.

### IntentReconciler

Adds the intent rows, open record transactions, each reconciler's batch (the rows
*as read*, with their attempts), the call in flight, and who ever issued an
intent's mutation. `reap_idle_runtimes` of `idle_reaper.py` is the one recorder in
the tree and has no caller outside the tests yet; the model has any leader run it.
Kubernetes and Docker are success, conflict (409) or error. The batch limit is not
modelled: a batch is all pending rows.

### RedisLease

`INCR` and `SET NX EX` are separate steps; the Lua scripts are one step each. A
failing command raises `LeaseUnavailableError`, which `run_controller` does not
catch: the process starts over. The TTL is an expiry at any moment.

### AutomationRun

One row of one (automation, event) pair, with the ARQ jobs about it: `job[j]` says
what a job does and where it is between two commits. What it decided from an
earlier read is in its place (`"requeue"`: it has read a retryable status), so
every write in the code that uses a stale read uses one in the model. `answer[u]`
is what a user's request has loaded, with the status it saw: SQLAlchemy sends only
changed columns, so an *allow* that loaded a queued run does not write the status.
`run.beat` is whether the heartbeat is recent: an agent loop sends one every 30 s,
so going stale counts as a fault while one runs and is ordinary otherwise.
`Abort` is a worker that dies at any point, the moment after the last commit
included (the job runs again), or a task that raises (it does not).

Abstracted: contents of contracts, payloads, checkpoints and deliveries (each is
success or failure), budgets (allocation succeeds or fails; `RunAdmission`), the pressure counter
(the defer branch may be taken while attempts are left), multi-step automations,
`force_retry`, rows without `event_id`. A run is stopped for approval in two ways:
`CheckpointAndPause` (`ContractBreachException`, dispatcher) sets `waiting_approval`
and adds a request in one commit; `GateAgent` (`ApprovalRequired`, worker) sets the
status alone, and `run.gate` says that it did. Nothing in the tree but the tests
raises either exception today (`check_tool_allowed` has no caller); both are outcomes
of an action, as the code provides for them. Status `paused`, which nothing writes, is
left out.

`WaitingHasRequest` and `WaitingEnds` are about runs paused in the first way, with
gates as one more writer of the row. A gated run has no request, so no user can answer
it and no sweep meets it: `GateHasRequest` states what the worker says of it, and is
violated (section 3).

### RunAdmission

Every Redis command is a step. `disp[d]` is where a dispatch is in
`allocate_run_budget`, with the loop index and how many members it has debited;
`held` observes which counters carry its debit. A parent has no parent
(`ck_automation_definitions_depth_range`), so a chain has at most two members.
Amounts are whole numbers, one cost for all runs. `Expire` is midnight: a counter
with a TTL disappears with all its debits. `BudgetRedisError` may hit any command,
which may have taken effect; only `DailyBudgetExceeded` is caught in the debit loop, so
nothing is refunded. Nothing calls `deallocate_run_budget`, so a finished run's debit
stays. `slots` is the pressure pool: `AcquireRedisError` lets the caller go on with a
token that was never counted, whose release drives the counter below zero and resets
it; `SlotsAccounted` excludes exactly that case.

### EventDelivery

`event[e]` is a row: its kind, `dispatched_at`, failure, whether it is past the
drain's grace time, and its row lock. `trig` is the automation's cron trigger; a
`FOR UPDATE SKIP LOCKED` claim is a lock kept until the tick's commit. `ctl[c]` is
what a controller or the gateway is doing between two commits: claimed a trigger,
still has jobs to enqueue, is about to stamp stale events, is draining. The
controllers' own fence is `ControllerLease`'s `CronFenced`; here several may have
come to lead. `web` is one webhook delivery and its caller. A second job of an event
is harmless because the dispatcher upserts the run (`AutomationRun`). `Room` keeps an
id for the tick that holds the trigger, so that running out of ids is never taken for
a stuck tick.

### KubernetesLease

`lease` is the Lease object: holder, `leaseTransitions`, and whether its renew time is
recent. The API server refuses a write whose `resourceVersion` is not the stored one;
`current` is the set of processes whose last read is still what is stored, `late` the
same for a renewal whose caller was cancelled: each call runs in a thread
(`asyncio.to_thread`), which goes on without it. Acquire, renew and release are a read
and a write each, with a conflict, an error, or an answer lost after the write had its
effect. Time is an expiry at any moment.

### ChatTask

`lock` is the chat's key, `flag` the tasks with a cancellation key, `status` is
`Chat.status`, `slots` the user's admission set. `pc[t]` is where a task is between two
commands: `admitted` (counted, not reserved), `queued`, `locked`, `noted` (the
chat's row was read as running, so that it will not be written), `prepared` (the commit of `running`
is done, the loop's `try` not yet entered), `running` (between two events), `checked` (it
has seen that it is cancelled, the holder not yet read), `finalizing` (its outcome is
known, the status not yet written), `ending` (the lock not yet given back), `leaving`
(the slot not yet given back). A `CancelledError` (`Interrupt`, the job's timeout or a
shutdown) may come at each of them: only in the loop does a `finally` still write the
status, and in the clean-up it cuts the clean-up short (`CleanupInterrupted`, counted as
a fault). `runner` observes the last task that entered with status `running`, until the
status is something else or that task leaves it, to its successor or by an interruption
outside the loop; `RunningHasCause` is about it. `hb[t]` is the heartbeat task, which may
find the lock lost. `req` is one request that clears the lock, with what it read in each of
its steps. A cancellation flag lives for 600 s, `worker_job_timeout`, so it outlives
the attempt it was meant for and may meet the next one. `harmed` records tasks that a
fault kept from giving back what they hold. The agent is reduced to "produces events,
then completes, times out or fails".

### DistributedLock

`loopKey` and `opKey` are the two keys; `setBy` observes which operation set the second.
`loop[p]` is a pod's `run_with_lock`: asleep, running, or over without anybody having
looked (`_run_with_renewal` looks when it has slept and renewed). A pod without a client
(`up`) is told that it has every lock; `astray` observes that, and keys that expired
under their holder.

### VolumeSync

What the volume holds is a number: 0 for the template, a new one for each write. A
snapshot in the manifest records its claimed parent and, as ground truth, what the
send was really based on; `Receive` yields `Garbage` when a difference is applied to
another base. `disk` is what each layer subvolume holds, and their names in order of
creation (the order in which `discoverVolumes` sees them), `fresh` the subvolumes whose
btrfs generation is not behind the volume's. `tv` is the tracked entry, `op` the operation
the actor runs, one step per effect: snapshot, parent recovery, send, append, rotate;
fetch and replace, finish; transfer snapshot, move. A write may be marked (FileOps)
or not (a pod that writes to the mount). The walks along parent pointers (`Ancestry`,
`Missing`, `Downloaded`) are recursive functions. In `Rotate` each deletion may fail, and
the rename of the pending snapshot works, falls back to a copy, or fails, after which the
entry tracks `@pending` under the new hash. `misled` observes the two ways in which the
entry becomes wrong (`EntryRight`): a discovery that pairs a layer with another hash, and
a rename that did not work; the properties say what holds before. `Moved` continues the model on the node the volume was moved to.

### VolumeHub

`reg` and `lease` are the registry entry, lost by `HubRestart`; `man` and `tomb` are
in the store. `op[n]` is the operation of a node's actor: waiting for the lease,
leased, between GET and PUT of the manifest, releasing. A holder stops renewing when
a renewal fails or it learns of a revocation, and runs on. `DeleteVolumeFromNode` is
one step per call it makes, in its order; its untrack waits behind the node's
operation. `EnsureCached` is modelled for callers without candidates, one call at a
time. `NodeDown` is a node that dies or one that only cannot be reached. `excused`
records that a running operation lost its lease, or that a manifest was misread:
the two cases in which nothing in the code protects the manifest.

## 3. Runs

Passing runs:

| Run | Instance | Shows |
|---|---|---|
| `lease` | 2 processes, 2 faults, fairness | `TermsExclusive`, `CurrentTermHeld`, `CronFenced`, `ImplementsContract` (refinement of `LeaseContract`), `LeaseLostStandsDown`, `FailoverCompletes` |
| `intents` | 2 processes, 1 intent, 2 attempts, 1 fault, fairness | `MutatedByRecorder`, `RecordedUnderLease`, `IntentsSettle` |
| `redis_safety` | 3 processes, 5 acquire attempts | `TermsUnique`, `KeyKeptWhileLeading` |
| `run` | 2 jobs at a time, 2 deliveries, 1 request, 1 user, 1 fault, fairness | `WaitingHasRequest`, `SucceededMeansCompleted`, `RunningEnds`, `WaitingEnds` |
| `admission` | 3 dispatches, a child, its parent and an uncapped automation, 1 fault, symmetry | `CapAccounted`, `RefusedHoldsNothing`, `SlotsAccounted` |
| `events` | 1 leader, gateway, 2 events, 1 fault, fairness | `StampedWasQueued`, `SlotUsedOnce`, `EventsSettle` |
| `k8s_lease` | 3 processes, 3 terms, 2 faults, fairness | `KeptUntilLapsed`, `K8sImplementsContract` (refinement of `LeaseContract`), `K8sFailover` |
| `chat` | 2 tasks, 2 tries, a request that clears the lock, 1 fault, symmetry | `Watched`, `GivenBack`, `RunningHasCause`, `LockKept` |
| `locks` | 2 pods, 3 operations, 3 faults, fairness | `KeysKept`, `SecondLoopStops`, `LoopComesBack` |
| `volume_sync` | consolidation every 2, 2 writes, 3 snapshots, 1 fault, 1 disruption, fairness | `ExactUnlessMisled`, `UndoPointSaved`, `EventuallySaved` |
| `volume_hub` | 2 nodes, 2 snapshots, 1 call, 1 fault, fairness | `HistoryKept`, `DeleteEnds` |

The type invariants are listed where they bound something (counters, stages); those of
the other modules hold on the same instances.

Other instances of the same modules, checked beside the listed runs:

| Configuration (module) | Instance | Shows |
|---|---|---|
| `EventsFailover.cfg` (`EventDelivery`) | 2 controllers, gateway, 1 event, 2 faults, fairness | `StampedWasQueued`, `EventsSettle` |
| `ChatLiveness.cfg` (`MCChatTask`) | 2 tasks, 1 try, a request that clears the lock, fairness | `LockKept`, `LoserStops` |

A run that finds what a comment says violated by the code (finding in `PROJECT.json`,
with the quotation): `run_queued`, `QueuedEnds`. A run deferred under pressure stays
queued, because its retry is a no-op.

Further disagreements between the code and its comments. They are not part of the
listed runs; each configuration reproduces the counterexample within seconds (those with
two properties with `-continue`).

| Configuration (module) | Property | What the code does, and what it says |
|---|---|---|
| `ControllerLeaseSweeps.cfg` (`MCControllerLease`) | `SweepsFenced` | a deposed leader's sweep commits under an old term, because it verifies without `FOR UPDATE`; `heartbeat_sweep.py:88-90`: "a mismatch raises :class:`LeaseLost` so the supervisor stands down without writing under a stale term" |
| `RedisContract.cfg` (`MCRedisLease`) | `RedisImplementsContract` | Redis grants term 2, then term 1; `lease/__init__.py:49-50`: "``term`` is monotonically increasing across acquires of the same name" |
| `RunOrphans.cfg` (`MCAutomationRun`) | `SweepsOrphans` | the sweep expires a run whose worker is executing it; `heartbeat_sweep.py:6-8`: "a row whose ``heartbeat_at`` is older than ``stale_seconds`` is by definition orphaned" |
| `RunExpired.cfg` (`MCAutomationRun`) | `ExpiredRetried` | an expired run is never retried: the dispatcher tests *terminal* before *retryable*; `heartbeat_sweep.py:23-24`: "The re-enqueued worker flips status back to ``queued``" |
| `RunApprovals.cfg` (`MCAutomationRun`) | `GateHasRequest` | a run that a tool gate stopped waits without a request, so nothing can answer, resume or expire it; `worker.py:2103-2107`: "Hand the AutomationRun off to the approval queue", and "the existing approval-resume path can flip it back to ``running`` when the operator unblocks it" |
| `RunApprovals.cfg` (`MCAutomationRun`) | `ResolvedOnce` | a request is resolved twice; `routers/automations.py:1895-1896`: "Concurrent resolutions are guarded by the ``resolved_at`` IS NOT NULL check" |
| `RunParallel.cfg` (`MCAutomationRun`) | `SingleExecution` | two jobs that read `failed_preflight` both requeue and execute; `dispatcher.py:854-856`: "the upsert branch table guarantees we never re-execute work that's already in flight or terminal" |
| `AdmissionRollOver.cfg` (`MCRunAdmission`) | `CountersRollOver` | midnight between EXISTS and INCRBY of a refund leaves a counter without a TTL, which keeps its value for ever; `budget.py`: "TTL = end of day UTC so the counter naturally rolls over without needing a cron sweep" |
| `EventsAcked.cfg` (`EventDelivery`) | `AckedDelivered` | a retried webhook is answered 202 as a replay of an event that was marked failed; `app_triggers.py:540`: "so the caller's retry loop converges" |
| `EventsBlocked.cfg` (`EventDelivery`) | `BlockedOwnerNotFired` | the gateway's scheduler fires triggers of blocked owners, which `cron_producer.py:241-243` excludes |
| `VolumeRediscovered.cfg` (`VolumeSync`) | `RestoreExact` | after a rediscovery the newest layer on disk and HEAD may be different snapshots, and the next incremental restores to garbage; `sync/daemon.go:284-285`: "content-addressed hashes, so any is fine; we just need one" |
| `VolumeMoved.cfg` (`VolumeSync`) | `MoveKeepsWrites` | a write after the transfer snapshot is on neither node after the move, as `FileOps` does not pass through the actor; `sync/daemon.go:1590-1591`: "no FileOps writes can interleave with the snapshot — preventing data loss during migration" |
| `VolumeTombstone.cfg` (`VolumeHub`) | `TombstoneUntilClean` | the first node that cleans up removes the tombstone while another still has a copy; `volumehub/server.go:1334-1335`: "every node's discoverVolumes will see the tombstone and clean up locally" |
| `ChatSettles.cfg` (`MCChatTask`) | `HandoverTaken` | a superseded task leaves the status to a successor that has returned already, or returns before it writes one; `worker.py:1726-1727`: "exit quietly — the new task owns DB/stream state now" |
| `ChatSettles.cfg` (`MCChatTask`) | `ChatSettles` | for that reason, or because a job's timeout or a shutdown comes between the commit of `running` and the loop's `try`, the chat stays `running` without a task, and undo and compact answer 409; `worker.py:2157`: "Finalize stale in_progress placeholder message and reset chat status" |
| `ChatHeal.cfg` (`MCChatTask`) | `HealsWhatItSaw` | the request that clears a cancelled task's lock reads the holder again, and cancels the task that took over meanwhile; `routers/chat.py:2430-2431`: "Self-heal zombie locks: if holder is cancelled, release it" |
| `ChatStatus.cfg` (`MCChatTask`) | `OwnerShownRunning` | a task that read the holder just before a takeover, or whose preparation fails, overwrites the new owner's status; `worker.py:1887-1888`: "The new owner already set status="running"; we must not flip it back" |
| `ChatCap.cfg` (`MCChatTask`) | `CapRespected` | two requests count before either reserves, and exceed the cap; `concurrency_limits.py:72`: "then atomically reserve a slot" |
| `LocksLoop.cfg` (`MCDistributedLock`) | `OneLoop` | a pod that has lost its connection for a moment takes the lock without asking (`acquire`, no client); `distributed_lock.py:12`: "Only one pod runs this loop at a time" |
| `LocksRelease.cfg` (`MCDistributedLock`) | `ReleasesItsOwn` | an operation that outstayed its TTL deletes the key of the next operation of its pod; `distributed_lock.py:49-50`: "released atomically with a Lua script that checks ownership" |

**Bounds.** Two processes are enough for every pair of leader and deposed leader;
two faults allow a lost answer or late renewal followed by a crash; the safety part
is proved for any number of both. Two jobs at a time with two deliveries give a
dispatch beside its duplicate, its agent task or its resume; a second pause
while the first answer is still under way takes two requests, and is covered by the
proofs for any number. `MaxRetries`, `MaxDefers`
and `MaxAttempts` (3, 3 and 5 in the code) are small so that their exhaustion is
reached; nothing else depends on their values. Admission: a cap of the family that
two runs exhaust, three dispatches so that one is refused while another rolls back.
Events: two events give a batch of which one fails and a cron event beside a webhook;
two controllers give a sweep beside a drain; the product of both (over 2 million
states) was only explored in part. Kubernetes: three processes, so that a deposed leader's late
write meets two successors. Chat: two tasks give a takeover and two tries a retry beside
the task that took over; with two faults the safety properties were checked without
requests, and the liveness needs an instance of its own without symmetry. Locks: two operations in one pod and one in another. Volumes: three snapshots with an interval of 2 give
an incremental before and after a consolidation; one fault and one disruption are a
crash in or beside any operation. `VolumeHub`'s invariants were also checked by hand
with two calls at a time. Processes may stop, events and snapshots run out and runs
end, so deadlock is not checked.

**Fairness.** Lease: a started supervisor keeps taking steps; acquire, renew and
release are strongly fair because Postgres queues waiters for the row lock; an
abandoned lease expires; signals and faults are never owed. Intents: the reconciler
loop keeps ticking and a call it waits for returns, with the success or error
outcome (conflicts are bounded by `MaxFaults`, as the code does not count them: an
endless run of 409s would keep an intent pending). Runs: workers finish jobs
(`worker_job_timeout`), ARQ hands out queued jobs, the leader's sweeps keep running
(`FailoverCompletes`); users and event producers owe nothing. Events: controllers
finish what they began, and the drain comes back every cycle, so it gets rows that are
free again and again; time passes; workers take jobs. Kubernetes: as for the
lease; the supervisor stands down when the lease is another's. Chat: the heartbeat beats (every 10 s, a third of the
TTL), the agent keeps producing events, so that a task looks at its flag again and again;
that an agent ever ends by itself is not assumed. Locks: `run_with_lock` never returns,
connections come back, keys that nobody renews expire. Volumes: the actor's goroutine,
the ticker and the discovery run, a queued sync is received. Hub: a deletion's goroutine
runs, leases expire and are reaped, renewals are attempted every ten seconds; a waiting
operation asks every half second and so gets a lease that is free again and again
(strong fairness). No failure is ever owed.

**Mutants.** Every property of a passing run has a plausible mistake, defined just
before the definition it replaces and marked `Mistake`, that violates it.

## 4. Proofs

Every invariant, action property and refinement that a passing run checks is a theorem.
Everything is proved for any sets of processes, jobs, users, requests, tasks, pods,
events, automations and nodes, any limits and any number of faults, deliveries, writes
and snapshots. The named assumptions are those of the modules: `None`, `NoProcess`
and `Nobody` are none of the other values, bounds are naturals, and

* `MaxAttemptsAssumption`: at least one attempt (`IntentReconciler`);
* `AdmissionAssumption`: finitely many dispatches (the theorems count them), a parent has
  no parent (`ck_automation_definitions_depth_range`), a run costs something and the pool
  has a slot;
* `LockAssumption`: pods and operations are different things, and each operation is in
  one pod;
* `HubAssumption`: at least one node, on which the volume was created.

The arguments have one shape: an inductive invariant, stated beside the properties in
the component's module and checked with TLC on a small instance before it was proved;
a lemma per action, or class of actions, that it is preserved; the properties as its
consequences. What follows says for each why the property alone is not inductive.

`ControllerLeaseProofs`. `LeaseInv` is inductive (`LeaseInvariant`): types; no token
is newer than the row (`TokensNotAhead`); only leaders tick; a cron transaction that
has verified keeps the row locked and its term current (`VerifiedKeepsLock`); and
the properties. `TermsExclusive` alone is not inductive: a fresh term is new only
because no token is ahead of the row. `CronFenced` needs the lock to exclude every
acquire between verify and commit. Theorems: `TypeCorrect`, `ExclusiveTerms`,
`CurrentTermIsHeld`, `CronIsFenced`, and `RowImplementsContract` (initial states and
every step map to `LeaseContract`).

`AutomationRunProofs`. `RunInv` is inductive (`RunInvariant`). `WaitingHasRequest`
alone is not: a user who loaded an open request while the run was queued could
resolve it without writing the status. The strengthening
`WaitingHasFreshRequest` says that, while the run waits, some open request has only
been loaded by users who saw it waiting; a pause always brings a request nobody has
loaded, and resolving a fresh one always leaves the status. A tool gate brings none: it
ends the claim (`WaitsForAnswer`) for the run it stops, and the next status write
clears it.
`LoadedExist` (only existing requests are loaded) makes "nobody has loaded it" true
of a new one. The proof groups actions by what they write: `RowWrites`, `JobWrites`,
`SweepWrites`, `BeatWrites` type the writes; `RowStep`, `WorkerStep`, `PauseStep`
carry the invariant over classes of steps; `DispatchStep`, `TaskStep`, `QueueStep`,
`RespondStep`, `SweepStep` cover the actions. Theorems: `RunTypeCorrect`,
`WaitingRunsHaveRequests`, `SuccessIsEarned`.

`LeaseBackendProofs` is about the three places a lease or a lock is stored in. It extends
the three modules, which have no name in common.

* *Redis lease.* `RedisInv` is inductive (`RedisInvariant`): types, `TermsUnique`,
  `KeyKeptWhileLeading`, and `RedisNumbers` (issued terms come from the counter and are
  positive for whoever is not idle, and so is the term in the key). A SET NX that
  succeeds finds no key, so every other leader's term has lapsed; a release deletes
  only what compares equal, which another leader's key never does. Theorems:
  `RedisTermsUnique`, `RedisKeyKept`.
* *Kubernetes lease.* `K8sInv` is inductive (`K8sInvariant`). `KeptUntilLapsed` says
  nothing about a process that has read the object and not yet written: `ReadsCurrent`
  says what such a process knows as long as no write came between (an acquire saw the
  stored term and a lease it may take, a renewal or release saw its own term), and
  `NotFreshIsFree` that a lease with an old renew time was given back or has really
  lapsed. The API server's refusal of an old `resourceVersion` is the whole argument: a
  write takes effect only for a member of `current`, and then `ReadsCurrent` describes the
  object it replaces. Theorems: `K8sKeptUntilLapsed`, `K8sLeaseImplementsContract`.
* *Locks.* `LockInv` is inductive (`LockInvariant`): the scripts compare the pod in the
  value, while `KeysKept` is about operations; `KeyOfSetter` relates the two, so that a
  key found to be another pod's is no key of an operation here. Theorem: `LockKeysKept`.

`ControllerLeaseProofs`, second part (it extends `IntentReconciler`). `IntentInv` adds to
`LeaseInv`: an open record transaction is a leader's and locks the lease row under its term
(`RecorderLocks`); a recorded intent carries a granted term that nobody but its recorder
holds (`TermIsRecorders`); what a tick works on was read from the table with attempts left
(`BatchIsRecorded`). `MutatedByRecorder` alone is not inductive: the code compares terms, not
processes, and a term stands for its recorder only because terms are exclusive for ever,
which needs `LeaseInv`, and because the row cannot change hands while a record transaction
is open. Theorems: `OnlyRecorderMutates`, `IntentsRecordedUnderLease` (an action
property), and `RowImplementsContractWithIntents`, as the row has a second kind of
transaction that locks it.

`RunAdmissionProofs`. `AdmissionInv` is inductive (`AdmissionInvariant`), in three parts
proved one beside the other. *The ledger*: `CapAccounted` counts, per counter, the
dispatches that hold a debit, so a debit must be new and a refund must be of something
held; a counter that is gone carries no debit (`AbsentHoldsNothing`). *The loops*:
`LoopIndex` and `DebitsInLoop` relate the loop variables of `allocate_run_budget` to what
is held, the members the debit loop has passed and the refund loop has not;
`RefusedHoldsNothing` is their value where the refund loop ends, and that a chain never
names an automation twice makes every debit new. *The pool*: `TokensHeld` says at which
points a dispatch has a slot, so that an INCR adds a member to the set that
`SlotsAccounted` counts and a DECR removes one. The counting steps are lemmas on
cardinalities of finite sets. Theorems: `AdmissionTypeCorrect`, `CapIsAccounted`,
`RefusalIsClean`, `SlotsAreAccounted`.

`EventDeliveryProofs`. `EventInv` is inductive (`EventInvariant`). `StampedWasQueued` alone
is not: the stamp comes a commit after the enqueue, from the handler's memory;
`DoneWasQueued` says of the drain's list and of the webhook's event that the job is already
on the queue. `ClaimHoldsLock` (a tick that has claimed the trigger keeps its row locked and
its slot due) is what the action property `SlotUsedOnce` needs: the claim and the event are
separate steps, and only the lock keeps the other scheduler from the same slot. Theorems:
`EventTypeCorrect`, `StampsAreEarned`, `SlotsUsedOnce`.

`ChatTaskProofs`. `ChatInv` is inductive (`ChatInvariant`). `StoppedOrBeating` is `Watched`
without its condition on the lock, since a task may lose the lock by a step of another;
`HolderReleases` (the key names a task that will still release it) is behind `GivenBack`,
`SlotsOfAdmitted` behind its part about slots. `RunningHasCause` needs to know that an
outcome belongs to the present attempt (`AttemptIsFresh`), or a retry would inherit a
handover, and that a superseded task has given up the observer (`SupersededLeft`), so
that its silent `finally` takes nothing back. Theorems: `LosersAreWatched`,
`LockAndSlotGivenBack`, `RunningIsAccountedFor`, and the action property `LiveLockIsKept`.

`VolumeHubProofs`. `HubInv` is inductive (`HubInvariant`). `HistoryKept` alone is not: an
append is a GET and a PUT, and the PUT may write back what was read before another node's
append. `BaseCurrent` says that what was read lacks nothing acknowledged; it survives other
steps because `RunnerHolds` (whoever runs holds the lease, not revoked and not expired)
leaves room for one runner. Both are claimed until `excused`: after a running operation
has lost its lease, or a manifest was misread, the code has nothing that protects the
manifest. `AppendsTaken` types what an append carries, `RestoresOnNode` the node an
`EnsureCached` waits for. The proof takes the conjuncts one at a time, each over all
actions, grouped by what they leave unchanged. Theorems: `HubTypeCorrect`,
`AcknowledgedIsKept`.

`VolumeSyncProofs`. `SyncInv` (`Sound` until the tracked entry has been left wrong, `misled`) is
inductive (`SyncInvariant`). `RestoreExact` alone is not: whether the next snapshot
restores depends on what the daemon believes about its disk. Its parts:

* `ManifestSound`: a blob is full, or the difference to what its *recorded* parent holds,
  and parents are older;
* `DiskSound`: a layer, under the hash in its name, holds the data of that snapshot;
* `TrackingSound`: the hash tracked beside a subvolume is the one in its name
  (`Describes`), and a volume tracked as clean whose generation has not moved is saved
  (`CleanIsSaved`), which lets `RestoreToSnapshot` skip the undo point;
* `SyncSound`: the pending snapshot is the one the operation took, the blob is the
  difference to the chosen parent, and the rotation finds HEAD at what was sent;
* `RestoreSound`: the target is in the manifest and the undo point saved.

A send against a subvolume then records a hash that stands for the same data, and that
is what a restore applies the blob to. What the recursive walks compute is proved without
induction over data: `Recursion` shows that a function defined along older parents exists
(`AncestryUnfolds`, `MissingUnfolds`, `DownloadedUnfolds` unfold the three walks once),
and `OldestFirst` that a property of all snapshots can fail only at one whose parent is
right, both from the least element of a set of naturals (`Least`, from the library's
`WFMin`). `DownloadExact` is the result: on a disk whose layers hold what their names
say, a download gives the data of the snapshot. Theorems: `RestoresExactly`,
`UndoPointIsSaved`.

Two steps can break `TrackingSound`: `Discover`, and a `Rotate` whose rename fails or falls
back to a copy (`DiscoverSound`, `RotateSound`: if the entry they leave is right, the rest
is too). After that `RestoreExact` may fail (`VolumeRediscovered.cfg`). `ManifestOrdered`
says what survives: `OrderInv` (parents are older, HEAD and every tracked hash are of the
manifest) is inductive over all steps, so a wrong restore is the worst: no walk meets a
cycle or leaves the manifest.

Only model-checked:

* all liveness: fairness and `ENABLED` are out of TLAPS's reach;
* `VolumeSync`'s `TypeOK`, which also bounds the list of names by the cardinality of the
  disk; what the proofs need of the types is in `SyncInv` and `OrderInv`;
* the violations, which are counterexamples.

## 5. Seen while modelling

Behaviour of the code that the models contain and no property forbids:

* `deallocate_run_budget` and the budget extension have no caller outside the tests: a
  debit of a finished run stays until midnight.
* A webhook or drain enqueue that raises after the job was put marks the event failed
  although it runs.
* The slot of a task that could not be enqueued stays reserved until it ages out; a task
  retried after a shutdown runs without one.
* `run_with_lock` releases the lock when the loop raises, but the loop's task is awaited
  only after a failed renewal, so otherwise the exception never arrives there: the key,
  renewed once more, waits for its TTL.
* The lock of a project (`acquire_project_lock`) is never acquired.
* `K8sLease` increments `leaseTransitions` itself, although its docstring leaves that to
  the API server.
* `SyncVolume` on a volume without an actor tracks it without its history, so that the
  next snapshot is a full one, or one against the template.
* `downloadLayer` receives under the name `@pending` and deletes what has that name: a
  parent recovered in the middle of a sync removes the snapshot being sent, and the
  sync fails and is repeated.
* A restore to the template makes the shared template the tracked layer; the next
  rotation, or an untrack, deletes it.
* A node without the template on which a tracked parent is lost can never sync again;
  `EventuallySaved` leaves that out, and says so.
* A pending snapshot that could not be renamed is the tracked layer, and the next sync
  deletes and takes it again as its own parent; a copy made instead of a rename is newer
  than an unmarked write it does not have, which then looks saved. `misled` names both.
* `UntrackVolume` drops whatever actor the map holds when it is done, also one of a
  volume tracked again meanwhile.
* `DrainAll` looks at the dirty flags only, not at the generations.
* With HEAD at the template and snapshots in the manifest the restore chain is empty
  and `RestoreVolume` refuses.
* `handleAppendSnapshot` does not check the lease, and counts any read error as "no
  manifest": the next PUT then starts a new history (`excused`).
* `ForceReleaseLease` clears the lease of whoever holds it by then.
* `RebuildRegistry`, and `SetOwner` at the end of a restore, register volumes that
  have been deleted meanwhile; `EnsureCached` checks the tombstone before it registers.

## 6. Not modelled

* Workflow engine (multi-step automations) and checkpoints: planned below.
* The supervisor with a lease store that the SQL fences do not read: with the Redis or
  Kubernetes backend nothing writes `controller_leases`, and every fenced stage stands
  down (`controller_main.py:203`).
* Of the chat: the stream of events and its replay, approvals in a chat, the legacy
  project lock.
* Of the storage: creation and forks of volumes, bundles, templates, branches, cache
  eviction, garbage collection of blobs, placement by resources, the CSI and gRPC layers;
  in the fallback of a failed rename, a deletion of `@pending` that fails too (the next
  sync deletes it).
* Compute orchestration, snapshots of compute pods, the AST worker pool, `tsinit`:
  candidates.
* Other routers, marketplace, billing, apps, SDKs, agent loop, front end, desktop:
  CRUD, integration, I/O or user interface, no shared protocol state of their own. They
  are most of the repository's lines, so the models cover a small share of it.

## 7. Plan

1. *Done*: `LeaseContract`, `ControllerLease`, `IntentReconciler`, `RedisLease`,
   `AutomationRun`, `RunAdmission`, `EventDelivery`, `KubernetesLease`, `ChatTask`,
   `DistributedLock`, `VolumeSync`, `VolumeHub`; proofs of the safety properties of all of
   them, and of the refinement of `LeaseContract` by the database and the Kubernetes
   lease.
2. The supervisor with a lease store the SQL fences do not read
   (`controller_main.py:203`).
3. *Workflow engine*: step rows and resumption of multi-step automations.
