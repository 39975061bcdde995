# A TLA+ model of the Archestra backend's shared work

Archestra's backend (`src/platform/backend`) keeps almost everything it does
outside a single request in PostgreSQL rows that several replicas work on at
once: a task queue, the runs of connectors that ingest documents, the passes
that reconcile document permissions, the chat runs whose streams outlive their
client, the leases under which MCP servers are put to sleep and woken on
Kubernetes, the triggers that start agents on a schedule. The rows carry leases,
attempts, fencing epochs and checkpoints; processes die between any two statements; every replica runs the same sweeps.
This directory models that part, checks it with TLC, and proves some of it with
TLAPS. Paths below are relative to `src/platform/backend/src`
unless they begin with `src/`.

## Inventory

| Component | State | Operations | What is hard |
|---|---|---|---|
| Task queue (`task-queue/task-queue.ts`, `models/task.ts`) | rows of `tasks`; per process `activeTaskIds`, `laneCounts`, `stopping` | enqueue, seed, poll (heartbeat, sweep, dequeue per lane), process, stop | crashes between statements, shutdown during a dequeue, late executions, periodic chains |
| Connector runs (`models/connector-run.ts`) | rows of `connector_runs`: status, lease, epoch, batch and item counters | claim, renew, fenced update, complete a batch, finalize, reap, cancel, supersede | owners that lost their lease, two writers of one counter, once-only accounting |
| Documents sync (`knowledge-base/connector-sync.ts`) | the connector's status and checkpoint, documents | read, claim, batch loop, finish | stale reads, errors half-way, budget stops |
| Embedding (`task-queue/handlers/batch-embedding-*.ts`, `knowledge-base/embedder.ts`) | `embedding_status`, the run's counters | embed, record, finalize | at-least-once delivery, the last batch against the end of the sync |
| Due check (`task-queue/handlers/check-due-connectors-handler.ts`) | - | enqueue due syncs, reap, reconcile statuses, recover documents | racing all of the above |
| Permission sync (`knowledge-base/permission-sync*.ts`, `connector-settings-change.ts`, their handlers) | permission runs and their checkpoints; an audience per container (`kb_container_acls`, with a stale mark), an ACL and a container per document, the connector's ACL epoch | trigger, claim, pass (probe, refresh, mark, enumerate, assign, fail-close, sweep), edit of the settings, supersede, reap, requeue orphans | a settings change during a pass, a source that changes while it is enumerated, resumption, orphan detection, dedupe |
| Schedule triggers (`task-queue/handlers/*schedule-trigger*.ts`, `services/scheduled-run-conversation.ts`, `routes/schedule-trigger.ts`) | triggers with `last_executed_at`, their runs, a run's task and chat conversation | due check, run-now, execute, mark, create and link a conversation, show a run, edit a trigger | three statements without a transaction, re-execution, several creators of one conversation |
| Active chat runs (`services/active-chat-run.ts`, `models/chat-active-run.ts`) | one running run per conversation, event log; per process the ids in flight | create, drain, stop, reap, shut down, replay | five parties that end a run, replay without losing the tail |
| Notification hub (`services/pg-notify-hub.ts`) | waiters, LISTEN connection | notify, wait, reconnect | lost notifications |
| Deployment leases (`models/mcp-deployment-lease.ts`) | lease rows; per call a guard | acquire, renew, fenced mutation, release, wait | paused holders, takeover |
| Hibernation of MCP servers (`k8s/mcp-server-runtime`, `services/mcp-active-use.ee.ts`, the demand path of `clients/mcp-client.ts`) | the Deployment's replicas and annotation, durable sessions, `last_used_at`; per replica the cached state, active calls, wakes in flight | sweep, hibernate, wake, refresh, track demand | a usage read that is old when it is acted on, half-finished wakes, patches against other writers |
| A2A tasks (`models/a2a/task.ts`, `agents/a2a`) | task state, event log, approvals | compare-and-swap transitions, approve and resume, reap | concurrent approvals and cancellation |
| Token refresh (`services/*token*.ts`, `oauth-refresh-replay.ts`) | single-use refresh tokens | refresh, rotate | concurrent rotation |
| Agent runtime, the rest of MCP servers on Kubernetes (`services/agent-runtime`, `k8s`) | deployments and pods | reconcile, create, hard reset | an external cluster |
| LLM proxy, guardrails, MCP gateway, agents and chatops, sandbox, secrets, auth, skills and plugins, retrieval, HTTP routes | per request or pure | - | I/O, text and model calls rather than shared state |
| Frontend, shared package, `archestra-rs`, runtime agent, `ai-labs`, `migration-kit`, `mcp-catalog`, docs, Helm charts, e2e tests | - | - | outside the backend; not modelled |

How they interact: HTTP routes and sweeps insert rows into `tasks`; the queue
calls handlers; `connector_sync` handlers run `executeSync`, which inserts
`batch_embedding` tasks; their handler adds its outcome to the run and, with
the last one, writes the connector and enqueues `permission_sync`; that
handler claims a run of the `permission` family. `check_due_connectors` and
`check_due_permission_syncs` are periodic tasks of the same queue that repair
what crashes leave behind. The chat route creates a run, streams it and stores
its events; every process polls, reaps and replays runs of the others, woken by
the notification hub or a timer. The MCP client stamps a server's demand, asks
the runtime manager to wake it and dispatches the call; the manager's sweep, on
every replica, puts to sleep what nobody uses, and both take the deployment
lease. The due check of the triggers is a periodic task too, and enqueues a task
per due trigger, as run-now does; a run's conversation is created by its handler
or by the first request that shows it.

## Modules

| Module | What it is |
|---|---|
| `TaskQueue` | the queue: table, processes, executions, and the permission runs that hide a task from the orphan requeue |
| `MCTaskQueue` | its instances: kinds of rows, lane caps, fault budgets, symmetry |
| `TaskQueue_proofs` | theorems about `TaskQueue` |
| `TaskQueueService_proofs` | that `TaskQueue` implements `TaskService`, that its lanes are accounted for, that a stop hands its tasks back |
| `TaskService` | the abstract queue: an open task is executed by at most one invocation at a time, as often as it takes, and never again once closed; `TaskQueue` implements it (`Service`, `ServiceSpec`) |
| `TaskService_proofs` | what that specification promises |
| `ConnectorRun` | the documents sync of one connector with its embedding tasks, sweep, cancellation and permission trigger |
| `MCConnectorRun` | its instances |
| `ConnectorRun_proofs` | theorems about `ConnectorRun` |
| `ActiveChatRun` | the chat runs of one conversation: creation, drain, batcher, everybody who ends a run, replay |
| `MCActiveChatRun` | its instances |
| `ActiveChatRun_proofs` | theorems about `ActiveChatRun` |
| `ClusterLease` | one row of `mcp_deployment_leases` and the guards of its holders: the statements as operators, without variables of anybody who works under the lease |
| `Hibernation` | sweep, wake, refresh, calls and the Kubernetes object, composed with an instance of `ClusterLease` |
| `MCHibernation` | its instance |
| `Hibernation_proofs` | theorems about `Hibernation` and the lease under it |
| `ScheduleTrigger` | the tick over the triggers, run-now, the run handler, and the conversation of a run |
| `MCScheduleTrigger` | its instance |
| `ScheduleTrigger_proofs` | theorems about `ScheduleTrigger` |
| `PermissionSync` | the permission-sync pass of one connector, the source it copies, the edits of the connector's settings, the due check |
| `MCPermissionSync` | its instances |
| `PermissionSync_proofs` | theorems about `PermissionSync` |

`ConnectorRun` does not instantiate `TaskQueue`: it assumes of the queue what
`TaskQueue` checks (a task is delivered at least once until it is finished, by
two executions at once only if a process stalls, and a coordinated batch is
recorded before it is dead). `PermissionSync` assumes the same of its tasks, and
of the orphan requeue what `TaskQueue` says of it. The refinement states the part of it that holds
without stalls: `ServiceSpec` is the implication's conclusion, checked where
neither a stall nor a shutdown with a task in flight occurs, and proved for every
queue of that sort (`ServiceImplemented`). With either, a row may have two
executions and the queue promises less.

### TaskQueue

Every SQL statement is one action, and so is every stretch of code between two
awaits. A row `task[r]` has the columns the code decides by; its `status`
"deleted" stands for a deleted row.

| Code | Model |
|---|---|
| `enqueue`, `TaskModel.create` | `Enqueue` |
| `seedPeriodicTasks`, `startWorker` | `Boot` (the existence check), `Seed` (the insert) |
| `doPoll`: `renewHeartbeats`, `resetStuckTasks`, the lanes | `PollBegin`, `Sweep`/`SkipSweep`, `RescheduleSwept`, `Dequeue`, `LaneDone` |
| the answer of a dequeue: `trackTask`, then `processTask`, or `releaseToQueue` when stopping | `Start`; `StartStopped`, `GiveBack`, `Drop` |
| `processTask` | `Handle` or `Claim`/`ClaimBusy`/`PassEnds`, `Complete`, `Throw`, `Record`, `Fail`, `Reschedule`, `Finally`, and `...Throws` where a statement can fail |
| `stopWorker` | `Stop`, `DrainTimeout`, `ReleaseRemaining`, `Exit` |
| death of the process | `Crash` |
| `requeueOrphanedPermissionSyncTasks`, `reapExpiredRuns`, `supersedeRunningForConnector`, `deleteQueuedForConnector` | `RequeueOrphans`, `ReapRun`, `Supersede`, `DeleteQueued` |

`poll[w]` and `exec[e].pc` are program counters: where `doPoll` of a process
and where a handler invocation is. `fetched[w]` is what a dequeue returned
before it is tracked. `active` and `slots` are `activeTaskIds` (which is also
the key set of `taskLane`) and `laneCounts`.

Time is abstract. `due`, `stale` and `aged` say that `scheduled_for` has
passed, that there was no heartbeat for five minutes (`task-queue.ts:496`), that the task was dequeued
longer ago than the orphan grace. They become true only when the timing the
code relies on permits it: a row that some process holds does not go stale
unless that process stalls (a fault), because the tick that renews it comes
sixty times more often; a task ages past the orphan grace only in its pass.

### ConnectorRun

| Code | Model |
|---|---|
| `executeSync`: read the connector, claim | `Read`, `Claim`, `ClaimBusy` |
| `runClaimedSync`: credentials, "running" | `Refuse`, `Announce` |
| the loop: renew, ingest, enqueue, fenced progress, checkpoint | `Renew`, `Ingest`/`IngestFails`, `EnqueueBatch`, `Flush`, `Checkpoint` |
| its ends: budget, nothing to embed, draining, error | `StopEarly`, `FinishEmpty`, `FinishDraining` and `FinalizeIfComplete`, `Throw` and `Fail` |
| the connector update and `enqueuePermissionSyncAfterContentSync` | `Mirror`, `Trigger`, `QueuePass` |
| `handleBatchEmbedding` | `Deliver`, `Load`, `Embed`, `Store`, `Record` (`completeBatch`), `Finalize`, `Done`, `HandlerThrows`; `Bury` is the record `processTask` makes of an exhausted batch |
| heartbeat and lease | `Beat`, `LeaseLapses` |
| `reapExpiredRuns`, `markReapedStatusIfCurrent` | `Reap`, `MarkReaped` |
| `reconcileOrphanedConnectorStatuses` | `Reconcile` |
| `recoverStalledEmbeddings` and its enqueue | `Recover`, `Requeue` |
| the cancel route | `Cancel`, then `Purge` and `MarkCancelled` in either order |

Runs are numbered in the order of `started_at`, and run ids are not reused. A
batch of the source is one document, known by its position; the checkpoint is
the last position read. Item counters are kept as "any errors", which is what
the statuses depend on; whether each position was counted is in the history
variable `missed`. A lease is a Boolean that lapses only when nobody beats, or
by a stall. The epoch is bumped by `Reap` and `Cancel` as in the code; both
also end the run, so in this part of the system the epoch never decides a
fence that the status does not.

### ActiveChatRun

| Code | Model |
|---|---|
| `POST /api/chat`, `createRun` with its one retry after a conflict, `registerCreatedRun` | `Post`, `Insert`, `Conflict`, `ReapFirst`, `Register`; `Begin` or `SetupFails` |
| `drainStreamToEvents`: read, write, flush, wait | `Read`, `Continue`, `MarkChunk`, `EndOfStream`, `ReadStatus`, `Mark`; `StreamFails`, `DrainThrows`, `MarkThrows`, `Catch`, `Salvaged` |
| `ActiveChatRunEventBatcher`: timer, flush chain, `appendEvents` | `FlushTimer`, `Flushed`, `AppendBatch`, `AppendFails` |
| `requestStop`, `startStopPolling`, `cancelRunForRestoredConversation` | `RequestStop`, `PollStop`, `Restore` |
| `markStaleRunningAsFailed`, `deleteTerminalOlderThan`, deletion of the conversation | `GoStale`, `Reap`, `DeleteRows` |
| `gracefulShutdown`, `beginShutdown`, `failInFlightRuns` | `BeginShutdown`, `FailInFlight`, `Exit` |
| death and restart of a process | `Crash`, `Boot` |
| `findReplayableByConversation`, `createReplayStream`, `readStatusAndEventsAfter` | `Attach`, `Look` (one snapshot per turn) |

A chunk is its position in the stream, so a gap, a repetition or a swap shows
in the log. `stream[r].pc` is where the request and its drain are; `batch[r]` is
the batcher, with `pending` chunks and the `chain` of flushes not yet appended.
`verdict` is the status the drain has read and not yet written. A notification
only shortens a wait that has a timeout, so a turn of a waiter is one action
that may come at any time; that none needs to arrive is what `ReplayEnds` and
`StopObeyed` say.

### ClusterLease and Hibernation

| Code | Model |
|---|---|
| `tryAcquire`, `isHeld`, `withLeaseWhenAvailable` | `Acquire`, `Held`; `WakeAcquire` (polls until its time is up), `SweepAcquire` (gives up at once) |
| `assertOwned`, the renewal timer, `throwIfLost` | `Assert`, `Renewal`, tests of `guard` |
| `runFencedMutation` | `Fence` or `FenceLost`, the work under the row lock, `Commit` or `Rollback` |
| release in `withLease`'s `finally` | `Release`, `ReleaseFails` |
| `hibernateIfIdle`, `hibernateUnderTransitionLease` | `SweepPick`, `SweepRead`, `SweepCheck`, `SweepFence` ... `SweepEnd` |
| `K8sDeployment.hibernate`, `beginWake`, `completeWake`, `transitionWrite` | `SweepLook`/`WakeRead` (read and shape check), `SweepPatch`/`WakePatch` (patch under the version read), `SweepCommit`/`WakeCommit` |
| `refreshState`, `deriveDeploymentState` | `Observed`; `Refresh` and `RefreshPatch` (the self-healing `completeWake`, outside the lease) |
| `wakeDeployment` | `WakeLook` ... `WakeAssert`; `WakeSettle` is the shared promise |
| `trackActiveUse`, `stampAwaited`, `ensureAwake`, `waitForMcpServerWake` | `Arrive`, `Stamp`, `EnsureAwake`, `Outcomes`, `GiveUp`, `Connect`, `Finish` |
| the error answer of `runDemandPath`, and its client | `Answered`; `Repeat`, `Abandon` |
| pods, `kubectl scale`, time, death | `BecomeReady`, `Operator`, `GoIdle`, `Expire`, `Crash` |

`obj` is the Deployment as the code distinguishes it: replicas at least one
(`up`), our annotation (`marked`), an available pod (`ready`). `current` is the
set of writers whose `resourceVersion` is still the object's: a read adds to
it, an accepted write empties it. A holder of the lease is one `withLease` call
of a sweep or a wake. `fresh` says that `last_used_at` lies within the idle
window and its grace; it becomes false only while nobody who stamped is on the
way, which is what the heartbeat and the length of the window (its floor of two
minutes and the grace, against a transition deadline of 120 s) give. Assumed
besides: heartbeats reach the database, and a Kubernetes request of a dead
process does not land after its lease has expired and been taken over. An
attempt abandoned at its deadline has only fenced writes left, or the refresh's
patch, which is modelled.

How a wake ends, for the calls that wait for it (`wake[p].end`, `Outcomes`):

- "ok": they go on to the pod. That includes a wake whose look found the
  deployment half awake and available, and whose `completeWake`, inside
  `refreshState`, got no answer or lost its lease: the exception is swallowed, the
  state is cached as pending (`k8s-deployment.ts:5366-5376`), and `wakeDeployment`
  takes a pending deployment as one that needs no wake
  (`hibernation.ee.ts:391-394`). A lost lease is noticed by the next
  `throwIfLost` or `assertOwned`; a patch without an answer is not, and the calls
  reach a pod that serves and still carries the annotation. The refresh removes it.
- "retry", an `McpServerWakeError`: the wait for readiness or for the lease is
  used up, or `completeWake` was superseded. `waitForMcpServerWake` enters again
  while its reply budget lasts (`mcp-client.ts:5386-5402`).
- "raised", anything else, such as a lost lease or a patch that got no answer: the
  call is answered with the error at once.

A call also stops waiting when its reply budget is used up (`GiveUp`); the wake
goes on. The budget is 30 s by default, the lease lasts 60 s, the wait for
readiness 22 polls of 2 s, a whole transition 120 s. So the lease of a dead
holder outlives the wait of a call, and so may a pod that starts: in these states,
and where another replica's wake waits for such a pod, `GiveUp` is free
(`LongWait`); elsewhere it is a fault. The answer tells the client to retry or
that retrying may work (`describeWakeFailure`), and what the model calls a call
is what the client makes of it: one that is answered with an error may be
repeated, at whichever replica, until it is given up. A repetition comes within
the idle window of the last stamp; a later one is a new call.

The durable sessions that the clean-up after a hibernation deletes are left out;
what it may do to them is told below.

### ScheduleTrigger

| Code | Model |
|---|---|
| `handleCheckDueScheduleTriggers`: `findDueTriggers`, `findActivePayloadValues` | `FindDue`, `FindBusy` |
| its loop: `create` of the run, `markCompleted` of one that is skipped, `markExecuted`, `enqueue`, the catch | `StartDue` or `CannotStart`, `Skip`, `Advance`, `Enqueue`, `TickThrows`; `TickEnds`, `TickDies` |
| `POST .../run-now` | `RunNow`, `EnqueueNow`, `RunNowFails` |
| disable, soft deletion of the project or the agent; enable; `ProjectModel.restore`; delete | `Suspend`, `Resume`, `Restore`, `Delete` |
| `createAndLinkRunConversation` | `Create`/`CannotCreate`, `Link`, `Drop`, `Resolve`, `CreateThrows` |
| `ensureRunConversation` of the route | `Open`, and the same steps by a viewer |
| `handleScheduleTriggerRunExecution` | `Load`, `LoadTrigger`, `Execute`, `Mark`, `HandlerThrows` |
| the queue, as the run's task sees it: `dequeue`, `complete`, `fail`, `resetStuckTasks` | `Deliver`, `Done`, `Failed`, `Sweep` |

Time counts the minutes at which the cron fires, so a trigger is due when its
`last_executed_at` is an earlier minute. A run's row is its number, in the order
of insertion; a deleted one keeps its fields with the status "gone", and nobody
who looks finds it. A task is the one of its run. `complete` and `fail` go by
the task's id alone, as in `TaskQueue`, so an execution that stalled past the
sweep ends a task that others execute or have ended; `late` records that this
brought a finished task back. `hand[a]` is an execution of the handler or a
request that shows a run, with the conversation that it has created or been
given. The tick is one execution at a time: it is a periodic task with one row
(`OnePeriodicRow`), and a tick that stalls past the sweep's five minutes beside its
successor is not modelled.

### PermissionSync

| Code | Model |
|---|---|
| `handlePermissionSync`, `executePass`: read the connector, claim, adopt a checkpoint | `Start`, `Claim`, `ClaimBusy` |
| `runClaimedPass`: probe and mode, first checkpoint | `Begin` (`ModeFor`, `ScopeFor`, `Decide`) |
| `refreshStoredContainerAudiences` of a delta | `Refresh` (what the source answers), `Rewrite` (the fenced write) |
| `markStaleByConnector` | `Mark` |
| the loop over `syncPermissionSnapshot` | `Yield`, `Exhaust`; `Upsert` (`upsertContainers`) |
| the end of a unit: `assertStillOwnsRun`, `flushAssignments`, `failCloseMissingInScope`, `checkpoint` | `AssertStillOwnsRun`, `Assign` (one document each), `FinishUnit` |
| `sweepVanishedContainers`, the sweep of unassigned documents | `Sweep`, `Drop` |
| `finishSuccessfulPass`: the fenced end, `permissionSyncState` | `Finalize`, `Publish` |
| the catch, the continuation of the handler | `Throw`; `LeaseLostError` is the branch of each fenced write that leaves |
| `reapExpiredPermissionRuns`, `requeueOrphanedPermissionSyncTasks`, the due loop | `Reap`, `RequeueOrphan`/`RequeueLive`, `Schedule` |
| `PUT /api/connectors/:id`, the bulk update, the MCP tool | `Submit` (`Surface` says which), then `Bump`, `Overwrite`, `Clear`, `Supersede`, `Enqueue` as far as each goes |
| the source: an audience, a document's place, a container | `Share`, `Move`, `Delete` |
| death of a worker | `Crash` |

What an audience says is its `version` in the source and the version `held` in
the row; `stale` is the set of marked rows. A document's `acl` is the token of
its container (`key[d]`), empty, or a connector-level one. There are two fences:
`Owns` (the run is running under this pass's lease epoch), of audiences, checkpoints
and the end, and `Current` (the connector's ACL epoch is the one the pass read), of
document ACLs. A checkpoint is a cursor, `Nowhere` without one, -1 if there is
none. A delta's scope is an arbitrary set of containers, because what a probe
finds is lossy and the documents no pass has placed add theirs. A pass forced to be full is one
whose probe answers "full"; a failed probe ("blind") makes the pass full but
leaves the probe's state as it was. A unit's documents are one batch. `chain` is
a history variable: what the pass in hand, with the interrupted ones it
resumes, has been able to do undisturbed.

Left out: group memberships and their sweep, users granted on a document itself,
containers nested in others, ingestion (every document is there from the start)
and the collection of unassigned documents it calls for, the enabled flag, the
status mirrored on the connector, an audience that could not be read, chunks
(one statement writes them with their document), probes with an authoritative
journal. The resume budget and the retry of an audience refresh are choices.
Settings are edited by one request at a time, which runs to its end: two
concurrent ones compare with the row each read at its start, so a visibility may
be written by both and refreshed by neither's, and a late `deleteByConnector` drops
rows a newer pass has written; the model excludes that rather than judging it.

## Runs

All bounds are constants named in the modules. In `TaskQueue` the faults are a
budget per kind (`Faults`), elsewhere a set of kinds with one budget
(`MaxFaults`).

| Run | Bounds | Question |
|---|---|---|
| `queue_crash` | 2 processes, 2 executions at once, a batch row and 3 ids of a periodic type, 1 slot per lane, 1 attempt, 1 crash and 1 failing complete, record, fail or reschedule | do rows and executions stay consistent, and is the queue a `TaskService`? |
| `queue_permission` | 2 processes, 2 executions at once, 2 slots per lane, 1 permission row, 2 attempts, 1 stop, 1 stall, 1 supersede or deletion | does a lane keep its cap, and is nothing left behind, through double executions, shutdown, orphan requeue and deletion? |
| `queue_live` | 1 process, a batch row and 2 ids of a periodic type, 2 attempts, 1 crash, fair | is every task finished, and the periodic task executed for ever? |
| `connector_safety` | 2 syncs and 2 embedding handlers at once, 2 runs, 3 embedding tasks, 2 batches of the source, 1 fault of any of 7 kinds | counts, statuses, checkpoint, fencing |
| `connector_live` | 1 sync, 1 handler, 2 runs, 3 tasks, 1 batch, 2 crashes or cancellations, fair | do runs, statuses and documents settle? |
| `chat_safety` | 2 processes, 2 runs of 2 chunks (one with an error chunk), batches of 2, 1 reader, 1 fault of any of 6 kinds | are rows well-formed, and a finished replay whole? |
| `chat_live` | 2 processes, 1 run of 4 chunks with an error chunk in third place, 1 reader, 3 faults, fair | log order, the one end of a run, stops, shutdown; do runs and replays end? |
| `hibernation` | 2 replicas, 1 call made and repeated at will, 1 fault of any of 6 kinds, fair | is no call put to sleep under, does it get through, does an idle deployment sleep? |
| `schedule` | 1 trigger of a project, 2 minutes, 2 runs, 2 executions, 1 viewer, 2 conversations, 2 attempts and 3 deliveries, 2 faults, edits or manual runs | does a minute start the agent once, has a run one conversation, does no finished task leave its run running? |
| `permission_safety` | 1 container, 1 document, 1 visibility besides auto-sync, 2 passes at once, 2 events of any of 6 kinds (source, deletion, edit by REST or bulk, crash, stall, error) | do the newest settings win over late passes, does a revocation stick? |
| `permission_live` | 2 containers, 1 document, 2 passes, 1 event of any kind, fair | is an undisturbed success worth its name, and does everything come to agree? |
| `permission_tool` | 1 container, 1 pass, 1 edit by the MCP tool | do the newest settings win there too? (no) |

Why the bounds are enough. The protocols relate a row to its previous and its
next holder, so two processes and two executions show every pair. A finished
periodic row nobody refers to is never read again, and its id may be given to
the next one, so the endless chain is finite without cutting it; it takes one
id more than there can be executions of it. Likewise the finished tasks of the
recovery sweep. One fault at every point already gives the crash, stall or
error between any two statements; the liveness run of the connector has two so
that a recovery may be hit as well. Two runs let a late owner meet its
successor. With one attempt in `queue_crash` the exhausted path is taken at
once; `queue_live` has the retry. Two chat runs show a conflict, the reaping
before the retry and a replay that goes on to the next run; one longer run has
a full batch, an error chunk and a tail behind it, and three faults put a stop,
a failing statement and a crash or shutdown in one history. In `hibernation` the
one call is made again and again, at either replica, and the two replicas' sweeps,
wakes and refreshes give six writers of the object. A fault is a kind and a place;
the replicas are interchangeable and one fault occurs, so it occurs at the first
of them. The theorems hold for any number of calls and faults. In `queue_permission`
a slot more than a single row needs lets a process dequeue the row that it still
executes. In `schedule` the second minute may come at any
point of the first one's tick or execution; two executions and a viewer are
three creators of one conversation; a third delivery is the one that a late
failure adds. Two faults put a stall and the failure of the stalled execution in
one history. The tick does not start once every run has been used. In the permission
runs every event but a failed probe may meet a pass at every of its statements;
two events over one container put a stall or crash and a change or edit into one
history, two containers give a pass that is resumed in the middle. Deadlock is
checked in every run but those of the chat runs, where every run may be over and
every reader closed, `schedule`, where time and runs are used up, and the
permission runs, where a connector that has left auto-sync has nothing to do.

Fairness is stated per action (`Fairness` in each module). A process that is
down is restarted by its supervisor; its timer fires; promises settle; handlers
return or throw; time passes. The stuck sweep runs on a tick once a minute, so
`Sweep` is strongly fair against the ticks that skip it. `LaneDone` is strongly
fair because a scan takes milliseconds and periodic rows come due half a minute
apart. In `ConnectorRun` delivery, the reaper, reconciliation and recovery are
strongly fair: each is retried by a periodic task, whose endless execution is
`PeriodicForever` of `queue_live`. In `ActiveChatRun` the drain's own steps are
weakly fair but the model's stream is not: a stream that is wedged goes stale
and is reaped; the reaper is strongly fair over all processes together, since
each has one on a timer. In `Hibernation` sweeps and refreshes are on timers and
pods start; `WakeAcquire` is strongly fair because a wake polls every 50 ms for
a lease that is free again and again; a call that was answered with an error ends
when the idle window passes without its repetition. In `PermissionSync` executions go on,
requests end, tasks are dequeued, the due check is a periodic task, and the last
full reconcile grows a day old; a connector in follow-documents mode has no
`Schedule` and depends on its syncs instead. Nothing forces a new sync, a request, a
call or a fault.

What the passing runs show:

- `OnePeriodicRow`, `ChainAlive`, `PeriodicForever`: a periodic type has one
  active row, and its chain breaks only between statements of a process that
  dies, to be seeded again at its restart.
- `BatchOutcomeKept`: an embedding task of a run never ends unrecorded.
- `LaneWithinCap`: a running process never has more handlers of a lane than its
  cap. The hard case is a row that comes back, after a stall or a superseded
  run, to the process that still executes it: it is tracked twice and untracked
  once (`task-queue.ts:299`). The price is paid on the safe side, but it is paid:
  the lane has a slot less for the life of the process, and once the first
  execution has untracked the row nobody renews the heartbeat of the second, so
  that "its own healthy tasks can never look stale to its own sweep"
  (`task-queue.ts:225-226`) fails. The model has both.
  That without stalls no row is executed twice at once is part of `ServiceSpec`.
  After a drain timeout or a stall a row can have two executions, and since
  `complete` and `fail` go by the id alone the later one rewrites what the
  earlier one finished.
- `HandedBack`: an orderly shutdown leaves nothing to the stuck sweep, also when
  the process executes a row twice.
- `CountedOnce`, `CompleteMeansDrained`, `ErrorsKept`: a run's counters equal what
  is stamped, it is complete only when drained, and green only when no error was
  reported to it, in whichever order sync and handlers write. A green run's
  documents need not all be embedded; item 3 below has the case.
- `NoSilentLoss`: the checkpoint passes only documents that are stored or
  counted as errors.
- `EndedStaysEnded`: nothing rewrites the end of a run.
- `RunsEnd`, `StatusSettles`, `EventuallyEmbedded`: after crashes and
  cancellations the sweeps bring everything to an end.
- `ServiceSpec`: with crashes and failing statements, but no stall, the queue
  implements the abstract service.
- `LogInOrder`, `ReplayWhole`: the log is a prefix of the stream
  whoever flushes and whatever fails; a replay closed on a completed run has shown all of it.
- `TerminalStays`, `ShutdownLeavesNothing`, `StopObeyed`, and in this module
  `RunsEnd` and `ReplayEnds`: a run ends once, an orderly shutdown ends all its
  runs (but those whose own last UPDATE failed), a stop reaches the stream
  across processes, and no wait depends on a notification.
- `NeverUnderCall`, `OneFence`: no hibernation lands under a call that was let
  through, whatever the age of the sweep's readings, because the readings, the
  patch and every wake are ordered by the lease and its row lock.
- `NoOrphan`: no write of ours leaves a zero that nobody may wake.
- `CallGetsThrough`: no call waits for ever. Even when the lease's holder died over
  a half-woken deployment it is dispatched in the end, at once or when its client
  repeats it after an error, unless it is given up, refused or dies. One wait
  need not be enough: the lease of a dead holder outlives it.
- `IdleSleeps`: a deployment without demand sleeps in the end, also one that was
  left half awake.
- `FiresOnce`: a tick that dies or fails anywhere is repeated without starting
  the same minute's agent again, because `last_executed_at` moves before the task
  is enqueued, and never over an earlier firing that is still in the queue,
  although the tick asks only once, for all its triggers, what is in flight.
- `OneConversation`: of the creators of a run's conversation one is linked, the
  others drop theirs, and an agent works in the linked one only.
- `NoneLeftRunning`: whoever completes a run's task, the run has ended.
- `NewestConfigWins`: when an edit to a connector-level visibility has ended,
  every document has it, whatever passes were in flight, superseded or not.
- `RevocationSticks`: a stored audience is never replaced by an older one, although
  a pass may lose its run at any point, and two passes may run at once.
- `Reconciled`: a delta that nothing disturbed leaves no audience out of date; a full
  pass, alone or as the last of a chain of resumed ones, leaves every document
  where the source has it, and nobody reads what the source has no more.
- `EventuallySynced`: when source, settings and workers come to rest, the documents
  agree with them, and a pass that succeeded had read the newest settings. The
  dedupe after a settings change may find the superseded pass's own task and
  queue nothing; the due check makes up for it.

What those of `schedule` do not claim, and the model shows: the agent may be
executed twice (after a crash before `markCompleted`, or beside an execution that
stalled); a run whose INSERT was followed by a crash or an error before its task
was enqueued stays "running" for good, as does one whose task dies without
reaching `markCompleted`, since nothing reaps these runs; an execution that was
stalled, swept and outlived, and then fails, puts the finished task back in the
queue, possibly beside the next minute's (`FiresOnce` excepts it by name);
`markExecuted` writes the tick's own `now`, so it takes `last_executed_at` back
if the project was restored meanwhile.

What those of `PermissionSync` do not claim, and the model or the source shows:

- `Reconciled` and `EventuallySynced` except a document by name (`Forgotten`): if
  a connector leaves auto-sync and comes back, `Clear` has dropped its container
  rows, and a container deleted in the source meanwhile is neither enumerated nor
  marked; its documents have a container_key, so the unassigned sweep
  (`permission-sync.ts:918-930`) does not see them either, and they keep the ACL
  of the former visibility for good. Without the exception, TLC finds it with one
  container, one execution and three events. The comment of the route says the switch "fail-closes the
  whole corpus" (`routes/knowledge-base.ts:1836`); the refresh before it does
  nothing for auto-sync.
- The documents of a connector that comes back keep the former visibility until a
  pass reaches their container; if the source does not change, that may be the
  next full one.
- Marks and their sweep (`Mark`, `Drop`) are not fenced: a pass that lost its run
  before either marks or deletes rows under its successor. A live container's row is
  rewritten by a later full pass.
- A pass that resumes the checkpoint of an interrupted delta counts as full, skips
  the marking (`resumeCursor !== null`, line 795), and stamps the full
  reconcile (466-475); what the delta's scope had left out is not swept until the
  next one. `Reconciled` speaks only of chains that began as what they ended as.

## Where code and documentation disagree

One statement of the repository has a run that ends in a counterexample;
`PROJECT.json` quotes it with its lines. `permission_tool`: the MCP tool that
updates a connector writes the visibility and refreshes the documents without
bumping the ACL epoch (`archestra-mcp-server/knowledge-management.ts:1319`), as
`PUT` and the bulk update do (`routes/knowledge-base.ts:1827`, `2032`), and which
`models/knowledge-base-connector.ts:421-424` says is done whenever the visibility
changes; a pass in flight then writes over the new ACLs. Its run is
superseded afterwards, but documents are fenced by the epoch alone.

Three more were met in counterexamples of earlier instances of these modules, and
remain behaviours of the models, without a run of their own:

1. Superseding a permission run exposes its task, still executing, to the orphan
   requeue (`models/task.ts:229`), against lines 199-202 there. `PermissionSync`
   has it as `RequeueLive`.
2. A permission run started during a documents sync counts as the newer run for
   the drain finalizer, which then neither mirrors the status nor triggers the
   pass (`batch-embedding-finalizer.ts:34`), against
   `permission-sync-trigger.ts:12-19`.
3. A retried embedding task skips the documents its first attempt left in
   processing or failed (`embedder.ts:193`) and records a clean batch, against
   `batch-embedding-handler.ts:36-37`: "processDocuments records per-document
   failures itself; a throw here is an unexpected fault (e.g. the database is down)
   - let the task queue retry it." In the model: `Deliver`, `Load`, `Embed`, then
   `HandlerThrows` or a crash; `Deliver`, `Load`, which finds nothing pending,
   `Record` without a failure, `Done`. The run ends in success over a document in
   processing. `recoverStalledEmbeddings` finds it later (`EventuallyEmbedded`),
   but the run stays green. `ErrorsKept` therefore speaks of the errors that were
   reported, not of the documents.

A fourth is outside the model, which has no sessions: the clean-up after a
hibernation keeps the gate "until all stale session/client state is gone. A demand
waiter cannot create a new session that this cleanup then deletes"
(`hibernation.ee.ts:763-764`). The DELETE is sent after a `throwIfLost` that only
reads what the renewal timer has noticed, and it is not a fenced mutation: a
replica that is paused between the two for longer than its lease deletes the
session of the next wake. The client then has to initialise a new one.

One more limit shows when a passing run's bounds are changed, and bounds what it
claims. With one failing statement,
`PeriodicForever` fails: a reschedule INSERT that throws is logged, and nothing
re-creates the chain until a worker boots (`task-queue.ts:464`); `queue_live`
therefore has a crash but no failing statement, and `ChainAlive` says
nothing once a statement has failed.

Noted while reading, without a run: `connector-sync.ts:109-110` says `claim()`
reclaims an expired run, which `connector-run.ts:148-152` says it does not;
`check-due-connectors-handler.ts:67-75` says the lease is renewed while
draining, which `batch-embedding-handler.ts:18-23` says it is not;
`permission-sync.ts:323-326` says every access-granting write carries the run's
fence, but `applyContainerAssignment` carries the ACL epoch only; lines 1040-1044
there say a stale row is rewritten even by a delta, which `clearsStaleMarks` of
line 1204 prevents unless its audience changed; in
`active-chat-run.ts:268` a run marked terminal by an error chunk is still appended
to, which a replay that closed on the terminal snapshot misses, against
`chat-active-run.ts:203-206`; showing a run while it executes can store a part of
its transcript (`scheduled-run-conversation.ts:267`), after which the handler's own
store does nothing; in `pg-notify-hub.ts:303` the delivery probe of a replaced connection clears the
probe of its successor before it finds out that it was replaced.

## Proofs

`TaskQueue_proofs` proves four invariants of `Spec` for all constants that
satisfy the four assumptions `TaskQueue` states (`KindAssumption`,
`LaneCapAssumption`, `MaxAttemptsAssumption`, `FaultsAssumption`): any sets of
workers, rows and executions, any kinds, caps, attempts and fault budgets.

- `TypeCorrect`: `TypeOK`. One lemma per group of actions
  (`WorkerStepType`, `ExecStepType`, `RowStepType`, `ConnectorStepType`), over
  lemmas on the row operators and the process memory. Its inductive form
  `Typed` adds that each process tracks finitely many tasks, so that the number
  `untrackTask` subtracts is a natural number.
- `OnePeriodicRowHolds`: at most one active periodic row. It is not inductive:
  a late `Failed` could put a finished row back to pending beside its
  successor. It cannot because a periodic task has one attempt and every
  execution carries an attempt of at least 1, so its `fail` is always the
  exhausted one: `PeriodicInv` adds `AttemptCounted`, which says so of
  executions and of fetched rows, from what a dequeue returns. Every other
  UPDATE moves a row that was active already (`PeriodicStep`), and the guarded
  INSERT keeps the invariant (`InsertKeepsOne`).
- `BatchOutcomeKeptHolds`: a finished batch row is recorded. `BatchInv` adds
  `OutcomeFirst`: an execution of a batch row about to complete it, or about to
  fail it with its attempts exhausted, has its outcome recorded already. The
  stamp is never lost (`BatchForward`: a batch row is recorded for ever, or
  deleted for ever), so the claim survives every step of everybody else.

- `ChainAliveHolds`: while every process is up and no statement has failed, a
  periodic row is active or an execution or a poll is about to insert its
  successor. It assumes that there is a process and a periodic type, without
  which there is no chain. `ChainInv` says what the property leaves out: who
  holds the chain while a process is down, seeding or stopping (`ChainHeld`).

`TaskQueueService_proofs` goes on from what a step can do to a row
(`RowStepHistory`: nothing, an enqueue, a dequeue, a settlement by its own
execution, or a statement of somebody else that takes the row back) to the
results about who has a row in hand.

- `ServiceImplemented`: `Spec => ServiceSpec`, where no process stalls or stops
  (`Calm`), no permission run is superseded and there are no permission rows.
  The hypotheses name the real exceptions: a row whose owner stalls for five minutes,
  or whose shutdown times out, is given to a second execution while the first
  goes on; deletion closes a row under its execution; and the orphan requeue
  looks at the permission run, not at the execution. Without them `CalmInv` says
  that a row fetched or executed is processing and fresh, by one execution, so
  no sweep takes it and only its execution ends it; every step of the queue is
  then `Idle`, `Submit`, `Begin`, `GiveUp` or `Close` of each task. Crashes,
  failing statements, sweeps and reschedules are all in it.
- `LaneWithinCapHolds`, under no hypothesis: caps of any size, the code's two
  content slots, one permission slot and four system slots among them
  (`config.ts:3549-3560`, `task-queue.ts:500`), and every fault. `SlotsInv` says
  that a lane's executions in a process are at most its slots, and the slots at
  most the cap. An execution adds one to both; `untrackTask` takes one off the
  slots only where the id is still tracked, so when a row has two executions the
  first to end takes itself and a slot off, and the second only itself.
- `HandedBackHolds`, where one stop, no crash and no failing statement occurs;
  stalls, deletions and supersedings may. A crash leaves its rows to the stuck
  sweep by design, a failing release does too, and a second stop may follow one
  that ended with its poll still out. `HandInv`: every processing row is kept
  by a process that tracks it, releases it or has just fetched it (`AllKept`);
  an execution settles its row before it untracks it, and the row cannot be
  taken up in between (`SettledFirst`); and a process that stops empties its
  memory only by releasing it (`StopOK`).

TLC checked these invariants before they were proved: `CalmInv` and `SlotsInv`
on the constants of `queue_crash` (784 699 states), `SlotsInv` and `HandInv` on
those of `queue_permission` (2 500 012 states).

`TaskService_proofs` proves `ServicePromise`: in the abstract queue a closed
task is held by nobody and no task by two. Where `ServiceSpec` holds, the queue
inherits it.

`ConnectorRun_proofs` proves `TypeCorrect`, the four safety invariants
(`CountedOnceHolds`, `CompleteMeansDrainedHolds`, `ErrorsKeptHolds`,
`NoSilentLossHolds`) and `EndedStaysEndedHolds`, for any syncs, handlers, length
of the source, bounds and faults, from `BoundAssumption`. They share `IInv`:

- `RowsOK`: what a run's row says in each status. Its completed count is the
  number of its stamped batches; published totals are the number of its
  batches; drained means that every batch has its outcome; and a row in success
  has neither a missed position nor an error. Each UPDATE is an increment over
  what the row holds, so each conjunct is kept by comparing the row before and
  after one statement, with the batch it stamps.
- `BatchesOK`, `JobsOK`: a handler books on the run of its task, which exists.
- `SyncsOK`, `OwnRuns`: a sync that has claimed is the only one to add batches to
  its run, so the totals it publishes are those of the table, and what it has
  read is stored or missed before its checkpoint moves (`Accounted`).
- `NoSilentLoss` is part of it, since the next sync starts at the checkpoint.

TLC checked `IInv` on two instances (1.43 and 3.64 million states) first.

`ActiveChatRun_proofs` proves `TypeCorrect`, both safety invariants and both
action properties of `ActiveChatRun` (`LogInOrderHolds`, `ReplayWholeHolds`,
`TerminalStaysHolds`, `ShutdownLeavesNothingHolds`) for any processes, runs,
readers, streams, batch size and faults. `ProcAssumption`, that the mark for "no
owner" is not a process, is the one assumption that the proofs needed and the
model did not state. The argument starts with what a step does to one run (`StepOutcome`): it is the run's
own drain or stream, or the process is gone, or the row is removed, or a post
begins, or it comes from outside, and then at most fails or cancels a running
row and aborts the stream. `IInv` has three parts:

- of a run (`RunInv`): what is stored, what each batch of the promise chain
  holds and what is pending are consecutive and end at the chunk last read
  (`Linked`), until the row is deleted or a flush fails, after which nothing
  waits for ever; a drain past its last wait has nothing waiting. So a drain that
  reads "completed" at the end of its stream has stored all of it, and a run is
  completed only by such a drain.
- of a reader (`ReaderInv`): status and events are one snapshot, so what saw
  "completed" has seen the whole log.
- of a process and a run (`OwnedInv`): from its registration on, a running run is
  in its process's memory; once the process shuts down it is in the snapshot,
  or is still being created and will be rejected, or has failed to end.

TLC checked `IInv` on the constants of `chat_safety` (559 510 states) and on one
longer stream with three faults (200 493 states) first.

`Hibernation_proofs` proves four properties of `Spec` for any replicas, any
calls and any faults, from `HibernationAssumption`: `TypeCorrect`,
`OneFenceHolds`, `NeverUnderCallHolds`, `NoOrphanHolds`.
They share one inductive invariant, `IInv`, because the argument is one:

- the lock and the guards: a guard is "fenced" exactly for the holder that has
  the row locked, and then the row is its own (`LockHeld`); each program counter
  has the guard its place in the code implies (`Gates`). This gives `OneFence`.
- a call beyond its stamp keeps the deployment in demand, so it is fresh
  (`Demanded`), and a sweep past its reading of the usage either holds the lease
  it read under or has lost it (`SweptQuietly`, `Quiet`): a call that comes in
  between can only wait, since a wake that reports success asserted the lease
  after the sweep lost it, and a sweep without its lease is fenced.
- a writer whose version is still current read the shape it expected
  (`ReadsHold`), so what its patch leaves is known. This gives `NoOrphan`.

TLC checked `IInv` on the constants of `hibernation` (413 827 states).

`ScheduleTrigger_proofs` proves `TypeCorrect` and the run's three properties,
`FiresOnceHolds`, `OneConversationHolds`, `NoneLeftRunningHolds`, for any
triggers, executions, viewers, bounds and faults, from `ScheduleAssumption`.
They share the inductive invariant `IInv`, since each rests on what the rows
keep (`RunsKept`: a run never changes its trigger, kind or time, never runs
again, and never changes the conversation it is linked to; `TasksKept`):

- time (`TimeOK`, `PastOK`, `AheadOK`): a due run that was enqueued is not later
  than its trigger's `last_executed_at`, so it is earlier than the `now` of a
  tick that found the trigger due; and once the tick knows who is busy, the
  triggers it has yet to enqueue have no live task, because only the tick adds
  one for the cron (`NoneQueued`, `DueKept`). `Enqueue` then adds a run that is
  later than all others and alone in the queue (`EnqueueLast`).
- hands (`HandsOK`, `ChatsOK`): what an actor that has yet to link or drop holds
  is its own conversation and nobody else's (`MineKept`), and one that executes
  holds the conversation its row names; so a conversation is named by its run,
  held by its creator, or stray.
- an execution about to complete its task has seen its run ended
  (`Holds`, its last conjunct), and a run never runs again.

`PermissionSync_proofs` proves `TypeCorrect` and all three safety properties, for
any executions, containers, documents, visibilities and bounds, from
`PermissionAssumption`:

- `NewestConfigWinsHolds`, with the assumption that the MCP tool is not a
  surface, which `permission_tool` shows is needed. `EpochInv`: no pass is ahead
  of the connector's ACL epoch; once an edit to a connector-level visibility has
  bumped it, every pass is behind, because a new one does not start there; and
  once the documents are overwritten they keep that visibility, since a pass
  that is behind writes no document (`PassModest`).
- `RevocationSticksHolds`. `HeardInv`: what is stored and what a pass has heard
  are versions the source has had; the owner of the run has heard nothing older
  than what is stored; and a pass has heard nothing before it claims. Only the
  owner stores (`StoreKeeps`), and hearing again is hearing the newest
  (`HearKeeps`).
- `ReconciledHolds`. `ChainInv` follows the one pass that owns the run while
  `chain` is set. `Shapes`: where the unit that is open, the container that was
  yielded and those to come can be at each program counter, so that the keys
  rise. `FullInv`: what a full pass has behind it is `Done` (the audience stored as it
  is, its documents placed, those that left closed), the rows of containers
  that are gone are marked, and the same holds up to the checkpoint (`UpTo`), so
  it survives a throw, a crash, the reaper and the claim that resumes it
  (`Checkpointed`); when nothing is to come, the sweep leaves `InSync`.
  `DeltaInv`: once a delta has heard the stored audiences again, none is old.
  The steps of other passes either write nothing, being fenced, or set `chain`
  back (`OtherChain`, `WroteChain`). That `Drop` leaves nobody a reader does not
  rest on the fail-close of `Sweep`: a document whose container has no row is
  not readable whatever its ACL.

TLC checked `ChainInv` on the constants of `permission_live` (245 635 states) and on
one execution with three containers and two documents (1 632 239 states) first.

Only model-checked: all liveness (the prover has no rule for fairness or
ENABLED). Every safety and action property of a passing run is proved, under
hypotheses that the run's constants satisfy. No proof uses induction over data.

## Not modelled

In `TaskQueue`: tasks without a registered handler (they fail as a throwing
handler does), deletion of retired periodic types at boot, the index that makes
plugin syncs single-flight, and the exact choice of the oldest row by `dequeue`
(left open, since SKIP LOCKED may pass over it). In `ConnectorRun`: connector
deletion and the superseding of content runs, provisional unavailable items,
reconcile scopes, changed documents, ACLs, embedding that is not configured,
image chunks, the resume budget (a new sync may start at any time) and cron
schedules; counting the connector's documents is part of `FinishEmpty`. In
`ActiveChatRun`: `waitForTerminal`, the compaction of replayed payloads, the
chunks' contents. In `Hibernation`: creation, removal and hard reset of a
deployment, foreign replica owners, several installs of one deployment, an
admission webhook that strips annotations (`not-persisted` and its undo), failed
pods, sessions and their clean-up, the state generation that orders a process's own refresh and transition,
credential draining, and the organisation's toggle, which stays on. In
`ScheduleTrigger`: cron expressions and time zones, what a conversation says and
its backfill, the sync of a run's artifacts, deletion of a run's chat by its user,
lists and edits that do not switch a trigger. In `PermissionSync`: see its
section. Other
components and the reasons are in `PROJECT.json`.

## Plan

Done: 1. `TaskQueue`, `TaskService` and the refinement; 2. `ConnectorRun`;
3. `ActiveChatRun`; 4. `ClusterLease` and `Hibernation`;
5. `ScheduleTrigger`; 6. `PermissionSync`.

Next, in this order:

7. `A2ATask`: compare-and-swap transitions, approvals that resume once.
8. In `PermissionSync`, groups and documents that are ingested during a pass, and
   two edits at once.
9. The hard reset as a third holder of the lease in `Hibernation`.
