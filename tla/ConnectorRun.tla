---------------------------- MODULE ConnectorRun ----------------------------
(***************************************************************************)
(* The documents sync of one connector: the connector_runs rows with their *)
(* lease and fencing epoch, the loop that reads the source batch by batch  *)
(* and advances the connector's checkpoint (executeSync), the embedding    *)
(* tasks it leaves behind and the handler that records their outcome on    *)
(* the run, the sweep that reclaims dead runs, cancellation, and the       *)
(* permission pass that a completed sync triggers.                         *)
(*                                                                         *)
(* Every SQL statement is one action.  Runs are numbered in the order of   *)
(* started_at.  A batch of the source is one document, known by its        *)
(* position; the checkpoint is the last position read.  How the queue      *)
(* delivers an embedding task is module TaskQueue's subject: here a task   *)
(* is delivered at least once, and again after a crash or a throw.         *)
(***************************************************************************)
EXTENDS Integers, FiniteSets

CONSTANTS
    Sync,      \* invocations of executeSync alive at once
    Job,       \* invocations of handleBatchEmbedding alive at once
    MaxRuns,   \* bound: runs that are ever started, of both families
    MaxBatch,  \* bound: embedding tasks that are ever enqueued
    SourceLen, \* batches the source has to offer
    Faults,    \* sorts of faults the environment injects
    MaxFaults  \* bound: faults that are ever injected, of any sort

Run == 1..MaxRuns
Batch == 1..MaxBatch
Position == 1..SourceLen
Proc == Sync \cup Job
FaultKind == {"crash", "stall", "error", "item", "cancel", "budget",
              "permission"}

ASSUME BoundAssumption == {MaxRuns, MaxBatch, SourceLen, MaxFaults} \subseteq Nat
ASSUME FaultAssumption == Faults \subseteq FaultKind
ASSUME ProcAssumption == Sync \cap Job = {}

VARIABLES
    run,        \* run[k]: row k of connector_runs
    connector,  \* last_sync_status, last_sync_at, checkpoint of the connector
    doc,        \* doc[p]: embedding_status of the document at position p
    batch,      \* batch[b]: a batch_embedding row of the tasks table
    proc,       \* proc[p]: an invocation on some worker's stack
    sweep,      \* the check_due_connectors tick between two statements
    route,      \* the cancel request: its run, its statements still to come
    permission, \* permission_sync tasks queued
    missed,     \* history: missed[k], the positions that failed within run k
    faults      \* how many faults are still to be injected

vars == <<run, connector, doc, batch, proc, sweep, route, permission, missed,
          faults>>

Drained == {"success", "completed_with_errors"}
Terminal == Drained \cup {"no_documents", "failed", "partial", "cancelled"}
Family == {"none", "content", "permission"}

(* lease_expires_at > now() is `leased`; item_errors > 0 is `errors`. *)
RunRow == [family : Family, status : {"absent", "running"} \cup Terminal,
           leased : BOOLEAN, epoch : 0..1, total : Nat, completed : Nat,
           errors : BOOLEAN]
NoRun == [family |-> "none", status |-> "absent", leased |-> FALSE,
          epoch |-> 0, total |-> 0, completed |-> 0, errors |-> FALSE]

(* last_sync_at is the started_at of run `at`, or (0) another instant. *)
Connector == [status : {"never", "running"} \cup Terminal, at : 0..MaxRuns,
              checkpoint : 0..SourceLen]

DocStatus == {"missing", "pending", "processing", "completed", "failed"}

(* Run 0 is a task of the recovery sweep, without run bookkeeping. *)
BatchRow == [status : {"absent", "active", "done", "deleted"}, run : 0..MaxRuns,
             pos : 0..SourceLen, recorded : BOOLEAN, failed : BOOLEAN]
NoBatch == [status |-> "absent", run |-> 0, pos |-> 0, recorded |-> FALSE,
            failed |-> FALSE]

SyncPC == {"claim", "announce", "renew", "ingest", "enqueue", "flush",
           "checkpoint", "stop", "finish", "check", "failing"}
JobPC == {"load", "embed", "store", "record", "bury", "finalize", "done"}
SharedPC == {"idle", "mirror", "trigger", "queue"}

(* `batches`, `errs` and `out` are batchCount, the item counts not yet     *)
(* flushed, and the status about to be mirrored on the connector.          *)
Process == [pc : SyncPC \cup JobPC \cup SharedPC, run : 0..MaxRuns,
            epoch : 0..1, pos : 0..SourceLen, batches : Nat, errs : BOOLEAN,
            out : {"none"} \cup Terminal, batch : 0..MaxBatch]
Idle == [pc |-> "idle", run |-> 0, epoch |-> 0, pos |-> 0, batches |-> 0,
         errs |-> FALSE, out |-> "none", batch |-> 0]

TypeOK ==
    /\ run \in [Run -> RunRow]
    /\ connector \in Connector
    /\ doc \in [Position -> DocStatus]
    /\ batch \in [Batch -> BatchRow]
    /\ proc \in [Proc -> Process]
    /\ sweep \in [pc : {"idle", "mark", "requeue"}, at : Nat]
    /\ route \in [run : 0..MaxRuns, todo : SUBSET {"purge", "mark"}]
    /\ permission \in Nat
    /\ missed \in [Run -> SUBSET Position]
    /\ faults \in Nat

---------------------------------------------------------------------------
(* Derived state *)

At(p, pc) == proc[p].pc = pc
Running(k) == run[k].status = "running"
RunningOf(family) == \E k \in Run : Running(k) /\ run[k].family = family
Content(k) == run[k].family = "content"
BatchesOf(k) == {b \in Batch : batch[b].run = k /\ batch[b].status # "absent"}
ActiveTask(b) == batch[b].status = "active"

(* The fence of every write of a sync: still running, at its own epoch. *)
Owned(p) == /\ Running(proc[p].run)
            /\ run[proc[p].run].epoch = proc[p].epoch

(* hasPendingOrProcessing("permission_sync"). *)
PassQueued == permission > 0 \/ RunningOf("permission")

UnusedRun == {k \in Run : run[k].status = "absent"}

(* A finished task of the recovery sweep is forgotten: nothing counts it.  *)
UnusedBatch == {b \in Batch : \/ batch[b].status = "absent"
                              \/ /\ batch[b].run = 0
                                 /\ ~ActiveTask(b)
                                 /\ \A p \in Job : proc[p].batch # b}

Least(S) == CHOOSE i \in S : \A j \in S : i <= j

Spend(f) == f \in Faults /\ faults > 0 /\ faults' = faults - 1
Set(p, r) == proc' = [proc EXCEPT ![p] = r]
Goto(p, pc) == Set(p, [proc[p] EXCEPT !.pc = pc])
Leave(p) == Set(p, Idle)

Started(family) == [NoRun EXCEPT !.family = family, !.status = "running",
                                 !.leased = TRUE]
Ended(k, status) == [run[k] EXCEPT !.status = status]
Fenced(k, status) == [Ended(k, status) EXCEPT !.epoch = @ + 1]

Init ==
    /\ run = [k \in Run |-> NoRun]
    /\ connector = [status |-> "never", at |-> 0, checkpoint |-> 0]
    /\ doc = [p \in Position |-> "missing"]
    /\ batch = [b \in Batch |-> NoBatch]
    /\ proc = [p \in Proc |-> Idle]
    /\ sweep = [pc |-> "idle", at |-> 0]
    /\ route = [run |-> 0, todo |-> {}]
    /\ permission = 0
    /\ missed = [k \in Run |-> {}]
    /\ faults = MaxFaults

---------------------------------------------------------------------------
(* executeSync: claim the run *)

(* The connector is read, checkpoint included, before the run is claimed. *)
Read(p) ==
    /\ At(p, "idle")
    /\ Set(p, [Idle EXCEPT !.pc = "claim", !.pos = connector.checkpoint])
    /\ UNCHANGED <<run, connector, doc, batch, sweep, route, permission, missed,
                   faults>>

Claim(p) ==
    /\ At(p, "claim")
    /\ ~RunningOf("content")
    /\ UnusedRun # {}
    /\ LET k == Least(UnusedRun)
       IN  /\ run' = [run EXCEPT ![k] = Started("content")]
           /\ Set(p, [proc[p] EXCEPT !.pc = "announce", !.run = k])
    /\ UNCHANGED <<connector, doc, batch, sweep, route, permission, missed,
                   faults>>

(* A running run holds the slot, whatever its lease (or MaxRuns is met). *)
ClaimBusy(p) ==
    /\ At(p, "claim")
    /\ RunningOf("content") \/ UnusedRun = {}
    /\ Leave(p)
    /\ UNCHANGED <<run, connector, doc, batch, sweep, route, permission, missed,
                   faults>>

(* Credentials cannot be resolved: the run fails, and so does the          *)
(* connector, whoever owns the run by then.                                *)
Refuse(p) ==
    /\ At(p, "announce")
    /\ Spend("error")
    /\ run' = IF Owned(p)
              THEN [run EXCEPT ![proc[p].run] = Ended(proc[p].run, "failed")]
              ELSE run
    /\ Set(p, [proc[p] EXCEPT !.pc = "mirror", !.out = "failed"])
    /\ UNCHANGED <<connector, doc, batch, sweep, route, permission, missed>>

Announce(p) ==
    /\ At(p, "announce")
    /\ connector' = [connector EXCEPT !.status = "running", !.at = proc[p].run]
    /\ Goto(p, IF proc[p].pos < SourceLen THEN "renew" ELSE "finish")
    /\ UNCHANGED <<run, doc, batch, sweep, route, permission, missed, faults>>

---------------------------------------------------------------------------
(* The batch loop *)

Renew(p) ==
    /\ At(p, "renew")
    /\ IF Owned(p)
       THEN /\ run' = [run EXCEPT ![proc[p].run].leased = TRUE]
            /\ Goto(p, "ingest")
       ELSE /\ Leave(p)
            /\ UNCHANGED run
    /\ UNCHANGED <<connector, doc, batch, sweep, route, permission, missed,
                   faults>>

Here(p) == proc[p].pos + 1

(* ingestDocument writes the document, or finds it unchanged. *)
Ingest(p) ==
    /\ At(p, "ingest")
    /\ IF doc[Here(p)] \in {"missing", "failed"}
       THEN /\ doc' = [doc EXCEPT ![Here(p)] = "pending"]
            /\ Goto(p, "enqueue")
       ELSE /\ Goto(p, "flush")
            /\ UNCHANGED doc
    /\ UNCHANGED <<run, connector, batch, sweep, route, permission, missed,
                   faults>>

(* Mutant: the failed item is logged, not counted. *)
IngestFails_Uncounted(p) ==
    /\ At(p, "ingest")
    /\ Spend("item")
    /\ missed' = [missed EXCEPT ![proc[p].run] = @ \cup {Here(p)}]
    /\ Goto(p, "flush")
    /\ UNCHANGED <<run, connector, doc, batch, sweep, route, permission>>

(* ingestDocument throws: an item error, and the loop goes on. *)
IngestFails(p) ==
    /\ At(p, "ingest")
    /\ Spend("item")
    /\ missed' = [missed EXCEPT ![proc[p].run] = @ \cup {Here(p)}]
    /\ Set(p, [proc[p] EXCEPT !.pc = "flush", !.errs = TRUE])
    /\ UNCHANGED <<run, connector, doc, batch, sweep, route, permission>>

NewBatch(k, pos) ==
    /\ UnusedBatch # {}
    /\ batch' = [batch EXCEPT ![Least(UnusedBatch)] =
                    [NoBatch EXCEPT !.status = "active", !.run = k, !.pos = pos]]

EnqueueBatch(p) ==
    /\ At(p, "enqueue")
    /\ NewBatch(proc[p].run, Here(p))
    /\ Set(p, [proc[p] EXCEPT !.pc = "flush", !.batches = @ + 1])
    /\ UNCHANGED <<run, connector, doc, sweep, route, permission, missed, faults>>

(* Mutant: the item counters are set, not added to. *)
Counted_Absolute(p, r) == [r EXCEPT !.errors = proc[p].errs]

(* The counters that go with a fenced write of the sync: increments. *)
Counted(p, r) == [r EXCEPT !.errors = @ \/ proc[p].errs]

(* Progress is written while the run is owned; otherwise the sync stops. *)
Flush(p) ==
    /\ At(p, "flush")
    /\ IF Owned(p)
       THEN /\ run' = [run EXCEPT ![proc[p].run] = Counted(p, @)]
            /\ Set(p, [proc[p] EXCEPT !.pc = "checkpoint", !.errs = FALSE])
       ELSE /\ Leave(p)
            /\ UNCHANGED run
    /\ UNCHANGED <<connector, doc, batch, sweep, route, permission, missed,
                   faults>>

(* setCheckpointIfRunActive; then the next batch, the end of the source,   *)
(* or the end of the time budget.                                          *)
Checkpoint(p) ==
    /\ At(p, "checkpoint")
    /\ connector' = IF Running(proc[p].run)
                    THEN [connector EXCEPT !.checkpoint = Here(p)]
                    ELSE connector
    /\ \/ /\ Set(p, [proc[p] EXCEPT !.pos = @ + 1,
                        !.pc = IF Here(p) < SourceLen THEN "renew" ELSE "finish"])
          /\ UNCHANGED faults
       \/ /\ Here(p) < SourceLen
          /\ Spend("budget")
          /\ Set(p, [proc[p] EXCEPT !.pos = @ + 1, !.pc = "stop"])
    /\ UNCHANGED <<run, doc, batch, sweep, route, permission, missed>>

(* A statement or the source throws inside the loop or after it. *)
Throw(p) ==
    /\ proc[p].pc \in SyncPC \ {"claim", "announce", "failing"}
    /\ Spend("error")
    /\ Goto(p, "failing")
    /\ UNCHANGED <<run, connector, doc, batch, sweep, route, permission, missed>>

---------------------------------------------------------------------------
(* The end of the loop *)

(* updateIfOwned with the totals: the run becomes r and the sync goes on   *)
(* to pc, or the run is no longer owned and the sync stops.                *)
Publish(p, r, pc, out) ==
    /\ IF Owned(p)
       THEN /\ run' = [run EXCEPT ![proc[p].run] =
                          [Counted(p, r) EXCEPT !.total = proc[p].batches]]
            /\ Set(p, [proc[p] EXCEPT !.pc = pc, !.out = out, !.errs = FALSE])
       ELSE /\ Leave(p)
            /\ UNCHANGED run
    /\ UNCHANGED <<connector, doc, batch, sweep, route, permission, missed,
                   faults>>

StopEarly(p) ==
    /\ At(p, "stop")
    /\ Publish(p, Ended(proc[p].run, "partial"), "mirror", "partial")

EmptyStatus(p) ==
    CASE run[proc[p].run].errors \/ proc[p].errs -> "completed_with_errors"
      [] ~(run[proc[p].run].errors \/ proc[p].errs) /\
         (\A q \in Position : doc[q] = "missing") -> "no_documents"
      [] OTHER -> "success"

FinishEmpty(p) ==
    /\ At(p, "finish")
    /\ proc[p].batches = 0
    /\ Publish(p, Ended(proc[p].run, EmptyStatus(p)), "mirror", EmptyStatus(p))

FinishDraining(p) ==
    /\ At(p, "finish")
    /\ proc[p].batches > 0
    /\ Publish(p, run[proc[p].run], "check", "none")

(* Mutant: it does not matter whether the totals are published. *)
DrainStatus_NoTotal(r) ==
    IF r.completed >= r.total
    THEN IF r.errors THEN "completed_with_errors" ELSE "success"
    ELSE r.status

(* The status a running run gets when its last batch is in. *)
DrainStatus(r) ==
    IF r.total > 0 /\ r.completed >= r.total
    THEN IF r.errors THEN "completed_with_errors" ELSE "success"
    ELSE r.status

(* finalizeBatchesIfComplete: all batches may have come in before the      *)
(* totals were published.  It is not fenced by the epoch.                  *)
FinalizeIfComplete(p) ==
    /\ At(p, "check")
    /\ LET r == run[proc[p].run]
           status == IF r.status = "running" THEN DrainStatus(r) ELSE r.status
       IN  /\ run' = [run EXCEPT ![proc[p].run].status = status]
           /\ IF status \in Drained
              THEN Set(p, [proc[p] EXCEPT !.pc = "mirror", !.out = status])
              ELSE Leave(p)
    /\ UNCHANGED <<connector, doc, batch, sweep, route, permission, missed,
                   faults>>

Fail(p) ==
    /\ At(p, "failing")
    /\ IF Owned(p)
       THEN /\ run' = [run EXCEPT ![proc[p].run] =
                          Counted(p, Ended(proc[p].run, "failed"))]
            /\ Set(p, [proc[p] EXCEPT !.pc = "mirror", !.out = "failed"])
       ELSE /\ Leave(p)
            /\ UNCHANGED run
    /\ UNCHANGED <<connector, doc, batch, sweep, route, permission, missed,
                   faults>>

---------------------------------------------------------------------------
(* Mirroring a run's end on the connector, and the permission pass *)

(* The status is written whoever owns the connector by then.  last_sync_at *)
(* is read only while the status is running, so whether this write stamps  *)
(* it anew (not for a partial run) matters little.                         *)
Mirror(p) ==
    /\ At(p, "mirror")
    /\ connector' = [connector EXCEPT !.status = proc[p].out,
                        !.at = IF proc[p].out = "partial" THEN @ ELSE 0]
    /\ IF proc[p].out \in Drained \cup {"no_documents"}
       THEN Goto(p, "trigger")
       ELSE Leave(p)
    /\ UNCHANGED <<run, doc, batch, sweep, route, permission, missed, faults>>

(* Where enqueuePermissionSyncAfterContentSync returns to. *)
Return(p) == IF p \in Job THEN Goto(p, "done") ELSE Leave(p)

Trigger(p) ==
    /\ At(p, "trigger")
    /\ IF PassQueued THEN Return(p) ELSE Goto(p, "queue")
    /\ UNCHANGED <<run, connector, doc, batch, sweep, route, permission, missed,
                   faults>>

QueuePass(p) ==
    /\ At(p, "queue")
    /\ permission' = permission + 1
    /\ Return(p)
    /\ UNCHANGED <<run, connector, doc, batch, sweep, route, missed, faults>>

---------------------------------------------------------------------------
(* handleBatchEmbedding *)

(* The queue delivers a task.  It is delivered again while an execution of *)
(* it is still alive only if that one's process has stalled.               *)
Deliver(p, b) ==
    /\ At(p, "idle")
    /\ ActiveTask(b)
    /\ \/ /\ \A q \in Job : proc[q].batch # b
          /\ UNCHANGED faults
       \/ /\ \E q \in Job : proc[q].batch = b
          /\ Spend("stall")
    /\ Set(p, [Idle EXCEPT !.pc = "load", !.run = batch[b].run,
                           !.pos = batch[b].pos, !.batch = b])
    /\ UNCHANGED <<run, connector, doc, batch, sweep, route, permission, missed>>

AfterEmbedding(p) == IF proc[p].run = 0 THEN "done" ELSE "record"

(* processDocuments only takes documents that were pending when it loaded  *)
(* them, and marks them in a statement of its own.                         *)
Load(p) ==
    /\ At(p, "load")
    /\ Goto(p, IF doc[proc[p].pos] = "pending" THEN "embed"
                                               ELSE AfterEmbedding(p))
    /\ UNCHANGED <<run, connector, doc, batch, sweep, route, permission, missed,
                   faults>>

Embed(p) ==
    /\ At(p, "embed")
    /\ doc' = [doc EXCEPT ![proc[p].pos] = "processing"]
    /\ Goto(p, "store")
    /\ UNCHANGED <<run, connector, batch, sweep, route, permission, missed,
                   faults>>

(* The embedding is stored, or the provider refused the document. *)
Store(p) ==
    /\ At(p, "store")
    /\ \/ /\ doc' = [doc EXCEPT ![proc[p].pos] = "completed"]
          /\ Goto(p, AfterEmbedding(p))
          /\ UNCHANGED faults
       \/ /\ Spend("item")
          /\ doc' = [doc EXCEPT ![proc[p].pos] = "failed"]
          /\ Set(p, [proc[p] EXCEPT !.pc = AfterEmbedding(p), !.errs = TRUE])
    /\ UNCHANGED <<run, connector, batch, sweep, route, permission, missed>>

(* Mutant: the task is not stamped, a retry counts again. *)
Claimable_Always(b) == batch[b].status \in {"active", "done"}

Claimable(b) == batch[b].status \in {"active", "done"} /\ ~batch[b].recorded

(* The run after one more outcome: partial stays partial. *)
WithOutcome(r, failed) ==
    LET c == [r EXCEPT !.completed = @ + 1, !.errors = @ \/ failed]
    IN  IF r.status = "partial" THEN c
        ELSE [c EXCEPT !.status = DrainStatus(c)]

(* Mutant: a terminal run takes outcomes as well. *)
AcceptsOutcomes_All(r) == TRUE

AcceptsOutcomes(r) == r.status \in {"running", "partial"}

(* completeBatch: stamp the task and add its outcome to the run in one     *)
(* transaction, once; then finalize if the run it returns is drained.      *)
(* A stamped task gets the run as it is, a run that takes no more outcomes *)
(* gets nothing.                                                           *)
CompleteBatch(p, failed) ==
    LET k == proc[p].run
        b == proc[p].batch
        r == IF Claimable(b) /\ AcceptsOutcomes(run[k])
             THEN WithOutcome(run[k], failed) ELSE run[k]
        returned == Claimable(b) => AcceptsOutcomes(run[k])
    IN  /\ run' = [run EXCEPT ![k] = r]
        /\ batch' = IF Claimable(b)
                    THEN [batch EXCEPT ![b].recorded = TRUE, ![b].failed = failed]
                    ELSE batch
        /\ IF returned /\ r.status \in Drained /\ r.completed >= r.total
           THEN Set(p, [proc[p] EXCEPT !.pc = "finalize", !.out = r.status])
           ELSE Goto(p, "done")

Record(p) ==
    /\ At(p, "record")
    /\ CompleteBatch(p, proc[p].errs)
    /\ UNCHANGED <<connector, doc, sweep, route, permission, missed, faults>>

(* The last attempt failed: processTask records the batch as failed. *)
Bury(p) ==
    /\ At(p, "bury")
    /\ CompleteBatch(p, TRUE)
    /\ UNCHANGED <<connector, doc, sweep, route, permission, missed, faults>>

(* A run, of either family, that started after run k. *)
NewerRun(k) == \E j \in Run : j > k /\ run[j].status # "absent"

Finalize(p) ==
    /\ At(p, "finalize")
    /\ Goto(p, IF NewerRun(proc[p].run) THEN "done" ELSE "mirror")
    /\ UNCHANGED <<run, connector, doc, batch, sweep, route, permission, missed,
                   faults>>

(* The task is completed, or dead. *)
Done(p) ==
    /\ At(p, "done")
    /\ batch' = IF ActiveTask(proc[p].batch)
                THEN [batch EXCEPT ![proc[p].batch].status = "done"] ELSE batch
    /\ Leave(p)
    /\ UNCHANGED <<run, connector, doc, sweep, route, permission, missed, faults>>

(* The handler throws: the task is retried, or this attempt was the last.  *)
HandlerThrows(p) ==
    /\ p \in Job
    /\ proc[p].pc \in (JobPC \cup SharedPC) \ {"idle", "bury", "done"}
    /\ Spend("error")
    /\ \/ Leave(p)
       \/ Goto(p, IF proc[p].run = 0 THEN "done" ELSE "bury")
    /\ UNCHANGED <<run, connector, doc, batch, sweep, route, permission, missed>>

(* What follows the end of a run throws: executeSync has nothing to undo.  *)
LateThrow(p) ==
    /\ p \in Sync
    /\ proc[p].pc \in {"mirror", "trigger", "queue"}
    /\ Spend("error")
    /\ Leave(p)
    /\ UNCHANGED <<run, connector, doc, batch, sweep, route, permission, missed>>

Crash(p) ==
    /\ ~At(p, "idle")
    /\ Spend("crash")
    /\ Leave(p)
    /\ UNCHANGED <<run, connector, doc, batch, sweep, route, permission, missed>>

---------------------------------------------------------------------------
(* The lease, and the check_due_connectors tick *)

Beating(k) == \E p \in Sync : proc[p].pc \in SyncPC \ {"claim"} /\ proc[p].run = k

(* A heartbeat renews a lease that had lapsed. *)
Beat(p) ==
    /\ proc[p].pc \in SyncPC \ {"claim"}
    /\ Owned(p)
    /\ ~run[proc[p].run].leased
    /\ run' = [run EXCEPT ![proc[p].run].leased = TRUE]
    /\ UNCHANGED <<connector, doc, batch, proc, sweep, route, permission, missed,
                   faults>>

(* While a sync beats, its lease lapses only if its process stalls. *)
LeaseLapses(k) ==
    /\ Running(k)
    /\ Content(k)
    /\ run[k].leased
    /\ \/ ~Beating(k) /\ UNCHANGED faults
       \/ Beating(k) /\ Spend("stall")
    /\ run' = [run EXCEPT ![k].leased = FALSE]
    /\ UNCHANGED <<connector, doc, batch, proc, sweep, route, permission, missed>>

(* Mutant: the reaper does not ask that the run is running. *)
Expired_AnyStatus(k) == /\ Content(k)
                        /\ ~run[k].leased
                        /\ \A b \in BatchesOf(k) : ~ActiveTask(b)

(* Mutant: finished embedding tasks keep a run from being reaped, too. *)
Expired_NoTask(k) == Running(k) /\ Content(k) /\ ~run[k].leased /\ BatchesOf(k) = {}

Expired(k) == /\ Running(k)
              /\ Content(k)
              /\ ~run[k].leased
              /\ \A b \in BatchesOf(k) : ~ActiveTask(b)

Reap(k) ==
    /\ sweep.pc = "idle"
    /\ Expired(k)
    /\ run' = [run EXCEPT ![k] = Fenced(k, "partial")]
    /\ sweep' = [pc |-> "mark", at |-> k]
    /\ UNCHANGED <<connector, doc, batch, proc, route, permission, missed, faults>>

(* The connector still shows run k as running. *)
Shows(k) == connector.status = "running" /\ connector.at = k

(* markReapedStatusIfCurrent. *)
MarkReaped ==
    /\ sweep.pc = "mark"
    /\ connector' = IF Shows(sweep.at)
                    THEN [connector EXCEPT !.status = "partial"] ELSE connector
    /\ sweep' = [pc |-> "idle", at |-> 0]
    /\ UNCHANGED <<run, doc, batch, proc, route, permission, missed, faults>>

LatestContent == {k \in Run : Content(k) /\ \A j \in Run : Content(j) => j <= k}

(* Mutant: only an interrupted run is copied to the connector. *)
Reconcile_Partial ==
    /\ sweep.pc = "idle"
    /\ connector.status = "running"
    /\ \E k \in LatestContent :
          /\ run[k].status = "partial"
          /\ connector' = [connector EXCEPT !.status = "partial"]
    /\ UNCHANGED <<run, doc, batch, proc, sweep, route, permission, missed, faults>>

Reconcile ==
    /\ sweep.pc = "idle"
    /\ connector.status = "running"
    /\ \E k \in LatestContent :
          /\ ~Running(k)
          /\ connector' = [connector EXCEPT !.status = run[k].status]
    /\ UNCHANGED <<run, doc, batch, proc, sweep, route, permission, missed, faults>>

(* Mutant: a document that an embedder has taken is left to it. *)
Stalled_PendingOnly(pos) ==
    /\ doc[pos] = "pending"
    /\ \A b \in Batch : ActiveTask(b) => batch[b].pos # pos
    /\ \A p \in Job : proc[p].pc # "idle" => proc[p].pos # pos
    /\ \A p \in Sync : At(p, "enqueue") => Here(p) # pos

(* Nothing has touched the document for longer than any task in flight     *)
(* takes (stalledEmbeddingAgeSeconds).                                     *)
Stalled(pos) ==
    /\ doc[pos] \in {"pending", "processing"}
    /\ \A b \in Batch : ActiveTask(b) => batch[b].pos # pos
    /\ \A p \in Job : proc[p].pc # "idle" => proc[p].pos # pos
    /\ \A p \in Sync : At(p, "enqueue") => Here(p) # pos

Recover(pos) ==
    /\ sweep.pc = "idle"
    /\ Stalled(pos)
    /\ doc' = [doc EXCEPT ![pos] = "pending"]
    /\ sweep' = [pc |-> "requeue", at |-> pos]
    /\ UNCHANGED <<run, connector, batch, proc, route, permission, missed, faults>>

(* The recovered document is enqueued without a run. *)
Requeue ==
    /\ sweep.pc = "requeue"
    /\ NewBatch(0, sweep.at)
    /\ sweep' = [pc |-> "idle", at |-> 0]
    /\ UNCHANGED <<run, connector, doc, proc, route, permission, missed, faults>>

CrashSweep ==
    /\ sweep.pc # "idle"
    /\ Spend("crash")
    /\ sweep' = [pc |-> "idle", at |-> 0]
    /\ UNCHANGED <<run, connector, doc, batch, proc, route, permission, missed>>

---------------------------------------------------------------------------
(* Cancellation, and permission passes *)

Cancel(k) ==
    /\ route.todo = {}
    /\ Running(k)
    /\ Content(k)
    /\ Spend("cancel")
    /\ run' = [run EXCEPT ![k] = [Fenced(k, "cancelled") EXCEPT !.leased = FALSE]]
    /\ route' = [run |-> k, todo |-> {"purge", "mark"}]
    /\ UNCHANGED <<connector, doc, batch, proc, sweep, permission, missed>>

(* deleteActiveForContentRun and markContentRunCancelledIfCurrent are sent *)
(* together: either may come first.                                        *)
Purge ==
    /\ "purge" \in route.todo
    /\ batch' = [b \in Batch |->
                   IF batch[b].run = route.run /\ ActiveTask(b)
                   THEN [batch[b] EXCEPT !.status = "deleted"] ELSE batch[b]]
    /\ route' = [route EXCEPT !.todo = @ \ {"purge"}]
    /\ UNCHANGED <<run, connector, doc, proc, sweep, permission, missed, faults>>

MarkCancelled ==
    /\ "mark" \in route.todo
    /\ connector' = IF Shows(route.run)
                    THEN [connector EXCEPT !.status = "cancelled"] ELSE connector
    /\ route' = [route EXCEPT !.todo = @ \ {"mark"}]
    /\ UNCHANGED <<run, doc, batch, proc, sweep, permission, missed, faults>>

(* Somebody else asks for a pass: a user, or an earlier sync. *)
RequestPass ==
    /\ ~PassQueued
    /\ Spend("permission")
    /\ permission' = permission + 1
    /\ UNCHANGED <<run, connector, doc, batch, proc, sweep, route, missed>>

StartPass ==
    /\ permission > 0
    /\ ~RunningOf("permission")
    /\ UnusedRun # {}
    /\ run' = [run EXCEPT ![Least(UnusedRun)] = Started("permission")]
    /\ permission' = permission - 1
    /\ UNCHANGED <<connector, doc, batch, proc, sweep, route, missed, faults>>

EndPass ==
    /\ \E k \in Run :
          /\ Running(k)
          /\ run[k].family = "permission"
          /\ run' = [run EXCEPT ![k] = Ended(k, "success")]
    /\ UNCHANGED <<connector, doc, batch, proc, sweep, route, permission, missed,
                   faults>>

---------------------------------------------------------------------------
(* The specification *)

SyncStep(p) ==
    \/ Read(p) \/ Claim(p) \/ ClaimBusy(p) \/ Refuse(p) \/ Announce(p)
    \/ Renew(p) \/ Ingest(p) \/ IngestFails(p) \/ EnqueueBatch(p) \/ Flush(p)
    \/ Checkpoint(p) \/ Throw(p) \/ StopEarly(p) \/ FinishEmpty(p)
    \/ FinishDraining(p) \/ FinalizeIfComplete(p) \/ Fail(p) \/ Beat(p)
    \/ LateThrow(p)

JobStep(p) ==
    \/ Load(p) \/ Embed(p) \/ Store(p) \/ Record(p) \/ Bury(p) \/ Finalize(p) \/ Done(p)
    \/ HandlerThrows(p)

SharedStep(p) == Mirror(p) \/ Trigger(p) \/ QueuePass(p) \/ Crash(p)

Sweep == \/ \E k \in Run : Reap(k)
         \/ MarkReaped
         \/ Reconcile
         \/ \E pos \in Position : Recover(pos)
         \/ Requeue
         \/ CrashSweep

Others == \/ \E k \in Run : Cancel(k) \/ LeaseLapses(k)
          \/ Purge \/ MarkCancelled
          \/ RequestPass \/ StartPass \/ EndPass

Next == \/ \E p \in Sync : SyncStep(p)
        \/ \E p \in Job : JobStep(p) \/ (\E b \in Batch : Deliver(p, b))
        \/ \E p \in Proc : SharedStep(p)
        \/ Sweep
        \/ Others

Spec == Init /\ [][Next]_vars

(* Handlers go on, the queue delivers what is active, the tick comes       *)
(* round, and an expired lease is seen.  Nothing forces a new sync.        *)
Fairness ==
    /\ \A p \in Sync : WF_vars(~At(p, "idle") /\ (SyncStep(p) \/ SharedStep(p)))
    /\ \A p \in Job : WF_vars(JobStep(p) \/ SharedStep(p))
    /\ \A b \in Batch : SF_vars(\E p \in Job : Deliver(p, b))
    /\ WF_vars(MarkReaped) /\ WF_vars(Requeue)
    /\ SF_vars(\E k \in Run : Reap(k))
    /\ SF_vars(Reconcile)
    /\ \A pos \in Position : SF_vars(Recover(pos))
    /\ \A k \in Run : WF_vars(LeaseLapses(k))
    /\ WF_vars(Purge) /\ WF_vars(MarkCancelled)
    /\ WF_vars(StartPass) /\ WF_vars(EndPass)

FairSpec == Spec /\ Fairness

---------------------------------------------------------------------------
(* Properties *)

(* A run counts each of its batches once, and none is lost, however often  *)
(* the task is delivered: what it has completed is what is stamped.        *)
CountedOnce ==
    \A k \in Run : run[k].status \in {"running", "partial"} \cup Drained =>
        run[k].completed = Cardinality({b \in BatchesOf(k) : batch[b].recorded})

(* A run is not reported complete while one of its batches is still to be  *)
(* embedded, whichever of the last batch and the publication of the totals *)
(* comes first.                                                            *)
CompleteMeansDrained ==
    \A k \in Run : run[k].status \in Drained =>
        \A b \in BatchesOf(k) : batch[b].recorded

(* No error that was reported to a run is lost: the sync loop's and the    *)
(* embedding handler's writes of item_errors do not erase each other, and  *)
(* a batch that was recorded as failed keeps its run from being green.     *)
(* Whether a green run's documents are embedded is another matter: a batch *)
(* delivered again skips what its first delivery left in processing or     *)
(* failed, and is recorded without an error.                               *)
ErrorsKept ==
    \A k \in Run : Content(k) /\ run[k].status = "success" =>
        /\ missed[k] = {}
        /\ \A b \in BatchesOf(k) : ~batch[b].failed

(* The checkpoint never passes a document that was neither stored nor      *)
(* counted as an error on some run, through crashes, lost leases and late  *)
(* owners.                                                                 *)
NoSilentLoss ==
    \A p \in 1..connector.checkpoint :
        \/ doc[p] # "missing"
        \/ \E k \in Run : p \in missed[k] /\ run[k].errors

(* A run that has ended never changes its status: no late owner, batch,    *)
(* reaper or cancellation brings it back or rewrites its end.              *)
EndedStaysEnded ==
    [][\A k \in Run : run[k].status \in Terminal =>
                         run'[k].status = run[k].status]_vars

(* A run does not stay running for ever: it is finished, or reclaimed.     *)
RunsEnd == \A k \in Run : Running(k) ~> ~Running(k)

(* The connector does not show a sync that is over as running for ever.    *)
StatusSettles ==
    connector.status = "running" ~>
        (connector.status # "running" \/ RunningOf("content"))

(* A stored document is eventually embedded, or refused by the provider.   *)
EventuallyEmbedded ==
    \A p \in Position : doc[p] # "missing" ~> doc[p] \in {"completed", "failed"}

=============================================================================
