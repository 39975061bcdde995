----------------------------- MODULE TaskQueue -----------------------------
(***************************************************************************)
(* The background task queue: the `tasks` table shared by every worker     *)
(* process, the in-memory bookkeeping of TaskQueueService in each process, *)
(* and the handler invocations ("executions") those processes have on      *)
(* their stacks.                                                           *)
(*                                                                         *)
(* Every SQL statement is one action (the two UPDATEs of resetStuckTasks,  *)
(* which touch disjoint rows, are one); whatever the code does between two *)
(* awaits is one action too, so a crash, a shutdown or another process can *)
(* come between any two statements.                                        *)
(*                                                                         *)
(* Wall-clock time is abstract: a row carries `due` (scheduled_for has     *)
(* passed), `stale` (no heartbeat for STUCK_TASK_TIMEOUT_MS) and `aged`    *)
(* (started_at is older than the orphan grace), and the actions under      *)
(* "Time" set them when the timing the code relies on allows it.           *)
(***************************************************************************)
EXTENDS Integers, FiniteSets

CONSTANTS
    Worker,      \* worker processes
    Row,         \* ids of rows of the tasks table
    Exec,        \* handler invocations alive at once, over all processes
    Kind,        \* Kind[r]: what sort of task row r is
    LaneCap,     \* LaneCap[l]: concurrency cap of lane l in each process
    MaxAttempts, \* max_attempts of an ordinary task (periodic tasks have 1)
    Faults       \* Faults[f]: how many faults of sort f the environment injects

(* One kind per way the queue treats a task: "sync" (any ordinary content  *)
(* task), "batch" (batch_embedding that belongs to a connector run),       *)
(* "perm" (permission_sync) and "periodic".  Rows of kind "perm" belong to *)
(* one connector, rows of kind "periodic" to one periodic task type.       *)
Kinds == {"sync", "batch", "perm", "periodic"}
Lane == {"content", "permission", "system"}
FaultKind == {"crash", "stop", "stall", "error", "supersede"}

ASSUME KindAssumption == Kind \in [Row -> Kinds]
ASSUME LaneCapAssumption == LaneCap \in [Lane -> Nat \ {0}]
ASSUME MaxAttemptsAssumption == MaxAttempts \in Nat \ {0}
ASSUME FaultsAssumption == Faults \in [FaultKind -> Nat]

LaneOf(r) == CASE Kind[r] \in {"sync", "batch"} -> "content"
               [] Kind[r] = "perm" -> "permission"
               [] Kind[r] = "periodic" -> "system"

MaxAttemptsOf(r) == IF Kind[r] = "periodic" THEN 1 ELSE MaxAttempts

NoRow == "no row"
Nothing == [row |-> NoRow, attempt |-> 0]
NoExec == [pc |-> "none"]

VARIABLES
    task,      \* task[r]: the row r of the tasks table
    mode,      \* mode[w]: life cycle of process w
    poll,      \* poll[w]: where doPoll is in process w
    fetched,   \* fetched[w]: what the poll's dequeue returned, until tracked
    active,    \* active[w]: activeTaskIds, which is also the key set of taskLane
    slots,     \* slots[w][l]: laneCounts
    remaining, \* remaining[w]: ids stopWorker is about to release
    exec,      \* exec[e]: a handler invocation, or NoExec
    permRun,   \* owner of the connector's running permission run
    faults     \* faults still to be injected

table == <<task>>
process == <<mode, poll, fetched, active, slots, remaining>>
vars == <<task, mode, poll, fetched, active, slots, remaining, exec, permRun,
          faults>>

Status == {"absent", "pending", "processing", "completed", "dead", "deleted"}
TaskRow == [status : Status, attempt : Nat, due : BOOLEAN, stale : BOOLEAN,
            aged : BOOLEAN, recorded : BOOLEAN]
Modes == {"down", "seeding", "up", "stopping", "releasing", "released"}
PollPC == {"idle", "sweep", "reschedule", "giveback", "drop"} \cup Lane
ExecPC == {"handler", "pass", "record", "complete", "fail", "reschedule",
           "untrack"}
Execution == [worker : Worker, row : Row, attempt : Nat, pc : ExecPC]

(* A permission run is free (no row with status running), owned by an      *)
(* execution, or lost: still running in the table, its process gone.       *)
PermOwner == Exec \cup {"free", "lost"}

TypeOK ==
    /\ task \in [Row -> TaskRow]
    /\ mode \in [Worker -> Modes]
    /\ poll \in [Worker -> PollPC]
    /\ fetched \in [Worker -> [row : Row, attempt : Nat] \cup {Nothing}]
    /\ active \in [Worker -> SUBSET Row]
    /\ slots \in [Worker -> [Lane -> Nat]]
    /\ remaining \in [Worker -> SUBSET Row]
    /\ exec \in [Exec -> Execution \cup {NoExec}]
    /\ permRun \in PermOwner
    /\ faults \in [FaultKind -> Nat]

---------------------------------------------------------------------------
(* Derived state *)

Active(r) == task[r].status \in {"pending", "processing"}
Finished(r) == task[r].status \in {"completed", "dead"}
Live == {e \in Exec : exec[e] # NoExec}
RunsRow(e, r) == e \in Live /\ exec[e].row = r
Periodic == {r \in Row : Kind[r] = "periodic"}

(* Processes that still have a memory of row r. *)
Holds(w, r) == r \in active[w] \cup remaining[w] \cup {fetched[w].row}

(* A row id an INSERT can be given.  Ordinary ids are used once.  A        *)
(* finished row of the periodic type that nothing refers to any more is    *)
(* never read again, so its id stands for a fresh one: the endless chain   *)
(* of periodic rows stays finite.                                          *)
Fresh(r) == \/ task[r].status = "absent"
            \/ /\ Kind[r] = "periodic"
               /\ Finished(r)
               /\ \A e \in Exec : ~RunsRow(e, r)
               /\ \A w \in Worker : ~Holds(w, r)

Spend(f) == faults[f] > 0 /\ faults' = [faults EXCEPT ![f] = @ - 1]

---------------------------------------------------------------------------
(* TaskModel: one operator per statement, giving the row it writes *)

NoTask == [status |-> "absent", attempt |-> 0, due |-> FALSE, stale |-> FALSE,
           aged |-> FALSE, recorded |-> FALSE]

Exists(t) == t.status \notin {"absent", "deleted"}

Inserted(due) == [NoTask EXCEPT !.status = "pending", !.due = due]

(* Mutant: the attempt counts down. *)
Dequeued_Down(t) == [t EXCEPT !.status = "processing", !.attempt = @ - 1,
                              !.stale = FALSE, !.aged = FALSE]

Dequeued(t) == [t EXCEPT !.status = "processing", !.attempt = @ + 1,
                         !.stale = FALSE, !.aged = FALSE]

(* Out of `processing`.  heartbeat_at and started_at are only read under   *)
(* status = processing and dequeue stamps both, so they are forgotten.     *)
Leave(t, s, due) == [t EXCEPT !.status = s, !.due = due,
                              !.stale = FALSE, !.aged = FALSE]

(* completeBatch's stamp on the task's payload. *)
Recorded(t) == IF Exists(t) THEN [t EXCEPT !.recorded = TRUE] ELSE t

Completed(t) == IF Exists(t) THEN Leave(t, "completed", FALSE) ELSE t

(* fail: by id only, and by the attempt the dequeue returned. *)
Failed(r, t, attempt) ==
    CASE ~Exists(t) -> t
      [] Exists(t) /\ attempt >= MaxAttemptsOf(r) -> Leave(t, "dead", FALSE)
      [] Exists(t) /\ attempt < MaxAttemptsOf(r) -> Leave(t, "pending", FALSE)

(* releaseToQueue and the revived orphan: the interrupted attempt does not *)
(* count.                                                                  *)
Uncharged(t) == [Leave(t, "pending", TRUE) EXCEPT
                   !.attempt = IF @ > 0 THEN @ - 1 ELSE 0]

Released(t) == IF t.status = "processing" THEN Uncharged(t) ELSE t

Renewed(t) == IF t.status = "processing" THEN [t EXCEPT !.stale = FALSE] ELSE t

(* Mutant: the cutoff is wrong, every task in flight looks stuck. *)
Stuck_AnyBeat(r) == task[r].status = "processing"

Stuck(r) == task[r].status = "processing" /\ task[r].stale

DeadLettered(r) == /\ Stuck(r)
                   /\ task[r].attempt >= MaxAttemptsOf(r)
                   /\ Kind[r] # "batch"

(* Mutant: the second UPDATE, which re-queues, is missing. *)
Swept_NoRetry(r) == IF DeadLettered(r) THEN Leave(task[r], "dead", FALSE)
                    ELSE task[r]

Swept(r) == CASE DeadLettered(r) -> Leave(task[r], "dead", FALSE)
              [] Stuck(r) /\ ~DeadLettered(r) ->
                    Leave(task[r], "pending", FALSE)
              [] OTHER -> task[r]

(* Mutant: no unique index on active periodic rows. *)
InsertPeriodic_NoIndex(due) ==
    \E r \in Periodic : Fresh(r) /\ task' = [task EXCEPT ![r] = Inserted(due)]

(* The periodic INSERT: a no-op when the unique index on active periodic   *)
(* rows refuses it.                                                        *)
InsertPeriodic(due) ==
    \/ /\ \E r \in Periodic : Active(r)
       /\ UNCHANGED task
    \/ /\ \A r \in Periodic : ~Active(r)
       /\ \E r \in Periodic : /\ Fresh(r)
                              /\ task' = [task EXCEPT ![r] = Inserted(due)]

---------------------------------------------------------------------------
(* Process memory *)

Slots(w, gone) ==
    [l \in Lane |->
        LET n == Cardinality({r \in gone \cap active[w] : LaneOf(r) = l})
        IN  IF slots[w][l] > n THEN slots[w][l] - n ELSE 0]

(* untrackTask for every row of gone. *)
Untrack(w, gone) ==
    /\ active' = [active EXCEPT ![w] = @ \ gone]
    /\ slots' = [slots EXCEPT ![w] = Slots(w, gone)]

(* The process is gone: its memory and its executions with it. *)
Vanish(w) ==
    /\ mode' = [mode EXCEPT ![w] = "down"]
    /\ poll' = [poll EXCEPT ![w] = "idle"]
    /\ fetched' = [fetched EXCEPT ![w] = Nothing]
    /\ active' = [active EXCEPT ![w] = {}]
    /\ slots' = [slots EXCEPT ![w] = [l \in Lane |-> 0]]
    /\ remaining' = [remaining EXCEPT ![w] = {}]
    /\ exec' = [e \in Exec |->
                  IF e \in Live /\ exec[e].worker = w THEN NoExec ELSE exec[e]]
    /\ permRun' = IF /\ permRun \in Live
                     /\ exec[permRun].worker = w
                  THEN "lost" ELSE permRun

---------------------------------------------------------------------------
(* Enqueueing and start-up *)

Init ==
    /\ task = [r \in Row |-> NoTask]
    /\ mode = [w \in Worker |-> "down"]
    /\ poll = [w \in Worker |-> "idle"]
    /\ fetched = [w \in Worker |-> Nothing]
    /\ active = [w \in Worker |-> {}]
    /\ slots = [w \in Worker |-> [l \in Lane |-> 0]]
    /\ remaining = [w \in Worker |-> {}]
    /\ exec = [e \in Exec |-> NoExec]
    /\ permRun = "free"
    /\ faults = Faults

(* enqueue: any code of the platform inserts an ordinary task. *)
Enqueue(r) ==
    /\ Kind[r] # "periodic"
    /\ Fresh(r)
    /\ task' = [task EXCEPT ![r] = Inserted(TRUE)]
    /\ UNCHANGED <<process, exec, permRun, faults>>

(* seedPeriodicTasks, for each periodic type there is, reads whether it    *)
(* has an active row, and only if not inserts one; then startWorker.       *)
Boot(w) ==
    /\ mode[w] = "down"
    /\ mode' = [mode EXCEPT ![w] =
                   IF Periodic # {} => \E r \in Periodic : Active(r)
                   THEN "up" ELSE "seeding"]
    /\ UNCHANGED <<task, poll, fetched, active, slots, remaining, exec, permRun,
                   faults>>

Seed(w) ==
    /\ mode[w] = "seeding"
    /\ InsertPeriodic(TRUE)
    /\ mode' = [mode EXCEPT ![w] = "up"]
    /\ UNCHANGED <<poll, fetched, active, slots, remaining, exec, permRun,
                   faults>>

---------------------------------------------------------------------------
(* doPoll *)

(* The tick: renew the heartbeats of this process's tasks. *)
PollBegin(w) ==
    /\ mode[w] = "up"
    /\ poll[w] = "idle"
    /\ task' = [r \in Row |->
                  IF r \in active[w] THEN Renewed(task[r]) ELSE task[r]]
    /\ poll' = [poll EXCEPT ![w] = "sweep"]
    /\ UNCHANGED <<mode, fetched, active, slots, remaining, exec, permRun,
                   faults>>

(* Mutant: a dead-lettered periodic row is not rescheduled. *)
Sweep_NoReschedule(w) ==
    /\ poll[w] = "sweep"
    /\ task' = [r \in Row |-> Swept(r)]
    /\ poll' = [poll EXCEPT ![w] = "content"]
    /\ UNCHANGED <<mode, fetched, active, slots, remaining, exec, permRun,
                   faults>>

(* resetStuckTasks: dead-letter the exhausted stuck rows, re-queue the     *)
(* rest; a dead-lettered periodic row must have its chain resumed.         *)
Sweep(w) ==
    /\ poll[w] = "sweep"
    /\ task' = [r \in Row |-> Swept(r)]
    /\ poll' = [poll EXCEPT ![w] =
                  IF \E r \in Periodic : DeadLettered(r) THEN "reschedule"
                  ELSE "content"]
    /\ UNCHANGED <<mode, fetched, active, slots, remaining, exec, permRun,
                   faults>>

(* The previous sweep is less than STUCK_SWEEP_INTERVAL_MS old. *)
SkipSweep(w) ==
    /\ poll[w] = "sweep"
    /\ poll' = [poll EXCEPT ![w] = "content"]
    /\ UNCHANGED <<task, mode, fetched, active, slots, remaining, exec, permRun,
                   faults>>

RescheduleSwept(w) ==
    /\ poll[w] = "reschedule"
    /\ InsertPeriodic(FALSE)
    /\ poll' = [poll EXCEPT ![w] = "content"]
    /\ UNCHANGED <<mode, fetched, active, slots, remaining, exec, permRun,
                   faults>>

(* Rows the lane's dequeue may return.  FOR UPDATE SKIP LOCKED may pass    *)
(* over the oldest, so which due row is returned is left open.             *)
DueIn(l) == {r \in Row : /\ task[r].status = "pending"
                         /\ task[r].due
                         /\ LaneOf(r) = l}

Dequeue(w, r) ==
    /\ mode[w] = "up"
    /\ poll[w] \in Lane
    /\ fetched[w] = Nothing
    /\ slots[w][poll[w]] < LaneCap[poll[w]]
    /\ r \in DueIn(poll[w])
    /\ task' = [task EXCEPT ![r] = Dequeued(@)]
    /\ fetched' = [fetched EXCEPT ![w] =
                     [row |-> r, attempt |-> task[r].attempt + 1]]
    /\ UNCHANGED <<mode, poll, active, slots, remaining, exec, permRun, faults>>

NextLane == [content |-> "permission", permission |-> "system",
             system |-> "idle"]

(* The lane is full or empty, or the process is stopping: on to the next   *)
(* lane, or done.                                                          *)
LaneDone(w) ==
    /\ poll[w] \in Lane
    /\ fetched[w] = Nothing
    /\ \/ mode[w] # "up"
       \/ slots[w][poll[w]] >= LaneCap[poll[w]]
       \/ DueIn(poll[w]) = {}
    /\ poll' = [poll EXCEPT ![w] = NextLane[@]]
    /\ UNCHANGED <<task, mode, fetched, active, slots, remaining, exec, permRun,
                   faults>>

(* Mutant: a row that is tracked already is not counted again. *)
TrackRow_Once(w, r) ==
    /\ active' = [active EXCEPT ![w] = @ \cup {r}]
    /\ slots' = [slots EXCEPT ![w][LaneOf(r)] =
                    IF r \in active[w] THEN @ ELSE @ + 1]

(* trackTask: the id goes in the set, the lane's count goes up whether or  *)
(* not the id was there.                                                   *)
TrackRow(w, r) ==
    /\ active' = [active EXCEPT ![w] = @ \cup {r}]
    /\ slots' = [slots EXCEPT ![w][LaneOf(r)] = @ + 1]

(* The dequeue's answer arrives: track, and call processTask. *)
Start(w, e) ==
    /\ poll[w] \in Lane
    /\ fetched[w] # Nothing
    /\ mode[w] = "up"
    /\ e \notin Live
    /\ TrackRow(w, fetched[w].row)
    /\ exec' = [exec EXCEPT ![e] = [worker |-> w, row |-> fetched[w].row,
                                    attempt |-> fetched[w].attempt,
                                    pc |-> "handler"]]
    /\ fetched' = [fetched EXCEPT ![w] = Nothing]
    /\ UNCHANGED <<task, mode, poll, remaining, permRun, faults>>

(* The same, but the process began to stop while the dequeue was out: the  *)
(* row is tracked, released to the queue, and untracked.                   *)
StartStopped(w) ==
    /\ poll[w] \in Lane
    /\ fetched[w] # Nothing
    /\ mode[w] # "up"
    /\ TrackRow(w, fetched[w].row)
    /\ poll' = [poll EXCEPT ![w] = "giveback"]
    /\ UNCHANGED <<task, mode, fetched, remaining, exec, permRun, faults>>

(* Mutant: the task is dropped without going back to the queue. *)
GiveBack_NoRelease(w) ==
    /\ poll[w] = "giveback"
    /\ poll' = [poll EXCEPT ![w] = "drop"]
    /\ UNCHANGED <<task, mode, fetched, active, slots, remaining, exec, permRun,
                   faults>>

GiveBack(w) ==
    /\ poll[w] = "giveback"
    /\ task' = [task EXCEPT ![fetched[w].row] = Released(@)]
    /\ poll' = [poll EXCEPT ![w] = "drop"]
    /\ UNCHANGED <<mode, fetched, active, slots, remaining, exec, permRun,
                   faults>>

Drop(w) ==
    /\ poll[w] = "drop"
    /\ Untrack(w, {fetched[w].row})
    /\ poll' = [poll EXCEPT ![w] = "idle"]
    /\ fetched' = [fetched EXCEPT ![w] = Nothing]
    /\ UNCHANGED <<task, mode, remaining, exec, permRun, faults>>

---------------------------------------------------------------------------
(* processTask: one handler invocation, step by step *)

At(e, pc) == exec[e].pc = pc
Goto(e, pc) == exec' = [exec EXCEPT ![e].pc = pc]
RowOf(e) == exec[e].row
Exhausted(e) == exec[e].attempt >= MaxAttemptsOf(RowOf(e))

(* The handler returns.  handleBatchEmbedding has by then recorded its     *)
(* outcome on the connector run and stamped the row's payload.             *)
Handle(e) ==
    /\ At(e, "handler")
    /\ Kind[RowOf(e)] # "perm"
    /\ task' = IF Kind[RowOf(e)] = "batch"
               THEN [task EXCEPT ![RowOf(e)] = Recorded(@)] ELSE task
    /\ Goto(e, "complete")
    /\ UNCHANGED <<process, permRun, faults>>

(* executePass claims the connector's permission run: the unique index on  *)
(* running runs admits one.                                                *)
Claim(e) ==
    /\ At(e, "handler")
    /\ Kind[RowOf(e)] = "perm"
    /\ permRun = "free"
    /\ permRun' = e
    /\ Goto(e, "pass")
    /\ UNCHANGED <<task, process, faults>>

(* The run is taken: the pass is skipped, and the handler returns. *)
ClaimBusy(e) ==
    /\ At(e, "handler")
    /\ Kind[RowOf(e)] = "perm"
    /\ permRun # "free"
    /\ Goto(e, "complete")
    /\ UNCHANGED <<task, process, permRun, faults>>

(* The pass ends, for whatever reason executePass turns it into a status.  *)
(* Its last write is fenced: it only ends the run it still owns.           *)
PassEnds(e) ==
    /\ At(e, "pass")
    /\ permRun' = IF permRun = e THEN "free" ELSE permRun
    /\ Goto(e, "complete")
    /\ UNCHANGED <<task, process, faults>>

(* TaskModel.complete: by id only. *)
Complete(e) ==
    /\ At(e, "complete")
    /\ task' = [task EXCEPT ![RowOf(e)] = Completed(@)]
    /\ Goto(e, IF Kind[RowOf(e)] = "periodic" THEN "reschedule" ELSE "untrack")
    /\ UNCHANGED <<process, permRun, faults>>

(* Mutant: an exhausted batch goes straight to fail. *)
Throw_NoRecord(e) ==
    /\ \/ At(e, "handler")
       \/ At(e, "complete") /\ Spend("error")
    /\ At(e, "handler") => UNCHANGED faults
    /\ Goto(e, "fail")
    /\ UNCHANGED <<task, process, permRun>>

(* The handler throws, or complete does.  An exhausted coordinated batch   *)
(* must first be recorded on its run.                                      *)
Throw(e) ==
    /\ \/ At(e, "handler")
       \/ At(e, "complete") /\ Spend("error")
    /\ At(e, "handler") => UNCHANGED faults
    /\ Goto(e, IF Kind[RowOf(e)] = "batch" /\ Exhausted(e) THEN "record"
               ELSE "fail")
    /\ UNCHANGED <<task, process, permRun>>

(* completeBatch and the finalizer succeed. *)
Record(e) ==
    /\ At(e, "record")
    /\ task' = [task EXCEPT ![RowOf(e)] = Recorded(@)]
    /\ Goto(e, "fail")
    /\ UNCHANGED <<process, permRun, faults>>

(* completeBatch throws: the row is left processing for the sweep.  When   *)
(* only the finalizer after it throws, the outcome is already recorded.    *)
RecordThrows(e) ==
    /\ At(e, "record")
    /\ Spend("error")
    /\ \/ UNCHANGED task
       \/ task' = [task EXCEPT ![RowOf(e)] = Recorded(@)]
    /\ Goto(e, "untrack")
    /\ UNCHANGED <<process, permRun>>

(* TaskModel.fail: by id, with the attempt of this execution's dequeue. *)
Fail(e) ==
    /\ At(e, "fail")
    /\ task' = [task EXCEPT ![RowOf(e)] =
                   Failed(RowOf(e), @, exec[e].attempt)]
    /\ Goto(e, IF /\ Kind[RowOf(e)] = "periodic"
                  /\ Exists(task[RowOf(e)])
                  /\ Exhausted(e)
               THEN "reschedule" ELSE "untrack")
    /\ UNCHANGED <<process, permRun, faults>>

(* fail itself throws: processTask rejects, the row stays as it is. *)
FailThrows(e) ==
    /\ At(e, "fail")
    /\ Spend("error")
    /\ Goto(e, "untrack")
    /\ UNCHANGED <<task, process, permRun>>

Reschedule(e) ==
    /\ At(e, "reschedule")
    /\ InsertPeriodic(FALSE)
    /\ Goto(e, "untrack")
    /\ UNCHANGED <<process, permRun, faults>>

(* The INSERT fails for another reason than the index: logged, no retry. *)
RescheduleThrows(e) ==
    /\ At(e, "reschedule")
    /\ Spend("error")
    /\ Goto(e, "untrack")
    /\ UNCHANGED <<task, process, permRun>>

(* The finally of the processTask promise. *)
Finally(e) ==
    /\ At(e, "untrack")
    /\ Untrack(exec[e].worker, {RowOf(e)})
    /\ exec' = [exec EXCEPT ![e] = NoExec]
    /\ UNCHANGED <<task, mode, poll, fetched, remaining, permRun, faults>>

---------------------------------------------------------------------------
(* stopWorker, and the end of a process *)

Stop(w) ==
    /\ mode[w] = "up"
    /\ Spend("stop")
    /\ mode' = [mode EXCEPT ![w] = "stopping"]
    /\ UNCHANGED <<task, poll, fetched, active, slots, remaining, exec, permRun>>

(* The deadline passes with tasks in flight: untrack them all. *)
DrainTimeout(w) ==
    /\ mode[w] = "stopping"
    /\ active[w] # {}
    /\ remaining' = [remaining EXCEPT ![w] = active[w]]
    /\ Untrack(w, active[w])
    /\ mode' = [mode EXCEPT ![w] = "releasing"]
    /\ UNCHANGED <<task, poll, fetched, exec, permRun, faults>>

(* releaseToQueue(remainingIds): every one that is still processing. *)
ReleaseRemaining(w) ==
    /\ mode[w] = "releasing"
    /\ task' = [r \in Row |->
                  IF r \in remaining[w] THEN Released(task[r]) ELSE task[r]]
    /\ remaining' = [remaining EXCEPT ![w] = {}]
    /\ mode' = [mode EXCEPT ![w] = "released"]
    /\ UNCHANGED <<poll, fetched, active, slots, exec, permRun, faults>>

(* stopWorker has returned and the process exits: nothing was in flight,   *)
(* or it has been drained or released.  With nothing tracked stopWorker    *)
(* waits for a poll in flight, but no longer than the deadline.  Handlers  *)
(* that were abandoned run on until this step.                             *)
Exit(w) ==
    /\ \/ mode[w] = "stopping" /\ active[w] = {}
       \/ mode[w] = "released"
    /\ Vanish(w)
    /\ UNCHANGED <<task, faults>>

Crash(w) ==
    /\ mode[w] # "down"
    /\ Spend("crash")
    /\ Vanish(w)
    /\ UNCHANGED task

---------------------------------------------------------------------------
(* Permission runs and orphaned permission tasks *)

(* A settings change or a deletion supersedes the running permission run   *)
(* whatever its task is doing.                                             *)
Supersede ==
    /\ permRun # "free"
    /\ Spend("supersede")
    /\ permRun' = "free"
    /\ UNCHANGED <<task, process, exec>>

(* reapExpiredRuns ends a run whose lease expired: its process is gone, or *)
(* has been unable to renew.                                               *)
ReapRun ==
    /\ permRun # "free"
    /\ \/ permRun = "lost" /\ UNCHANGED faults
       \/ permRun # "lost" /\ Spend("stall")
    /\ permRun' = "free"
    /\ UNCHANGED <<task, process, exec>>

(* requeueOrphanedPermissionSyncTasks. *)
Orphan(r) == /\ Kind[r] = "perm"
             /\ task[r].status = "processing"
             /\ task[r].aged

RequeueOrphans ==
    /\ permRun = "free"
    /\ \E newest \in Row :
          /\ Orphan(newest)
          /\ task' = [r \in Row |->
                        CASE r = newest -> Uncharged(task[r])
                          [] r # newest /\ Orphan(r) ->
                                Leave(task[r], "dead", FALSE)
                          [] OTHER -> task[r]]
    /\ UNCHANGED <<process, exec, permRun, faults>>

(* deleteQueuedForConnector: the rows disappear, their executions do not.  *)
DeleteQueued ==
    /\ Spend("supersede")
    /\ \E r \in Row : Kind[r] # "periodic" /\ Active(r)
    /\ task' = [r \in Row |->
                  IF Kind[r] # "periodic" /\ Active(r)
                  THEN Leave(task[r], "deleted", FALSE) ELSE task[r]]
    /\ UNCHANGED <<process, exec, permRun>>

---------------------------------------------------------------------------
(* Time *)

(* scheduled_for passes.  The backoff (30 s and up) outlasts the microtask *)
(* in which a failed execution untracks its row.                           *)
BecomeDue(r) ==
    /\ task[r].status = "pending"
    /\ ~task[r].due
    /\ \A e \in Exec : RunsRow(e, r) => ~At(e, "untrack")
    /\ task' = [task EXCEPT ![r].due = TRUE]
    /\ UNCHANGED <<process, exec, permRun, faults>>

(* STUCK_TASK_TIMEOUT_MS without a heartbeat.  A process renews its rows   *)
(* every poll tick, sixty times more often, and drains for less than the   *)
(* timeout: for a row some process holds, that takes a stall.              *)
GoStale(r) ==
    /\ task[r].status = "processing"
    /\ ~task[r].stale
    /\ \A w \in Worker : ~Holds(w, r)
    /\ task' = [task EXCEPT ![r].stale = TRUE]
    /\ UNCHANGED <<process, exec, permRun, faults>>

Stall(r) ==
    /\ task[r].status = "processing"
    /\ ~task[r].stale
    /\ \E w \in Worker : Holds(w, r)
    /\ Spend("stall")
    /\ task' = [task EXCEPT ![r].stale = TRUE]
    /\ UNCHANGED <<process, exec, permRun>>

(* ORPHANED_TASK_GRACE_SECONDS since the dequeue.  In an execution only    *)
(* the pass itself lasts that long; the rest takes seconds.                *)
GoAged(r) ==
    /\ Kind[r] = "perm"
    /\ task[r].status = "processing"
    /\ ~task[r].aged
    /\ \A w \in Worker : fetched[w].row # r
    /\ \A e \in Exec : RunsRow(e, r) => At(e, "pass")
    /\ task' = [task EXCEPT ![r].aged = TRUE]
    /\ UNCHANGED <<process, exec, permRun, faults>>

---------------------------------------------------------------------------
(* The specification *)

WorkerStep(w) ==
    \/ Boot(w) \/ Seed(w)
    \/ PollBegin(w) \/ Sweep(w) \/ SkipSweep(w) \/ RescheduleSwept(w)
    \/ (\E r \in Row : Dequeue(w, r))
    \/ LaneDone(w)
    \/ (\E e \in Exec : Start(w, e))
    \/ StartStopped(w) \/ GiveBack(w) \/ Drop(w)
    \/ Stop(w) \/ DrainTimeout(w) \/ ReleaseRemaining(w) \/ Exit(w) \/ Crash(w)

ExecStep(e) ==
    \/ Handle(e) \/ Claim(e) \/ ClaimBusy(e) \/ PassEnds(e)
    \/ Complete(e) \/ Throw(e) \/ Record(e) \/ RecordThrows(e)
    \/ Fail(e) \/ FailThrows(e)
    \/ Reschedule(e) \/ RescheduleThrows(e)
    \/ Finally(e)

RowStep(r) ==
    Enqueue(r) \/ BecomeDue(r) \/ GoStale(r) \/ Stall(r) \/ GoAged(r)

ConnectorStep == Supersede \/ ReapRun \/ RequeueOrphans \/ DeleteQueued

Next == \/ \E w \in Worker : WorkerStep(w)
        \/ \E e \in Exec : ExecStep(e)
        \/ \E r \in Row : RowStep(r)
        \/ ConnectorStep

Spec == Init /\ [][Next]_vars

(* What the scheduling gives: a process that is down is restarted, its     *)
(* interval fires, its promises settle, handlers return or throw, and time *)
(* passes.  The sweep is skipped on most ticks but runs every minute, so   *)
(* it is not skipped for ever.  A lane's scan takes milliseconds and the   *)
(* next periodic row comes due half a minute later, so a scan that keeps   *)
(* finding its lane empty does move on.  Nothing forces a fault or an      *)
(* enqueue.                                                                *)
Fairness ==
    /\ \A w \in Worker :
          /\ WF_vars(Boot(w) \/ Seed(w))
          /\ WF_vars(PollBegin(w))
          /\ SF_vars(Sweep(w))
          /\ WF_vars(Sweep(w) \/ SkipSweep(w) \/ RescheduleSwept(w))
          /\ WF_vars(\E r \in Row : Dequeue(w, r))
          /\ SF_vars(LaneDone(w))
          /\ WF_vars(\E e \in Exec : Start(w, e))
          /\ WF_vars(StartStopped(w) \/ GiveBack(w) \/ Drop(w))
          /\ WF_vars(DrainTimeout(w) \/ ReleaseRemaining(w) \/ Exit(w))
    /\ \A e \in Exec : WF_vars(ExecStep(e))
    /\ \A r \in Row : WF_vars(BecomeDue(r)) /\ WF_vars(GoStale(r))
    /\ WF_vars(permRun = "lost" /\ ReapRun)

FairSpec == Spec /\ Fairness

---------------------------------------------------------------------------
(* Refinement: the table and the executions, seen as the service they give *)

(* An invocation that has settled its row (it only has to untrack it, or   *)
(* to insert the next periodic row) executes it no more.                   *)
Executes(e, r) == /\ exec[e].pc \in ExecPC \ {"reschedule", "untrack"}
                  /\ exec[e].row = r

StageOf == [absent |-> "none", pending |-> "open", processing |-> "open",
            completed |-> "closed", dead |-> "closed", deleted |-> "closed"]

Service == INSTANCE TaskService WITH
    Task <- Row, Reusable <- Periodic, Executor <- Exec,
    stage <- [r \in Row |-> StageOf[task[r].status]],
    holders <- [r \in Row |-> {e \in Exec : Executes(e, r)}]

(* As long as no process is stalled past its heartbeat and none is shut    *)
(* down with a task in flight, the queue implements the service: whatever  *)
(* crashes and whichever statement fails, a row is executed by one         *)
(* invocation at a time and no late statement, by id only, reopens it.     *)
ServiceSpec == Service!Spec

---------------------------------------------------------------------------
(* Properties *)

(* At most one periodic row is pending or processing.  The INSERTs respect *)
(* the unique index; this says that no UPDATE (a late fail, a release, a   *)
(* sweep) ever brings a second row back, which would make that statement   *)
(* itself throw.                                                           *)
OnePeriodicRow ==
    \A r, q \in Periodic : Active(r) /\ Active(q) => r = q

(* A coordinated embedding task is never finished before its outcome is    *)
(* recorded on its connector run: otherwise the run would wait for ever    *)
(* for a batch that no longer exists, whichever of handler, dead-letter    *)
(* path, sweep and crash came in between.                                  *)
BatchOutcomeKept ==
    \A r \in Row : Kind[r] = "batch" /\ Finished(r) => task[r].recorded

(* While every process is up and no reschedule INSERT has failed, the      *)
(* periodic chain is not broken: a row is queued or running, or somebody   *)
(* is about to insert the next one.  Only a crash or an exit between the   *)
(* two can lose it, and the restart seeds it again.                        *)
ChainAlive ==
    /\ \A w \in Worker : mode[w] \notin {"down", "seeding"}
    /\ faults["error"] = Faults["error"]
    => \/ \E r \in Periodic : Active(r)
       \/ \E w \in Worker : poll[w] = "reschedule"
       \/ \E e \in Live : At(e, "reschedule")

(* A running process never has more handlers of a lane on its stack than   *)
(* the lane admits.  A stalled or superseded row can come back to a        *)
(* process that still executes it; it is then tracked twice and untracked  *)
(* once.  That costs the process a slot for good and stops the second      *)
(* execution's heartbeats, but the count errs on the full side only.       *)
LaneWithinCap ==
    \A w \in Worker : mode[w] = "up" =>
        \A l \in Lane :
            /\ Cardinality({e \in Live : /\ exec[e].worker = w
                                         /\ LaneOf(RowOf(e)) = l}) <= slots[w][l]
            /\ slots[w][l] <= LaneCap[l]

(* A process that stops in an orderly way, with no poll still out at its   *)
(* deadline, leaves no row processing that nobody holds: the tasks it had  *)
(* are finished or back in the queue, not waiting for the stuck sweep.     *)
HandedBack ==
    [][\A w \in Worker : Exit(w) /\ poll[w] = "idle" =>
          \A r \in Row : task[r].status = "processing" =>
              \E v \in Worker \ {w} : Holds(v, r)]_vars

(* Every ordinary task that is enqueued is eventually completed or dead,   *)
(* whatever finite number of faults occur.                                 *)
EventuallyFinished ==
    \A r \in Row \ Periodic : Active(r) ~> Finished(r)

(* The periodic task keeps being executed. *)
PeriodicForever == []<>(\E e \in Live : /\ RowOf(e) \in Periodic
                                        /\ At(e, "handler"))
=============================================================================
