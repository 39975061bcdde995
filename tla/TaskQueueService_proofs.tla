------------------------ MODULE TaskQueueService_proofs ------------------------
(***************************************************************************)
(* More proofs about TaskQueue: that it implements TaskService where no    *)
(* process stalls or stops, that the lanes are accounted for, and that an  *)
(* orderly shutdown leaves nothing behind.  All three are about who has a  *)
(* row in hand, so they share what a step can do to a row.                 *)
(***************************************************************************)
EXTENDS TaskQueue_proofs

Fetches(w, r) == fetched[w] # Nothing /\ fetched[w].row = r

(* A failed row waits for its backoff. *)
Backoff(r) == task[r].status = "pending" /\ ~task[r].due

---------------------------------------------------------------------------
(***************************************************************************)
(* What a step can do to a row.                                            *)
(***************************************************************************)
Untouched(r) == /\ task'[r].status = task[r].status
                /\ task'[r].due = task[r].due
                /\ task'[r].stale => task[r].stale

(* The row is taken from whoever has it, by a statement of somebody else.  *)
TakenBack(r) ==
    /\ task[r].status = "processing"
    /\ task'[r].status \in {"pending", "dead"}
    /\ \/ Stuck(r) /\ \E w \in Worker : Sweep(w)
       \/ \E w \in Worker : GiveBack(w) /\ fetched[w].row = r
       \/ \E w \in Worker : ReleaseRemaining(w) /\ r \in remaining[w]
       \/ RequeueOrphans /\ Orphan(r)

SettledBy(e, r) ==
    /\ exec[e] \in Execution
    /\ RowOf(e) = r
    /\ \/ Complete(e)
       \/ Fail(e)
    /\ \/ ~Exists(task[r]) /\ task'[r] = task[r]
       \/ Complete(e) /\ task'[r].status = "completed"
       \/ Fail(e) /\ task'[r].status = "dead"
       \/ Fail(e) /\ ~Exhausted(e) /\ task'[r].status = "pending" /\ ~task'[r].due

RowHistory(r) ==
    \/ Untouched(r)
    \/ BecomeDue(r)
    \/ GoStale(r) \/ Stall(r)
    \/ \E w \in Worker : Dequeue(w, r)
    \/ Fresh(r) /\ task'[r].status = "pending"
    \/ \E e \in Exec : SettledBy(e, r)
    \/ TakenBack(r)
    \/ DeleteQueued /\ Active(r) /\ task'[r].status = "deleted"

(* The two statements that end a task go by its id and by the attempt.     *)
LEMMA SettleStep ==
    ASSUME Typed, NEW e \in Exec, Complete(e) \/ Fail(e)
    PROVE  SettledBy(e, RowOf(e))
<1> USE DEF Typed
<1>1. exec[e] \in Execution
  BY LiveExec DEF Complete, Fail, At
<1> DEFINE r == RowOf(e)
<1>2. /\ r \in Row /\ exec[e].attempt \in Nat
      /\ task[r] \in TaskRow
  BY <1>1 DEF Execution, RowOf, TypeOK
<1>3. /\ Leave(task[r], "completed", FALSE).status = "completed"
      /\ Leave(task[r], "dead", FALSE).status = "dead"
      /\ Leave(task[r], "pending", FALSE).status = "pending"
  BY <1>2, LeaveType DEF Status
<1>4. Leave(task[r], "pending", FALSE).due = FALSE
  BY <1>2 DEF Leave, TaskRow
<1>5. CASE Complete(e)
  <2>1. task'[r] = Completed(task[r])
    BY <1>2, <1>5 DEF Complete, TypeOK
  <2> QED
    BY <2>1, <1>1, <1>3, <1>5 DEF SettledBy, Completed
<1>6. CASE Fail(e)
  <2>1. task'[r] = Failed(r, task[r], exec[e].attempt)
    BY <1>2, <1>6 DEF Fail, TypeOK
  <2>2. /\ Exhausted(e) <=> ~(exec[e].attempt < MaxAttemptsOf(r))
        /\ Exhausted(e) <=> exec[e].attempt >= MaxAttemptsOf(r)
    BY <1>2, MaxAttemptsType DEF Exhausted
  <2>3. CASE ~Exists(task[r])
    <3>1. task'[r] = task[r]
      BY <2>1, <2>3 DEF Failed
    <3> QED
      BY <3>1, <1>1, <1>6, <2>3 DEF SettledBy
  <2>4. CASE Exists(task[r]) /\ Exhausted(e)
    <3>1. task'[r] = Leave(task[r], "dead", FALSE)
      BY <2>1, <2>2, <2>4 DEF Failed
    <3> QED
      BY <3>1, <1>1, <1>3, <1>6 DEF SettledBy
  <2>5. CASE Exists(task[r]) /\ ~Exhausted(e)
    <3>1. task'[r] = Leave(task[r], "pending", FALSE)
      BY <2>1, <2>2, <2>5 DEF Failed
    <3> QED
      BY <3>1, <1>1, <1>3, <1>4, <1>6, <2>5 DEF SettledBy
  <2> QED
    BY <2>3, <2>4, <2>5
<1> QED
  BY <1>5, <1>6

LEMMA RowStepHistory ==
    ASSUME Typed, [Next]_vars, NEW r \in Row
    PROVE  RowHistory(r)
<1> USE DEF Typed
<1>1. task[r] \in TaskRow
  BY DEF TypeOK
<1>2. ASSUME task'[r] = task[r] PROVE RowHistory(r)
  BY <1>2 DEF RowHistory, Untouched
<1>3. ASSUME NEW due \in BOOLEAN, InsertPeriodic(due) PROVE RowHistory(r)
  <2>1. CASE task'[r] = task[r]
    BY <2>1, <1>2
  <2>2. CASE task'[r] # task[r]
    <3>1. Fresh(r) /\ task'[r] = Inserted(due)
      BY <1>3, <2>2 DEF InsertPeriodic, TypeOK, Periodic
    <3>2. task'[r].status = "pending"
      BY <3>1 DEF Inserted, NoTask
    <3> QED
      BY <3>1, <3>2 DEF RowHistory
  <2> QED
    BY <2>1, <2>2
<1>4. ASSUME task[r].status = "processing" PROVE Released(task[r]).status = "pending"
  BY <1>1, <1>4, UnchargedType DEF Released
<1>5. ASSUME NEW w \in Worker, WorkerStep(w) PROVE RowHistory(r)
  <2>1. CASE Seed(w) \/ RescheduleSwept(w)
    BY <2>1, <1>3 DEF Seed, RescheduleSwept
  <2>2. CASE PollBegin(w)
    <3>1. task'[r] = task[r] \/ task'[r] = Renewed(task[r])
      BY <2>2 DEF PollBegin
    <3>2. Untouched(r)
      BY <3>1, <1>1 DEF Renewed, TaskRow, Untouched
    <3> QED
      BY <3>2 DEF RowHistory
  <2>3. CASE Sweep(w)
    <3>1. task'[r] = Swept(r)
      BY <2>3 DEF Sweep
    <3>2. CASE ~Stuck(r)
      <4>1. task'[r] = task[r]
        BY <3>1, <3>2 DEF Swept, DeadLettered
      <4> QED
        BY <4>1, <1>2
    <3>3. CASE Stuck(r)
      <4>1. /\ Leave(task[r], "dead", FALSE).status = "dead"
            /\ Leave(task[r], "pending", FALSE).status = "pending"
        BY <1>1, LeaveType DEF Status
      <4>2. task'[r].status \in {"pending", "dead"}
        BY <3>1, <3>3, <4>1 DEF Swept
      <4> QED
        BY <2>3, <3>3, <4>2 DEF RowHistory, TakenBack, Stuck
    <3> QED
      BY <3>2, <3>3
  <2>4. ASSUME NEW q \in Row, Dequeue(w, q) PROVE RowHistory(r)
    <3>1. CASE q = r
      BY <2>4, <3>1 DEF RowHistory
    <3>2. CASE q # r
      BY <2>4, <3>2, <1>2 DEF Dequeue, TypeOK
    <3> QED
      BY <3>1, <3>2
  <2>5. CASE GiveBack(w)
    <3>1. \/ task'[r] = task[r]
          \/ task'[r] = Released(task[r]) /\ fetched[w].row = r
      BY <2>5 DEF GiveBack, TypeOK
    <3>2. CASE task'[r] = task[r]
      BY <3>2, <1>2
    <3>3. CASE task'[r] # task[r]
      <4>1. task[r].status = "processing" /\ task'[r] = Released(task[r])
        BY <3>1, <3>3 DEF Released
      <4> QED
        BY <2>5, <3>1, <3>3, <4>1, <1>4 DEF RowHistory, TakenBack
    <3> QED
      BY <3>2, <3>3
  <2>6. CASE ReleaseRemaining(w)
    <3>1. \/ task'[r] = task[r]
          \/ task'[r] = Released(task[r]) /\ r \in remaining[w]
      BY <2>6 DEF ReleaseRemaining
    <3>2. CASE task'[r] = task[r]
      BY <3>2, <1>2
    <3>3. CASE task'[r] # task[r]
      <4>1. task[r].status = "processing" /\ task'[r] = Released(task[r])
        BY <3>1, <3>3 DEF Released
      <4> QED
        BY <2>6, <3>1, <3>3, <4>1, <1>4 DEF RowHistory, TakenBack
    <3> QED
      BY <3>2, <3>3
  <2>7. CASE UNCHANGED task
    BY <2>7, <1>2
  <2> QED
    BY <1>5, <2>1, <2>2, <2>3, <2>4, <2>5, <2>6, <2>7 DEF WorkerStep, Boot,
       SkipSweep, LaneDone, Start, StartStopped, Drop, Stop, DrainTimeout, Exit,
       Crash
<1>6. ASSUME NEW e \in Exec, ExecStep(e) PROVE RowHistory(r)
  <2>1. exec[e] \in Execution
    BY <1>6, LiveExec DEF ExecStep, Handle, Claim, ClaimBusy, PassEnds, Complete,
       Throw, Record, RecordThrows, Fail, FailThrows, Reschedule,
       RescheduleThrows, Finally, At
  <2>2. RowOf(e) \in Row /\ exec[e].attempt \in Nat
    BY <2>1 DEF Execution, RowOf
  <2>3. CASE Reschedule(e)
    BY <2>3, <1>3 DEF Reschedule
  <2>4. CASE Handle(e) \/ Record(e) \/ RecordThrows(e)
    <3>1. \/ UNCHANGED task
          \/ task' = [task EXCEPT ![RowOf(e)] = Recorded(task[RowOf(e)])]
      BY <2>4 DEF Handle, Record, RecordThrows
    <3>2. task'[r] = task[r] \/ task'[r] = Recorded(task[r])
      BY <2>2, <3>1 DEF TypeOK
    <3>3. Untouched(r)
      BY <3>2, <1>1 DEF Recorded, TaskRow, Untouched
    <3> QED
      BY <3>3 DEF RowHistory
  <2>5. CASE (Complete(e) \/ Fail(e)) /\ RowOf(e) # r
    BY <2>5, <1>2 DEF Complete, Fail, TypeOK
  <2>6. CASE (Complete(e) \/ Fail(e)) /\ RowOf(e) = r
    <3>1. SettledBy(e, r)
      BY <2>6, SettleStep
    <3> QED
      BY <3>1 DEF RowHistory
  <2>9. CASE UNCHANGED task
    BY <2>9, <1>2
  <2> QED
    BY <1>6, <2>3, <2>4, <2>5, <2>6, <2>9 DEF ExecStep, Claim, ClaimBusy,
       PassEnds, Throw, FailThrows, RescheduleThrows, Finally
<1>7. ASSUME NEW q \in Row, RowStep(q) PROVE RowHistory(r)
  <2>1. CASE q # r
    BY <1>7, <2>1, <1>2 DEF RowStep, Enqueue, BecomeDue, GoStale, Stall, GoAged,
       TypeOK
  <2>2. CASE q = r /\ Enqueue(r)
    <3>1. Fresh(r) /\ task'[r] = Inserted(TRUE)
      BY <2>2 DEF Enqueue, TypeOK
    <3> QED
      BY <3>1 DEF Inserted, NoTask, RowHistory
  <2>3. CASE q = r /\ GoAged(r)
    <3>1. task'[r] = [task[r] EXCEPT !.aged = TRUE]
      BY <2>3 DEF GoAged, TypeOK
    <3>2. Untouched(r)
      BY <3>1, <1>1 DEF Untouched, TaskRow
    <3> QED
      BY <3>2 DEF RowHistory
  <2> QED
    BY <1>7, <2>1, <2>2, <2>3 DEF RowStep, RowHistory
<1>8. CASE ConnectorStep
  <2>1. CASE UNCHANGED task
    BY <2>1, <1>2
  <2>2. CASE RequeueOrphans
    <3>1. \/ task'[r] = task[r]
          \/ /\ Orphan(r)
             /\ \/ task'[r] = Uncharged(task[r])
                \/ task'[r] = Leave(task[r], "dead", FALSE)
      BY <2>2 DEF RequeueOrphans
    <3>2. /\ Uncharged(task[r]).status = "pending"
          /\ Leave(task[r], "dead", FALSE).status = "dead"
      BY <1>1, UnchargedType, LeaveType DEF Status
    <3>3. CASE task'[r] = task[r]
      BY <3>3, <1>2
    <3>4. CASE task'[r] # task[r]
      <4>1. Orphan(r) /\ task'[r].status \in {"pending", "dead"}
        BY <3>1, <3>2, <3>4
      <4> QED
        BY <2>2, <4>1 DEF RowHistory, TakenBack, Orphan
    <3> QED
      BY <3>3, <3>4
  <2>3. CASE DeleteQueued
    <3>1. \/ task'[r] = task[r]
          \/ task'[r] = Leave(task[r], "deleted", FALSE) /\ Active(r)
      BY <2>3 DEF DeleteQueued
    <3>2. Leave(task[r], "deleted", FALSE).status = "deleted"
      BY <1>1, LeaveType DEF Status
    <3> QED
      BY <2>3, <3>1, <3>2, <1>2 DEF RowHistory
  <2> QED
    BY <1>8, <2>1, <2>2, <2>3 DEF ConnectorStep, Supersede, ReapRun
<1>9. CASE UNCHANGED vars
  BY <1>9, <1>2 DEF vars
<1> QED
  BY <1>5, <1>6, <1>7, <1>8, <1>9 DEF Next

---------------------------------------------------------------------------
(***************************************************************************)
(* A calm queue: processes may crash, statements fail and tasks be         *)
(* deleted, but no process stalls past its heartbeat and none is stopped.  *)
(* Then a row that is fetched or executed is in hand: processing and fresh *)
(* (or deleted under its execution), so that no sweep takes it, nobody     *)
(* else has it, and only its own execution ends it.  Permission rows are   *)
(* left out: their orphan requeue looks at the age of the attempt and at   *)
(* the permission run, not at the execution.                               *)
(***************************************************************************)
Calm == Faults["stall"] = 0 /\ Faults["stop"] = 0

Ordinary == {r \in Row : Kind[r] # "perm"}

InHand(r) == \/ task[r].status = "processing" /\ ~task[r].stale
             \/ task[r].status = "deleted"

Settled(r) == task[r].status \in {"completed", "dead", "deleted"}

CalmProcess ==
    /\ faults["stall"] = 0
    /\ faults["stop"] = 0
    /\ \A w \in Worker :
          /\ mode[w] \in {"down", "seeding", "up"}
          /\ poll[w] \notin {"giveback", "drop"}
          /\ remaining[w] = {}
          /\ fetched[w] # Nothing => mode[w] = "up" /\ poll[w] \in Lane
    /\ \A e \in Live : mode[exec[e].worker] = "up"

CalmFetch ==
    \A w \in Worker, r \in Ordinary : Fetches(w, r) =>
        /\ InHand(r)
        /\ \A e \in Exec : ~RunsRow(e, r)
        /\ \A v \in Worker : Fetches(v, r) => v = w

CalmExec ==
    \A e \in Exec, r \in Ordinary : RunsRow(e, r) =>
        /\ r \in active[exec[e].worker]
        /\ \A d \in Exec : RunsRow(d, r) => d = e
        /\ InHand(r) \/ At(e, "reschedule") \/ At(e, "untrack")
        /\ At(e, "untrack") => InHand(r) \/ Backoff(r) \/ Settled(r)
        /\ At(e, "reschedule") => Settled(r)

CalmInv == CalmProcess /\ CalmFetch /\ CalmExec

(* Nothing of the shutdown ever happens.                                   *)
LEMMA NeverStopped ==
    ASSUME Typed, CalmProcess, NEW w \in Worker
    PROVE  /\ ~Stop(w) /\ ~StartStopped(w) /\ ~GiveBack(w) /\ ~Drop(w)
           /\ ~DrainTimeout(w) /\ ~ReleaseRemaining(w) /\ ~Exit(w)
BY DEF CalmProcess, Stop, Spend, StartStopped, GiveBack, Drop, DrainTimeout,
   ReleaseRemaining, Exit, Lane

LEMMA CalmProcessStep ==
    ASSUME Typed, CalmProcess, [Next]_vars
    PROVE  CalmProcess'
<1> USE DEF Typed
<1>1. faults'["stall"] = 0 /\ faults'["stop"] = 0
  <2>1. /\ faults'["stall"] \in Nat /\ faults'["stall"] <= faults["stall"]
        /\ faults'["stop"] \in Nat /\ faults'["stop"] <= faults["stop"]
    BY FaultsSpent DEF FaultKind
  <2> QED
    BY <2>1 DEF CalmProcess
<1>2. ASSUME NEW w \in Worker
      PROVE  /\ mode'[w] \in {"down", "seeding", "up"}
             /\ poll'[w] \notin {"giveback", "drop"}
             /\ remaining'[w] = {}
             /\ fetched'[w] # Nothing => mode'[w] = "up" /\ poll'[w] \in Lane
  <2> DEFINE Same(v) == /\ mode'[v] = mode[v] /\ poll'[v] = poll[v]
                        /\ remaining'[v] = remaining[v]
                        /\ fetched'[v] = fetched[v]
             Goal == /\ mode'[w] \in {"down", "seeding", "up"}
                     /\ poll'[w] \notin {"giveback", "drop"}
                     /\ remaining'[w] = {}
                     /\ fetched'[w] # Nothing => mode'[w] = "up" /\ poll'[w] \in Lane
  <2>1. ASSUME Same(w) PROVE Goal
    BY <2>1 DEF CalmProcess
  <2>2. ASSUME WorkerStep(w) PROVE Goal
    <3>1. CASE Boot(w) \/ Seed(w)
      BY <3>1 DEF Boot, Seed, CalmProcess, TypeOK
    <3>2. CASE PollBegin(w) \/ Sweep(w) \/ SkipSweep(w) \/ RescheduleSwept(w)
      BY <3>2 DEF PollBegin, Sweep, SkipSweep, RescheduleSwept, CalmProcess,
         TypeOK, Lane
    <3>3. ASSUME NEW r \in Row, Dequeue(w, r) PROVE Goal
      BY <3>3 DEF Dequeue, CalmProcess, TypeOK, Lane
    <3>4. CASE LaneDone(w)
      BY <3>4 DEF LaneDone, CalmProcess, TypeOK, Lane, NextLane
    <3>5. ASSUME NEW e \in Exec, Start(w, e) PROVE Goal
      BY <3>5 DEF Start, CalmProcess, TypeOK
    <3>6. CASE Crash(w)
      BY <3>6 DEF Crash, Vanish, CalmProcess, TypeOK
    <3> QED
      BY <2>2, <3>1, <3>2, <3>3, <3>4, <3>5, <3>6, NeverStopped DEF WorkerStep
  <2>3. ASSUME NEW v \in Worker, v # w, WorkerStep(v) PROVE Same(w)
    BY <2>3 DEF WorkerStep, Boot, Seed, PollBegin, Sweep, SkipSweep,
       RescheduleSwept, Dequeue, LaneDone, Start, StartStopped, GiveBack, Drop,
       Stop, DrainTimeout, ReleaseRemaining, Exit, Crash, Vanish, TypeOK
  <2>4. ASSUME NEW e \in Exec, ExecStep(e) PROVE Same(w)
    BY <2>4 DEF ExecStep, Handle, Claim, ClaimBusy, PassEnds, Complete, Throw,
       Record, RecordThrows, Fail, FailThrows, Reschedule, RescheduleThrows,
       Finally, process
  <2>5. ASSUME NEW r \in Row, RowStep(r) PROVE Same(w)
    BY <2>5 DEF RowStep, Enqueue, BecomeDue, GoStale, Stall, GoAged, process
  <2>6. ConnectorStep => Same(w)
    BY DEF ConnectorStep, Supersede, ReapRun, RequeueOrphans, DeleteQueued, process
  <2>7. UNCHANGED vars => Same(w)
    BY DEF vars
  <2> QED
    BY <2>1, <2>2, <2>3, <2>4, <2>5, <2>6, <2>7 DEF Next
<1>3. ASSUME NEW e \in Exec, exec'[e] # NoExec
      PROVE  mode'[exec'[e].worker] = "up"
  <2>1. ASSUME NEW w \in Worker, Start(w, e) PROVE mode'[exec'[e].worker] = "up"
    BY <2>1 DEF Start, TypeOK
  <2>2. ASSUME e \in Live, exec'[e].worker = exec[e].worker
        PROVE  mode'[exec'[e].worker] = "up"
    <3>1. exec[e].worker \in Worker /\ mode[exec[e].worker] = "up"
      BY <2>2 DEF CalmProcess, TypeOK, Live, Execution
    <3>2. ASSUME NEW w \in Worker, WorkerStep(w) PROVE mode'[exec[e].worker] = "up"
      <4>1. CASE Crash(w)
        <5>1. exec[e].worker # w
          BY <2>2, <4>1, <1>3 DEF Crash, Vanish
        <5> QED
          BY <3>1, <4>1, <5>1 DEF Crash, Vanish, TypeOK
      <4>2. CASE Boot(w) \/ Seed(w)
        BY <3>1, <4>2 DEF Boot, Seed, TypeOK
      <4>3. CASE mode' = mode
        BY <3>1, <4>3
      <4> QED
        BY <3>2, <4>1, <4>2, <4>3, NeverStopped DEF WorkerStep, PollBegin, Sweep,
           SkipSweep, RescheduleSwept, Dequeue, LaneDone, Start
    <3>3. ASSUME NEW d \in Exec, ExecStep(d) PROVE mode' = mode
      BY <3>3 DEF ExecStep, Handle, Claim, ClaimBusy, PassEnds, Complete, Throw,
         Record, RecordThrows, Fail, FailThrows, Reschedule, RescheduleThrows,
         Finally, process
    <3>4. ASSUME NEW r \in Row, RowStep(r) PROVE mode' = mode
      BY <3>4 DEF RowStep, Enqueue, BecomeDue, GoStale, Stall, GoAged, process
    <3>5. ConnectorStep => mode' = mode
      BY DEF ConnectorStep, Supersede, ReapRun, RequeueOrphans, DeleteQueued,
         process
    <3>6. UNCHANGED vars => mode' = mode
      BY DEF vars
    <3> QED
      BY <2>2, <3>1, <3>2, <3>3, <3>4, <3>5, <3>6 DEF Next
  <2> QED
    BY <1>3, <2>1, <2>2, ExecutionHistory DEF SameExec, Live
<1> QED
  BY <1>1, <1>2, <1>3 DEF CalmProcess, Live

LEMMA CalmHolds ==
    ASSUME Typed, CalmInv, NEW r \in Ordinary,
           (\E w \in Worker : Fetches(w, r)) \/ (\E e \in Exec : RunsRow(e, r))
    PROVE  \E w \in Worker : Holds(w, r)
<1>1. ASSUME NEW e \in Exec, RunsRow(e, r) PROVE \E w \in Worker : Holds(w, r)
  BY <1>1 DEF CalmInv, CalmExec, Holds, RunsRow, Live, Typed, TypeOK, Execution
<1> QED
  BY <1>1 DEF Fetches, Holds

(* A row in hand stays so until its own execution settles it.              *)
LEMMA CalmInHand ==
    ASSUME Typed, CalmInv, [Next]_vars, NEW r \in Ordinary, InHand(r),
           (\E w \in Worker : Fetches(w, r)) \/ (\E e \in Exec : RunsRow(e, r))
    PROVE  InHand(r)' \/ \E e \in Exec : SettledBy(e, r)
<1> USE DEF CalmInv
<1>1. r \in Row /\ task[r] \in TaskRow /\ Kind[r] # "perm"
  BY DEF Ordinary, Typed, TypeOK
<1>2. CASE Untouched(r)
  BY <1>2 DEF Untouched, InHand
<1>3. ~BecomeDue(r) /\ ~Fresh(r) /\ \A w \in Worker : ~Dequeue(w, r)
  BY DEF BecomeDue, Fresh, Finished, Dequeue, DueIn, InHand
<1>4. ~GoStale(r) /\ ~Stall(r)
  BY CalmHolds DEF GoStale, Stall, Spend, CalmProcess
<1>5. ~TakenBack(r)
  BY <1>1, NeverStopped DEF TakenBack, Stuck, InHand, Orphan
<1>6. CASE task'[r].status = "deleted"
  BY <1>6 DEF InHand
<1> QED
  BY <1>1, <1>2, <1>3, <1>4, <1>5, <1>6, RowStepHistory DEF RowHistory

(* A settled row stays so while an execution still refers to it, and a row *)
(* that waits for its backoff waits until it is untracked.                 *)
LEMMA CalmSettled ==
    ASSUME Typed, CalmInv, [Next]_vars, NEW r \in Ordinary,
           NEW e \in Exec, RunsRow(e, r),
           At(e, "untrack") \/ At(e, "reschedule")
    PROVE  /\ Settled(r) => Settled(r)'
           /\ At(e, "untrack") /\ Backoff(r) => Backoff(r)' \/ Settled(r)'
           /\ \A d \in Exec : ~SettledBy(d, r)
<1> USE DEF CalmInv
<1>1. r \in Row /\ task[r] \in TaskRow /\ Kind[r] # "perm"
  BY DEF Ordinary, Typed, TypeOK
<1>2. ASSUME NEW d \in Exec, SettledBy(d, r) PROVE FALSE
  <2>1. RunsRow(d, r)
    BY <1>2 DEF SettledBy, RunsRow, RowOf, Live, Execution, NoExec
  <2>2. d = e
    BY <2>1 DEF CalmExec
  <2> QED
    BY <1>2, <2>2 DEF SettledBy, Complete, Fail, At
<1>3. ASSUME Settled(r) PROVE Settled(r)'
  <2>1. CASE Untouched(r)
    BY <1>3, <2>1 DEF Untouched, Settled
  <2>2. /\ ~BecomeDue(r) /\ ~GoStale(r) /\ ~Stall(r) /\ ~TakenBack(r)
        /\ ~Active(r) /\ ~Fresh(r)
        /\ \A w \in Worker : ~Dequeue(w, r)
    BY <1>3 DEF Settled, BecomeDue, GoStale, Stall, TakenBack, Active, Dequeue,
       DueIn, Fresh
  <2> QED
    BY <1>1, <1>2, <2>1, <2>2, RowStepHistory DEF RowHistory
<1>4. ASSUME At(e, "untrack"), Backoff(r) PROVE Backoff(r)' \/ Settled(r)'
  <2>1. CASE Untouched(r)
    BY <1>4, <2>1 DEF Untouched, Backoff
  <2>2. /\ ~BecomeDue(r) /\ ~GoStale(r) /\ ~Stall(r) /\ ~TakenBack(r) /\ ~Fresh(r)
        /\ \A w \in Worker : ~Dequeue(w, r)
    BY <1>4 DEF Backoff, BecomeDue, GoStale, Stall, TakenBack, Dequeue, DueIn,
       Fresh, Finished
  <2>3. CASE task'[r].status = "deleted"
    BY <2>3 DEF Settled
  <2> QED
    BY <1>1, <1>2, <2>1, <2>2, <2>3, RowStepHistory DEF RowHistory
<1> QED
  BY <1>2, <1>3, <1>4

(* While it runs, an execution's row stays among its process's tasks.      *)
LEMMA CalmTracked ==
    ASSUME Typed, CalmInv, [Next]_vars, NEW r \in Ordinary,
           NEW e \in Exec, RunsRow(e, r), exec'[e] # NoExec
    PROVE  r \in active'[exec[e].worker]
<1> USE DEF Typed, CalmInv
<1> DEFINE u == exec[e].worker
<1>1. /\ u \in Worker /\ r \in active[u] /\ exec[e] \in Execution
      /\ exec[e].row = r
  BY DEF CalmExec, RunsRow, Live, TypeOK, Execution
<1>2. ASSUME UNCHANGED active PROVE r \in active'[u]
  BY <1>1, <1>2
<1>3. ASSUME NEW w \in Worker, WorkerStep(w) PROVE r \in active'[u]
  <2>1. ASSUME NEW d \in Exec, Start(w, d) PROVE r \in active'[u]
    BY <1>1, <2>1 DEF Start, TrackRow, TypeOK
  <2>2. CASE Crash(w)
    <3>1. u # w
      BY <2>2, <1>1 DEF Crash, Vanish, RunsRow
    <3> QED
      BY <1>1, <2>2, <3>1 DEF Crash, Vanish, TypeOK
  <2> QED
    BY <1>2, <1>3, <2>1, <2>2, NeverStopped DEF WorkerStep, Boot, Seed, PollBegin,
       Sweep, SkipSweep, RescheduleSwept, Dequeue, LaneDone
<1>4. ASSUME NEW d \in Exec, ExecStep(d) PROVE r \in active'[u]
  <2>1. CASE Finally(d)
    <3>1. d # e
      BY <2>1 DEF Finally, TypeOK
    <3>2. exec[d] # NoExec
      BY <2>1 DEF Finally, At, NoExec
    <3>3. RowOf(d) # r
      <4>1. RowOf(d) = r => RunsRow(d, r)
        BY <3>2 DEF RunsRow, RowOf, Live
      <4> QED
        BY <3>1, <4>1 DEF CalmExec
    <3>4. active' = [active EXCEPT ![exec[d].worker] =
                        active[exec[d].worker] \ {RowOf(d)}]
      BY <2>1 DEF Finally, Untrack
    <3> QED
      BY <1>1, <3>3, <3>4 DEF TypeOK
  <2> QED
    BY <1>2, <1>4, <2>1 DEF ExecStep, Handle, Claim, ClaimBusy, PassEnds, Complete,
       Throw, Record, RecordThrows, Fail, FailThrows, Reschedule,
       RescheduleThrows, process
<1>5. ASSUME NEW q \in Row, RowStep(q) PROVE UNCHANGED active
  BY <1>5 DEF RowStep, Enqueue, BecomeDue, GoStale, Stall, GoAged, process
<1>6. ConnectorStep => UNCHANGED active
  BY DEF ConnectorStep, Supersede, ReapRun, RequeueOrphans, DeleteQueued, process
<1>7. UNCHANGED vars => UNCHANGED active
  BY DEF vars
<1> QED
  BY <1>2, <1>3, <1>4, <1>5, <1>6, <1>7 DEF Next

(* Who runs a row ran it before, or had it fetched.                        *)
LEMMA RunsHistory ==
    ASSUME Typed, [Next]_vars, NEW e \in Exec, NEW r, RunsRow(e, r)'
    PROVE  \/ RunsRow(e, r) /\ exec'[e] = exec[e]
           \/ RunsRow(e, r) /\ SameExec(e) /\ ExecStep(e)
           \/ \E w \in Worker : Start(w, e) /\ Fetches(w, r)
BY ExecutionHistory DEF RunsRow, Live, SameExec, Started, Fetches

LEMMA FetchesHistory ==
    ASSUME Typed, [Next]_vars, NEW w \in Worker, NEW r, Fetches(w, r)'
    PROVE  \/ Fetches(w, r) /\ fetched'[w] = fetched[w]
           \/ r \in Row /\ Dequeue(w, r)
<1>1. ASSUME NEW q \in Row, Dequeue(w, q) PROVE q = r
  BY <1>1 DEF Dequeue, Fetches, Typed, TypeOK
<1> QED
  BY <1>1, FetchHistory DEF Fetches

LEMMA CalmFetchStep ==
    ASSUME Typed, CalmInv, [Next]_vars
    PROVE  CalmFetch'
<1> USE DEF CalmInv
<1> SUFFICES ASSUME NEW w \in Worker, NEW r \in Ordinary, Fetches(w, r)'
             PROVE  /\ InHand(r)'
                    /\ \A e \in Exec : ~RunsRow(e, r)'
                    /\ \A v \in Worker : Fetches(v, r)' => v = w
  BY DEF CalmFetch
<1>1. r \in Row /\ task[r] \in TaskRow
  BY DEF Ordinary, Typed, TypeOK
<1>2. ASSUME NEW v \in Worker, Dequeue(v, r)
      PROVE  /\ ~InHand(r) /\ ~Backoff(r) /\ ~Settled(r) /\ InHand(r)'
             /\ \A u \in Worker : ~Fetches(u, r)
             /\ \A e \in Exec : ~RunsRow(e, r)
  <2>1. task[r].status = "pending" /\ task[r].due
    BY <1>2 DEF Dequeue, DueIn
  <2>2. ~InHand(r) /\ ~Backoff(r) /\ ~Settled(r)
    BY <2>1 DEF InHand, Backoff, Settled
  <2>3. task'[r] = Dequeued(task[r])
    BY <1>1, <1>2 DEF Dequeue, Typed, TypeOK
  <2>4. task'[r].status = "processing" /\ task'[r].stale = FALSE
    BY <1>1, <2>3 DEF Dequeued, TaskRow
  <2> QED
    BY <2>2, <2>4 DEF InHand, CalmFetch, CalmExec
<1>3. CASE Fetches(w, r) /\ fetched'[w] = fetched[w]
  <2>1. \A e \in Exec : ~SettledBy(e, r)
    BY <1>3 DEF CalmFetch, SettledBy, RunsRow, RowOf, Live, Execution, NoExec
  <2>2. InHand(r)'
    BY <1>3, <2>1, CalmInHand DEF CalmFetch
  <2>3. ASSUME NEW e \in Exec, RunsRow(e, r)' PROVE FALSE
    <3>1. ASSUME NEW v \in Worker, Start(v, e), Fetches(v, r) PROVE FALSE
      <4>1. v = w
        BY <1>3, <3>1 DEF CalmFetch
      <4>2. fetched'[w] = Nothing
        BY <3>1, <4>1 DEF Start, Typed, TypeOK
      <4> QED
        BY <1>3, <4>2 DEF Fetches
    <3> QED
      BY <1>3, <2>3, <3>1, RunsHistory DEF CalmFetch
  <2>4. ASSUME NEW v \in Worker, Fetches(v, r)' PROVE v = w
    BY <1>2, <1>3, <2>4, FetchesHistory DEF CalmFetch
  <2> QED
    BY <2>2, <2>3, <2>4
<1>4. CASE Dequeue(w, r)
  <2>1. UNCHANGED exec
    BY <1>4 DEF Dequeue
  <2>2. \A e \in Exec : ~RunsRow(e, r)'
    BY <1>2, <1>4, <2>1 DEF RunsRow, Live
  <2>3. ASSUME NEW v \in Worker, Fetches(v, r)' PROVE v = w
    <3>1. v # w => fetched'[v] = fetched[v]
      BY <1>4 DEF Dequeue, Typed, TypeOK
    <3> QED
      BY <1>2, <1>4, <2>3, <3>1 DEF Fetches
  <2> QED
    BY <1>2, <1>4, <2>2, <2>3
<1> QED
  BY <1>3, <1>4, FetchesHistory

LEMMA CalmExecStep ==
    ASSUME Typed, CalmInv, [Next]_vars
    PROVE  CalmExec'
<1> USE DEF CalmInv
<1> SUFFICES ASSUME NEW e \in Exec, NEW r \in Ordinary, RunsRow(e, r)'
             PROVE  /\ r \in active'[exec'[e].worker]
                    /\ \A d \in Exec : RunsRow(d, r)' => d = e
                    /\ (InHand(r) \/ At(e, "reschedule") \/ At(e, "untrack"))'
                    /\ (At(e, "untrack") => InHand(r) \/ Backoff(r) \/ Settled(r))'
                    /\ (At(e, "reschedule") => Settled(r))'
  BY DEF CalmExec
<1>1. r \in Row /\ task[r] \in TaskRow
  BY DEF Ordinary, Typed, TypeOK
<1> DEFINE Stage == /\ InHand(r) \/ At(e, "reschedule") \/ At(e, "untrack")
                    /\ At(e, "untrack") => InHand(r) \/ Backoff(r) \/ Settled(r)
                    /\ At(e, "reschedule") => Settled(r)
<1>2. CASE RunsRow(e, r)
  <2>1. r \in active'[exec'[e].worker]
    <3>1. exec'[e] # NoExec
      BY DEF RunsRow, Live
    <3>2. exec'[e].worker = exec[e].worker
      <4>1. ~\E w \in Worker : Start(w, e)
        BY <1>2 DEF Start, RunsRow
      <4> QED
        BY <4>1, RunsHistory DEF SameExec
    <3> QED
      BY <1>2, <3>1, <3>2, CalmTracked
  <2>2. ASSUME NEW d \in Exec, RunsRow(d, r)' PROVE d = e
    <3>1. ~\E w \in Worker : Fetches(w, r)
      BY <1>2 DEF CalmFetch
    <3>2. RunsRow(d, r)
      BY <2>2, <3>1, RunsHistory
    <3> QED
      BY <1>2, <3>2 DEF CalmExec
  <2>3. Stage
    BY <1>2 DEF CalmExec
  <2>4. exec[e] \in Execution /\ RowOf(e) = r
    BY <1>2 DEF RunsRow, Live, Typed, TypeOK, RowOf
  <2>5. ASSUME NEW d \in Exec, SettledBy(d, r) PROVE d = e
    <3>1. RunsRow(d, r)
      BY <2>5 DEF SettledBy, RunsRow, RowOf, Live, Execution, NoExec
    <3> QED
      BY <1>2, <3>1 DEF CalmExec
  <2>6. ASSUME NEW pc \in ExecPC, Goto(e, pc) PROVE exec'[e].pc = pc
    BY <2>4, <2>6 DEF Goto, Typed, TypeOK, Execution
  <2>7. CASE exec'[e] = exec[e]
    <3>1. ~SettledBy(e, r)
      <4>1. SettledBy(e, r) => exec'[e].pc \in {"reschedule", "untrack"}
        BY <2>6 DEF SettledBy, Complete, Fail, ExecPC
      <4>2. SettledBy(e, r) => exec[e].pc \in {"complete", "fail"}
        BY DEF SettledBy, Complete, Fail, At
      <4> QED
        BY <2>7, <4>1, <4>2
    <3>2. \A d \in Exec : ~SettledBy(d, r)
      BY <2>5, <3>1
    <3>3. /\ At(e, "untrack")' <=> At(e, "untrack")
          /\ At(e, "reschedule")' <=> At(e, "reschedule")
      BY <2>7 DEF At
    <3>4. InHand(r) => InHand(r)'
      BY <1>2, <3>2, CalmInHand
    <3>5. CASE At(e, "untrack") \/ At(e, "reschedule")
      <4>1. Settled(r) => Settled(r)'
        BY <1>2, <3>5, CalmSettled
      <4>2. At(e, "untrack") /\ Backoff(r) => Backoff(r)' \/ Settled(r)'
        BY <1>2, <3>5, CalmSettled
      <4> QED
        BY <2>1, <2>2, <2>3, <3>3, <3>4, <3>5, <4>1, <4>2
    <3>6. CASE ~At(e, "untrack") /\ ~At(e, "reschedule")
      BY <2>1, <2>2, <2>3, <3>3, <3>4, <3>6
    <3> QED
      BY <2>1, <2>2, <3>5, <3>6
  <2>8. CASE SameExec(e) /\ ExecStep(e)
    <3>1. exec'[e] # NoExec
      BY <2>8 DEF SameExec
    <3>2. ~Finally(e)
      BY <3>1 DEF Finally, Typed, TypeOK
    <3>3. ASSUME exec[e].pc \notin {"reschedule", "untrack"}, UNCHANGED task
          PROVE  InHand(r)'
      BY <2>3, <3>3 DEF At, InHand
    <3>4. CASE \/ Handle(e) \/ Claim(e) \/ ClaimBusy(e) \/ PassEnds(e) \/ Throw(e)
               \/ Record(e) \/ RecordThrows(e) \/ FailThrows(e)
      <4>1. exec'[e].pc \in {"complete", "pass", "fail", "record", "untrack"}
        BY <2>6, <3>4 DEF Handle, Claim, ClaimBusy, PassEnds, Throw, Record,
           RecordThrows, FailThrows, ExecPC
      <4>2. InHand(r)
        BY <2>3, <3>4 DEF Handle, Claim, ClaimBusy, PassEnds, Throw, Record,
           RecordThrows, FailThrows, At
      <4>3. \/ UNCHANGED task
            \/ task' = [task EXCEPT ![r] = Recorded(task[r])]
        BY <2>4, <3>4 DEF Handle, Claim, ClaimBusy, PassEnds, Throw, Record,
           RecordThrows, FailThrows
      <4>4. task'[r] = task[r] \/ task'[r] = Recorded(task[r])
        BY <1>1, <4>3 DEF Typed, TypeOK
      <4>5. task'[r].status = task[r].status /\ task'[r].stale = task[r].stale
        BY <1>1, <4>4 DEF Recorded, TaskRow
      <4>6. InHand(r)'
        BY <4>2, <4>5 DEF InHand
      <4> QED
        BY <2>1, <2>2, <4>1, <4>6 DEF At
    <3>5. CASE Complete(e) \/ Fail(e)
      <4>1. InHand(r) /\ SettledBy(e, r)
        BY <2>3, <2>4, <3>5, SettleStep DEF Complete, Fail, At
      <4>2. exec'[e].pc \in {"reschedule", "untrack"}
        BY <2>6, <3>5 DEF Complete, Fail, ExecPC
      <4>3. CASE Settled(r)'
        BY <2>1, <2>2, <4>2, <4>3 DEF At
      <4>4. CASE ~Exists(task[r]) /\ task'[r] = task[r]
        BY <4>1, <4>3, <4>4 DEF InHand, Exists, Settled
      <4>5. CASE Fail(e) /\ ~Exhausted(e) /\ Backoff(r)'
        <5>1. exec'[e].pc = "untrack"
          BY <2>6, <4>5 DEF Fail, ExecPC
        <5> QED
          BY <2>1, <2>2, <4>5, <5>1 DEF At
      <4> QED
        BY <4>1, <4>3, <4>4, <4>5 DEF SettledBy, Settled, Backoff
    <3>6. CASE Reschedule(e) \/ RescheduleThrows(e)
      <4>1. exec'[e].pc = "untrack" /\ At(e, "reschedule")
        BY <2>6, <3>6 DEF Reschedule, RescheduleThrows, ExecPC
      <4>2. Settled(r)'
        BY <1>2, <2>3, <4>1, CalmSettled
      <4> QED
        BY <2>1, <2>2, <4>1, <4>2 DEF At
    <3> QED
      BY <2>8, <3>2, <3>4, <3>5, <3>6 DEF ExecStep
  <2> QED
    BY <1>2, <2>7, <2>8, RunsHistory DEF Start, RunsRow
<1>3. ASSUME NEW w \in Worker, Start(w, e), Fetches(w, r)
      PROVE  /\ r \in active'[exec'[e].worker]
             /\ \A d \in Exec : RunsRow(d, r)' => d = e
             /\ Stage'
  <2>1. exec'[e].worker = w /\ exec'[e].pc = "handler"
    BY <1>3 DEF Start, Typed, TypeOK
  <2>2. r \in active'[w]
    BY <1>3 DEF Start, TrackRow, Fetches, Typed, TypeOK
  <2>3. ASSUME NEW d \in Exec, RunsRow(d, r)' PROVE d = e
    <3>1. ~RunsRow(d, r)
      BY <1>3 DEF CalmFetch
    <3>2. d # e => exec'[d] = exec[d]
      BY <1>3 DEF Start, Typed, TypeOK
    <3> QED
      BY <2>3, <3>1, <3>2 DEF RunsRow, Live
  <2>4. InHand(r)'
    BY <1>3 DEF Start, CalmFetch, InHand
  <2> QED
    BY <2>1, <2>2, <2>3, <2>4 DEF At
<1> QED
  BY <1>2, <1>3, RunsHistory

LEMMA CalmStep == Typed /\ CalmInv /\ [Next]_vars => CalmInv'
BY CalmProcessStep, CalmFetchStep, CalmExecStep DEF CalmInv

LEMMA CalmInit == Init /\ Calm => CalmInv
<1> SUFFICES ASSUME Init, Calm PROVE CalmInv
  OBVIOUS
<1>1. CalmProcess
  BY DEF Init, Calm, CalmProcess, Live
<1>2. CalmFetch /\ CalmExec
  BY DEF Init, CalmFetch, CalmExec, Fetches, RunsRow, Live
<1> QED
  BY <1>1, <1>2 DEF CalmInv

---------------------------------------------------------------------------
(***************************************************************************)
(* The refinement.                                                         *)
(***************************************************************************)
NoneDeleted == /\ faults["supersede"] = 0
               /\ \A r \in Row : task[r].status # "deleted"

ServiceInv == Typed /\ CalmInv /\ NoneDeleted

Stage(r) == StageOf[task[r].status]
Holders(r) == {e \in Exec : Executes(e, r)}

LEMMA NoneDeletedStep == Typed /\ NoneDeleted /\ [Next]_vars => NoneDeleted'
<1> SUFFICES ASSUME Typed, NoneDeleted, [Next]_vars PROVE NoneDeleted'
  OBVIOUS
<1>1. faults'["supersede"] \in Nat /\ faults'["supersede"] <= faults["supersede"]
  BY FaultsSpent DEF FaultKind
<1>2. ASSUME NEW r \in Row PROVE task'[r].status # "deleted"
  <2>1. task[r] \in TaskRow /\ task[r].status # "deleted"
    BY DEF Typed, TypeOK, NoneDeleted
  <2>2. ~DeleteQueued
    BY DEF DeleteQueued, Spend, NoneDeleted
  <2>3. BecomeDue(r) \/ GoStale(r) \/ Stall(r) => task'[r].status = task[r].status
    BY <2>1 DEF BecomeDue, GoStale, Stall, Typed, TypeOK, TaskRow
  <2>4. ASSUME NEW w \in Worker, Dequeue(w, r) PROVE task'[r].status = "processing"
    <3>1. task'[r] = Dequeued(task[r])
      BY <2>4 DEF Dequeue, Typed, TypeOK
    <3> QED
      BY <2>1, <3>1 DEF Dequeued, TaskRow
  <2> QED
    BY <2>1, <2>2, <2>3, <2>4, RowStepHistory DEF RowHistory, Untouched, SettledBy,
       TakenBack
<1> QED
  BY <1>1, <1>2 DEF NoneDeleted

LEMMA StageOfStatus ==
    ASSUME Typed, NEW r \in Row
    PROVE  /\ Stage(r) \in {"none", "open", "closed"}
           /\ Stage(r) = "none" <=> task[r].status = "absent"
           /\ Stage(r) = "open" <=> Active(r)
           /\ Stage(r) = "closed" <=> Settled(r)
<1>1. task[r].status \in Status
  BY DEF Typed, TypeOK, TaskRow
<1> QED
  BY <1>1 DEF Stage, StageOf, Status, Active, Settled

(* What becomes of a row's stage.                                          *)
LEMMA StageStep ==
    ASSUME ServiceInv, [Next]_vars, NEW r \in Ordinary
    PROVE  \/ Stage(r)' = Stage(r)
           \/ Stage(r) = "open" /\ Stage(r)' = "closed"
           \/ /\ Fresh(r)
              /\ Stage(r)' = "open"
              /\ Stage(r) = "none" \/ (Stage(r) = "closed" /\ r \in Periodic)
<1> USE DEF ServiceInv
<1>1. r \in Row /\ task[r] \in TaskRow
  BY DEF Ordinary, Typed, TypeOK
<1>2. ASSUME task'[r].status = task[r].status PROVE Stage(r)' = Stage(r)
  BY <1>2 DEF Stage
<1>3. ~DeleteQueued
  BY DEF DeleteQueued, Spend, NoneDeleted
<1>4. BecomeDue(r) \/ GoStale(r) \/ Stall(r) => task'[r].status = task[r].status
  BY <1>1 DEF BecomeDue, GoStale, Stall, Typed, TypeOK, TaskRow
<1>5. ASSUME NEW w \in Worker, Dequeue(w, r) PROVE Stage(r)' = Stage(r)
  <2>1. task'[r] = Dequeued(task[r]) /\ task[r].status = "pending"
    BY <1>1, <1>5 DEF Dequeue, DueIn, Typed, TypeOK
  <2>2. task'[r].status = "processing"
    BY <1>1, <2>1 DEF Dequeued, TaskRow
  <2> QED
    BY <2>1, <2>2 DEF Stage, StageOf
<1>6. CASE Fresh(r) /\ task'[r].status = "pending"
  BY <1>1, <1>6 DEF Fresh, Finished, Stage, StageOf, Periodic
<1>7. ASSUME NEW e \in Exec, SettledBy(e, r)
      PROVE  Stage(r)' = Stage(r) \/ (Stage(r) = "open" /\ Stage(r)' = "closed")
  <2>1. InHand(r)
    <3>1. RunsRow(e, r) /\ ~At(e, "untrack") /\ ~At(e, "reschedule")
      BY <1>7 DEF SettledBy, RunsRow, RowOf, Live, Execution, NoExec, Complete,
         Fail, At
    <3> QED
      BY <3>1 DEF CalmInv, CalmExec
  <2>2. task[r].status = "processing"
    BY <1>1, <2>1 DEF InHand, NoneDeleted
  <2>3. task'[r] = task[r] \/ task'[r].status \in {"completed", "dead", "pending"}
    BY <1>7 DEF SettledBy
  <2> QED
    BY <2>2, <2>3 DEF Stage, StageOf
<1>8. CASE TakenBack(r)
  BY <1>8 DEF TakenBack, Stage, StageOf
<1> QED
  BY <1>1, <1>2, <1>3, <1>4, <1>5, <1>6, <1>7, <1>8, RowStepHistory DEF RowHistory,
     Untouched

LEMMA HoldersRun ==
    ASSUME Typed, NEW e \in Exec, NEW r
    PROVE  /\ Executes(e, r) => RunsRow(e, r)
           /\ RunsRow(e, r) => \/ Executes(e, r)
                               \/ At(e, "untrack") \/ At(e, "reschedule")
           /\ Executes(e, r) => ~At(e, "untrack") /\ ~At(e, "reschedule")
BY DEF Executes, RunsRow, Live, At, ExecPC, NoExec, Typed, TypeOK, Execution

(* An execution that has settled its row executes it no more.              *)
LEMMA NoneExecutesAgain ==
    ASSUME Typed, CalmInv, [Next]_vars, NEW r \in Ordinary, NEW e \in Exec,
           RunsRow(e, r), ~Executes(e, r)
    PROVE  ~Executes(e, r)'
<1> SUFFICES ASSUME Executes(e, r)' PROVE FALSE
  OBVIOUS
<1>1. Typed'
  BY StepType
<1>2. At(e, "untrack") \/ At(e, "reschedule")
  BY HoldersRun
<1>3. RunsRow(e, r)'
  BY <1>1 DEF Executes, RunsRow, Live, ExecPC, NoExec, Typed, TypeOK
<1>4. exec[e] \in Execution
  BY DEF Typed, TypeOK, RunsRow, Live
<1>5. exec'[e] # exec[e]
  BY <1>2 DEF Executes, At
<1>6. SameExec(e) /\ ExecStep(e)
  BY <1>3, <1>5, RunsHistory DEF Start, RunsRow
<1>7. Reschedule(e) \/ RescheduleThrows(e) \/ Finally(e)
  BY <1>2, <1>6 DEF ExecStep, Handle, Claim, ClaimBusy, PassEnds, Complete, Throw,
     Record, RecordThrows, Fail, FailThrows, At
<1>8. ~Finally(e)
  BY <1>6 DEF Finally, SameExec, Typed, TypeOK
<1>9. exec'[e].pc = "untrack"
  BY <1>4, <1>7, <1>8 DEF Reschedule, RescheduleThrows, Goto, Typed, TypeOK,
     Execution
<1> QED
  BY <1>9 DEF Executes

(* One row's step is a step of the service.                                *)
LEMMA RowServes ==
    ASSUME ServiceInv, ServiceInv', [Next]_vars, NEW r \in Ordinary
    PROVE  \/ Stage(r)' = Stage(r) /\ Holders(r)' = Holders(r)
           \/ /\ Stage(r) = "none" \/ (Stage(r) = "closed" /\ r \in Periodic)
              /\ Holders(r) = {} /\ Stage(r)' = "open" /\ Holders(r)' = {}
           \/ /\ Stage(r) = "open" /\ Holders(r) = {} /\ Stage(r)' = "open"
              /\ \E e \in Exec : Holders(r)' = {e}
           \/ Stage(r) = "open" /\ Stage(r)' = "open" /\ Holders(r)' = {}
           \/ Stage(r) = "open" /\ Stage(r)' = "closed" /\ Holders(r)' = {}
<1> USE DEF ServiceInv
<1>1. r \in Row
  BY DEF Ordinary
<1>2. ASSUME NEW e \in Exec, Executes(e, r) PROVE Stage(r) = "open"
  <2>1. InHand(r)
    BY <1>2, HoldersRun DEF CalmInv, CalmExec
  <2> QED
    BY <1>1, <2>1, StageOfStatus DEF InHand, NoneDeleted, Active
<1>3. ASSUME NEW e \in Exec, Executes(e, r)' PROVE Stage(r)' = "open"
  <2>1. RunsRow(e, r)' /\ ~At(e, "untrack")' /\ ~At(e, "reschedule")'
    BY <1>3 DEF Executes, RunsRow, Live, At, ExecPC, NoExec, Typed, TypeOK
  <2>2. InHand(r)'
    BY <2>1 DEF CalmInv, CalmExec
  <2>3. task'[r].status = "processing"
    BY <1>1, <2>2 DEF InHand, NoneDeleted
  <2> QED
    BY <2>3 DEF Stage, StageOf
<1>4. CASE \E e \in Exec : RunsRow(e, r)
  <2> PICK e \in Exec : RunsRow(e, r)
    BY <1>4
  <2>1. \A d \in Exec : RunsRow(d, r) => d = e
    BY DEF CalmInv, CalmExec
  <2>2. \A w \in Worker : ~Fetches(w, r)
    BY DEF CalmInv, CalmFetch
  <2>3. Holders(r) \subseteq {e}
    BY <2>1, HoldersRun DEF Holders
  <2>4. Holders(r)' \subseteq {e}
    <3>1. ASSUME NEW d \in Exec, Executes(d, r)' PROVE d = e
      <4>1. RunsRow(d, r)'
        BY <3>1 DEF Executes, RunsRow, Live, ExecPC, NoExec, Typed, TypeOK
      <4> QED
        BY <2>1, <2>2, <4>1, RunsHistory
    <3> QED
      BY <3>1 DEF Holders
  <2>5. task[r].status # "absent"
    BY <2>1 DEF CalmInv, CalmExec, InHand, Backoff, Settled
  <2>6. \/ Stage(r)' = Stage(r)
        \/ Stage(r) = "open" /\ Stage(r)' = "closed"
    BY <2>5, StageStep DEF Fresh
  <2>7. Stage(r) \in {"open", "closed"}
    BY <1>1, <2>5, StageOfStatus
  <2>8. CASE Executes(e, r)
    <3>1. Stage(r) = "open" /\ Holders(r) = {e}
      BY <1>2, <2>3, <2>8 DEF Holders
    <3>2. CASE Executes(e, r)'
      <4>1. Stage(r)' = "open" /\ Holders(r)' = {e}
        BY <1>3, <2>4, <3>2 DEF Holders
      <4> QED
        BY <3>1, <4>1
    <3>3. CASE ~Executes(e, r)'
      <4>1. Holders(r)' = {}
        BY <2>4, <3>3 DEF Holders
      <4> QED
        BY <2>6, <3>1, <4>1
    <3> QED
      BY <3>2, <3>3
  <2>9. CASE ~Executes(e, r)
    <3>1. Holders(r) = {}
      BY <2>3, <2>9 DEF Holders
    <3>2. ~Executes(e, r)'
      BY <2>9, NoneExecutesAgain
    <3>3. Holders(r)' = {}
      BY <2>4, <3>2 DEF Holders
    <3> QED
      BY <2>6, <3>1, <3>3
  <2> QED
    BY <2>8, <2>9
<1>5. CASE \A e \in Exec : ~RunsRow(e, r)
  <2>1. Holders(r) = {}
    BY <1>5, HoldersRun DEF Holders
  <2>2. ASSUME NEW e \in Exec, Executes(e, r)'
        PROVE  /\ Stage(r) = "open" /\ Stage(r)' = "open"
               /\ Holders(r)' = {e}
    <3>1. RunsRow(e, r)'
      BY <2>2 DEF Executes, RunsRow, Live, ExecPC, NoExec, Typed, TypeOK
    <3>2. PICK w \in Worker : Start(w, e) /\ Fetches(w, r)
      BY <1>5, <3>1, RunsHistory
    <3>3. task' = task
      BY <3>2 DEF Start
    <3>4. Stage(r)' = "open" /\ Stage(r) = "open"
      BY <1>3, <2>2, <3>3 DEF Stage
    <3>5. ASSUME NEW d \in Exec, Executes(d, r)' PROVE d = e
      <4>1. d # e => exec'[d] = exec[d]
        BY <3>2 DEF Start, Typed, TypeOK
      <4>2. d # e => Executes(d, r)
        BY <3>5, <4>1 DEF Executes
      <4> QED
        BY <1>5, <4>2, HoldersRun
    <3> QED
      BY <2>2, <3>4, <3>5 DEF Holders
  <2>3. CASE \E e \in Exec : Executes(e, r)'
    BY <2>1, <2>2, <2>3
  <2>4. CASE \A e \in Exec : ~Executes(e, r)'
    <3>1. Holders(r)' = {}
      BY <2>4 DEF Holders
    <3> QED
      BY <2>1, <3>1, StageStep
  <2> QED
    BY <2>3, <2>4
<1> QED
  BY <1>4, <1>5

(* The queue implements the service: whatever crashes and whichever        *)
(* statement fails, as long as no process stalls or is stopped and no task *)
(* is deleted, a content or periodic task is executed by one invocation at *)
(* a time and, once closed, never again.                                   *)
THEOREM ServiceImplemented ==
    ASSUME Calm, Faults["supersede"] = 0, \A r \in Row : Kind[r] # "perm"
    PROVE  Spec => ServiceSpec
<1>1. Ordinary = Row
  BY DEF Ordinary
<1>2. Init => ServiceInv
  <2> SUFFICES ASSUME Init PROVE NoneDeleted
    BY InitType, CalmInit DEF ServiceInv
  <2> QED
    BY DEF Init, NoneDeleted, NoTask
<1>3. ServiceInv /\ [Next]_vars => ServiceInv'
  BY StepType, CalmStep, NoneDeletedStep DEF ServiceInv
<1>4. Init => Service!Init
  BY DEF Init, Service!Init, NoTask, StageOf, Executes, NoExec, ExecPC
<1>5. ServiceInv /\ ServiceInv' /\ [Next]_vars => [Service!Next]_(Service!vars)
  <2> SUFFICES ASSUME ServiceInv, ServiceInv', [Next]_vars
               PROVE  Service!Next
    OBVIOUS
  <2>1. [r \in Row |-> StageOf[task[r].status]]' \in [Row -> {"none", "open", "closed"}]
    BY StageOfStatus DEF ServiceInv, Stage, Typed, TypeOK, TaskRow, Status, StageOf
  <2>2. [r \in Row |-> {e \in Exec : Executes(e, r)}]' \in [Row -> SUBSET Exec]
    OBVIOUS
  <2>3. ASSUME NEW r \in Row
        PROVE  Service!Idle(r) \/ Service!Submit(r) \/ Service!Begin(r)
                  \/ Service!GiveUp(r) \/ Service!Close(r)
    BY <1>1, <2>3, RowServes DEF Stage, Holders, Service!Idle, Service!Submit,
       Service!Begin, Service!GiveUp, Service!Close
  <2> QED
    BY <2>1, <2>2, <2>3 DEF Service!Next
<1> QED
  BY <1>2, <1>3, <1>4, <1>5, PTL DEF Spec, ServiceSpec, Service!Spec

---------------------------------------------------------------------------
(***************************************************************************)
(* The lanes.  An execution takes a slot when it is tracked and frees at   *)
(* most that one, so a lane's count never falls below the number of        *)
(* executions, and a dequeue is only sent while the count is below the     *)
(* cap.  Nothing bounds the gap from the other side: of two executions of  *)
(* one row in one process the second `untrackTask` frees nothing.          *)
(***************************************************************************)
ExecsIn(w, l) == {e \in Live : exec[e].worker = w /\ LaneOf(RowOf(e)) = l}

Counted(w) ==
    /\ mode[w] = "up" => \A l \in Lane :
          /\ Cardinality(ExecsIn(w, l)) <= slots[w][l]
          /\ slots[w][l] <= LaneCap[l]
    /\ mode[w] = "up" /\ fetched[w] # Nothing =>
          /\ poll[w] \in Lane
          /\ LaneOf(fetched[w].row) = poll[w]
          /\ slots[w][poll[w]] < LaneCap[poll[w]]
    /\ poll[w] \in {"giveback", "drop"} =>
          mode[w] \notin {"down", "seeding", "up"} /\ fetched[w] # Nothing
    /\ mode[w] \in {"down", "seeding"} =>
          /\ \A l \in Lane : slots[w][l] = 0
          /\ fetched[w] = Nothing
          /\ \A e \in Live : exec[e].worker # w

SlotsInv ==
    /\ Typed
    /\ IsFiniteSet(Live)
    /\ \A w \in Worker : Counted(w)

LEMMA ExecsInFinite ==
    ASSUME IsFiniteSet(Live), NEW w, NEW l
    PROVE  IsFiniteSet(ExecsIn(w, l)) /\ Cardinality(ExecsIn(w, l)) \in Nat
<1>1. IsFiniteSet(ExecsIn(w, l))
  BY FS_Subset DEF ExecsIn
<1> QED
  BY <1>1, FS_CardinalityType

LEMMA LiveType ==
    ASSUME Typed, NEW e \in Live
    PROVE  /\ e \in Exec /\ exec[e] \in Execution /\ exec[e].pc \in ExecPC
           /\ exec[e].worker \in Worker /\ RowOf(e) \in Row
BY DEF Typed, TypeOK, Live, Execution, RowOf

LEMMA FiniteStep ==
    ASSUME SlotsInv, [Next]_vars
    PROVE  IsFiniteSet(Live')
<1> USE DEF SlotsInv
<1>1. CASE Live' \subseteq Live
  BY <1>1, FS_Subset
<1>2. ASSUME NEW w \in Worker, NEW e \in Exec, Start(w, e)
      PROVE  IsFiniteSet(Live')
  <2>1. Live' \subseteq Live \cup {e}
    BY <1>2 DEF Start, Live, Typed, TypeOK
  <2>2. IsFiniteSet(Live \cup {e})
    BY FS_AddElement
  <2> QED
    BY <2>1, <2>2, FS_Subset
<1> QED
  BY <1>1, <1>2, ExecutionHistory DEF Live, SameExec

(* What an untracked execution gives back: its slot at most, and no other. *)
LEMMA UntrackOne ==
    ASSUME Typed, NEW w \in Worker, NEW r \in Row,
           NEW l \in Lane, slots[w][l] \in Nat
    PROVE  \/ Slots(w, {r})[l] = slots[w][l]
           \/ /\ LaneOf(r) = l /\ slots[w][l] > 0
              /\ Slots(w, {r})[l] = slots[w][l] - 1
<1> DEFINE n == Cardinality({q \in {r} \cap active[w] : LaneOf(q) = l})
<1>1. Slots(w, {r})[l] = IF slots[w][l] > n THEN slots[w][l] - n ELSE 0
  BY DEF Slots
<1>2. CASE LaneOf(r) = l /\ r \in active[w]
  <2>1. {q \in {r} \cap active[w] : LaneOf(q) = l} = {r}
    BY <1>2
  <2>2. n = 1
    BY <2>1, FS_Singleton
  <2> HIDE DEF n
  <2> QED
    BY <1>1, <1>2, <2>2
<1>3. CASE ~(LaneOf(r) = l /\ r \in active[w])
  <2>1. {q \in {r} \cap active[w] : LaneOf(q) = l} = {}
    BY <1>3
  <2>2. n = 0
    BY <2>1, FS_EmptySet
  <2> HIDE DEF n
  <2> QED
    BY <1>1, <2>2
<1> QED
  BY <1>2, <1>3

(* Steps that leave a process and its executions alone.                    *)
SameProcess(w) == /\ mode'[w] = mode[w]
                  /\ poll'[w] = poll[w]
                  /\ fetched'[w] = fetched[w]
                  /\ slots'[w] = slots[w]

SameExecs(w) == \A e \in Exec :
    /\ (exec'[e] # NoExec /\ exec'[e].worker = w)
          <=> (exec[e] # NoExec /\ exec[e].worker = w)
    /\ (exec[e] # NoExec /\ exec[e].worker = w) => exec'[e].row = exec[e].row

LEMMA SameExecsIn ==
    ASSUME NEW w, NEW l, SameExecs(w)
    PROVE  ExecsIn(w, l)' = ExecsIn(w, l)
BY DEF SameExecs, ExecsIn, Live, RowOf

LEMMA CountedFrame ==
    ASSUME NEW w \in Worker, Counted(w), SameProcess(w), SameExecs(w)
    PROVE  Counted(w)'
<1>1. \A l \in Lane : Cardinality(ExecsIn(w, l)') = Cardinality(ExecsIn(w, l))
  BY SameExecsIn
<1>2. (\A e \in Live : exec[e].worker # w) => \A e \in Live' : exec'[e].worker # w
  BY DEF SameExecs, Live
<1> QED
  BY <1>1, <1>2 DEF Counted, SameProcess

(* The steps of a poll that fetch nothing only move it on. *)
LEMMA PollMoves ==
    ASSUME TypeOK, NEW w \in Worker,
           PollBegin(w) \/ Sweep(w) \/ SkipSweep(w) \/ RescheduleSwept(w) \/ LaneDone(w)
    PROVE  /\ poll'[w] \notin {"giveback", "drop"}
           /\ UNCHANGED <<mode, fetched, active, slots, remaining, exec>>
<1>1. CASE LaneDone(w)
  <2>1. poll[w] \in Lane /\ poll' = [poll EXCEPT ![w] = NextLane[poll[w]]]
        /\ UNCHANGED <<mode, fetched, active, slots, remaining, exec>>
    BY <1>1 DEF LaneDone
  <2>2. \A l \in Lane : NextLane[l] \notin {"giveback", "drop"}
    BY DEF NextLane, Lane
  <2> QED
    BY <2>1, <2>2 DEF TypeOK
<1>2. CASE PollBegin(w) \/ Sweep(w) \/ SkipSweep(w) \/ RescheduleSwept(w)
  <2>1. /\ poll' = [poll EXCEPT ![w] = poll'[w]]
        /\ poll'[w] \in {"sweep", "reschedule", "content"}
    BY <1>2 DEF PollBegin, Sweep, SkipSweep, RescheduleSwept, TypeOK
  <2>2. UNCHANGED <<mode, fetched, active, slots, remaining, exec>>
    BY <1>2 DEF PollBegin, Sweep, SkipSweep, RescheduleSwept
  <2> QED
    BY <2>1, <2>2
<1> QED
  BY <1>1, <1>2

LEMMA CountedOwnStep ==
    ASSUME SlotsInv, NEW w \in Worker, WorkerStep(w)
    PROVE  Counted(w)'
<1> USE DEF SlotsInv, Typed
<1>1. ASSUME UNCHANGED exec PROVE SameExecs(w)
  BY <1>1 DEF SameExecs
<1>2. slots[w] \in [Lane -> Nat] /\ \A l \in Lane : LaneCap[l] \in Nat \ {0}
  BY LaneCapAssumption DEF TypeOK
<1>3. CASE Boot(w) \/ Seed(w)
  <2>1. /\ mode[w] \in {"down", "seeding"}
        /\ mode'[w] \in {"seeding", "up"}
        /\ UNCHANGED <<poll, fetched, slots, exec>>
    BY <1>3 DEF Boot, Seed, TypeOK
  <2>2. /\ \A l \in Lane : slots[w][l] = 0
        /\ fetched[w] = Nothing
        /\ poll[w] \notin {"giveback", "drop"}
        /\ \A e \in Live : exec[e].worker # w
    BY <2>1 DEF Counted
  <2>3. \A l \in Lane : ExecsIn(w, l)' = {}
    BY <2>1, <2>2 DEF ExecsIn, Live
  <2>4. \A l \in Lane : Cardinality(ExecsIn(w, l)') = 0
    BY <2>3, FS_EmptySet
  <2> QED
    BY <1>2, <2>1, <2>2, <2>4 DEF Counted, Live
<1>4. CASE PollBegin(w) \/ Sweep(w) \/ SkipSweep(w) \/ RescheduleSwept(w) \/ LaneDone(w)
  <2>1. /\ poll[w] \notin {"giveback", "drop"}
        /\ mode[w] = "up" => fetched[w] = Nothing
    BY <1>4 DEF PollBegin, Sweep, SkipSweep, RescheduleSwept, LaneDone, Lane,
       Counted
  <2>2. /\ poll'[w] \notin {"giveback", "drop"}
        /\ UNCHANGED <<mode, fetched, slots, exec>>
    BY <1>4, PollMoves
  <2>3. \A l \in Lane : ExecsIn(w, l)' = ExecsIn(w, l)
    BY <1>1, <2>2, SameExecsIn
  <2>4. Live' = Live
    BY <2>2 DEF Live
  <2> QED
    BY <2>1, <2>2, <2>3, <2>4 DEF Counted
<1>5. ASSUME NEW r \in Row, Dequeue(w, r) PROVE Counted(w)'
  <2>1. /\ UNCHANGED <<mode, poll, slots, exec>>
        /\ mode[w] = "up" /\ poll[w] \in Lane /\ LaneOf(r) = poll[w]
        /\ slots[w][poll[w]] < LaneCap[poll[w]]
        /\ fetched'[w].row = r
    BY <1>5 DEF Dequeue, DueIn, TypeOK
  <2>2. \A l \in Lane : ExecsIn(w, l)' = ExecsIn(w, l)
    BY <1>1, <2>1, SameExecsIn
  <2> QED
    BY <2>1, <2>2 DEF Counted, Lane
<1>6. ASSUME NEW e \in Exec, Start(w, e) PROVE Counted(w)'
  <2> PICK r \in Row : r = fetched[w].row
    BY <1>6 DEF Start, TypeOK
  <2> PICK k \in Lane : k = poll[w]
    BY <1>6 DEF Start
  <2>1. mode[w] = "up" /\ mode'[w] = "up" /\ poll'[w] = k /\ fetched[w] # Nothing
        /\ fetched'[w] = Nothing
    BY <1>6 DEF Start, TypeOK
  <2>2. LaneOf(r) = k /\ slots[w][k] < LaneCap[k]
    BY <2>1 DEF Counted
  <2>3. slots'[w] = [slots[w] EXCEPT ![k] = slots[w][k] + 1]
    BY <1>6, <2>2 DEF Start, TrackRow, TypeOK
  <2>4. ASSUME NEW l \in Lane
        PROVE  Cardinality(ExecsIn(w, l)') <= slots'[w][l] /\ slots'[w][l] <= LaneCap[l]
    <3>1. Cardinality(ExecsIn(w, l)) <= slots[w][l] /\ slots[w][l] <= LaneCap[l]
      BY <2>1 DEF Counted
    <3>2. e \notin ExecsIn(w, l)
      BY <1>6 DEF Start, ExecsIn
    <3>3. CASE l = k
      <4>1. ExecsIn(w, l)' = ExecsIn(w, l) \cup {e}
        BY <1>6, <2>2, <3>3 DEF Start, ExecsIn, Live, RowOf, NoExec, TypeOK
      <4>2. Cardinality(ExecsIn(w, l) \cup {e}) = Cardinality(ExecsIn(w, l)) + 1
        BY <3>2, ExecsInFinite, FS_AddElement
      <4>3. slots'[w][l] = slots[w][l] + 1
        BY <1>2, <2>3, <3>3
      <4> QED
        BY <1>2, <2>2, <3>1, <3>3, <4>1, <4>2, <4>3, ExecsInFinite
    <3>4. CASE l # k
      <4>1. ExecsIn(w, l)' = ExecsIn(w, l)
        BY <1>6, <2>2, <3>4 DEF Start, ExecsIn, Live, RowOf, NoExec, TypeOK
      <4>2. slots'[w][l] = slots[w][l]
        BY <1>2, <2>3, <3>4
      <4> QED
        BY <3>1, <4>1, <4>2
    <3> QED
      BY <3>3, <3>4
  <2> QED
    BY <2>1, <2>4 DEF Counted, Lane
<1>7. CASE StartStopped(w) \/ GiveBack(w) \/ Drop(w)
  <2>1. /\ mode[w] \notin {"down", "seeding", "up"}
        /\ UNCHANGED mode
    BY <1>7 DEF StartStopped, GiveBack, Drop, Counted
  <2>2. poll'[w] \in {"giveback", "drop"} => fetched'[w] # Nothing
    BY <1>7 DEF StartStopped, GiveBack, Drop, Counted, TypeOK
  <2> QED
    BY <2>1, <2>2 DEF Counted
<1>8. CASE Stop(w) \/ DrainTimeout(w) \/ ReleaseRemaining(w)
  <2>1. mode'[w] \in {"stopping", "releasing", "released"}
    BY <1>8 DEF Stop, DrainTimeout, ReleaseRemaining, TypeOK
  <2>2. UNCHANGED <<poll, fetched>>
    BY <1>8 DEF Stop, DrainTimeout, ReleaseRemaining
  <2> QED
    BY <2>1, <2>2 DEF Counted
<1>9. CASE Exit(w) \/ Crash(w)
  <2>1. Vanish(w)
    BY <1>9 DEF Exit, Crash
  <2>2. mode'[w] = "down" /\ poll'[w] = "idle" /\ fetched'[w] = Nothing
        /\ slots'[w] = [l \in Lane |-> 0]
    BY <2>1 DEF Vanish, TypeOK
  <2>3. \A e \in Live' : exec'[e].worker # w
    BY <2>1 DEF Vanish, Live
  <2> QED
    BY <2>2, <2>3 DEF Counted
<1> QED
  BY <1>3, <1>4, <1>5, <1>6, <1>7, <1>8, <1>9 DEF WorkerStep

LEMMA CountedStep ==
    ASSUME SlotsInv, [Next]_vars, NEW w \in Worker
    PROVE  Counted(w)'
<1> USE DEF SlotsInv, Typed
<1>1. ASSUME SameProcess(w), SameExecs(w) PROVE Counted(w)'
  BY <1>1, CountedFrame
<1>2. ASSUME NEW v \in Worker, v # w, WorkerStep(v)
      PROVE  SameProcess(w) /\ SameExecs(w)
  <2>1. SameProcess(w)
    BY <1>2 DEF SameProcess, WorkerStep, Boot, Seed, PollBegin, Sweep, SkipSweep,
       RescheduleSwept, Dequeue, LaneDone, Start, TrackRow, StartStopped, GiveBack,
       Drop, Untrack, Stop, DrainTimeout, ReleaseRemaining, Exit, Crash, Vanish,
       TypeOK
  <2>2. ASSUME NEW e \in Exec, Start(v, e) PROVE SameExecs(w)
    BY <1>2, <2>2 DEF Start, SameExecs, Live, TypeOK
  <2>3. ASSUME Exit(v) \/ Crash(v) PROVE SameExecs(w)
    BY <1>2, <2>3 DEF Exit, Crash, Vanish, SameExecs, Live
  <2>4. ASSUME UNCHANGED exec PROVE SameExecs(w)
    BY <2>4 DEF SameExecs
  <2> QED
    BY <1>2, <2>1, <2>2, <2>3, <2>4 DEF WorkerStep, Boot, Seed, PollBegin, Sweep,
       SkipSweep, RescheduleSwept, Dequeue, LaneDone, StartStopped, GiveBack, Drop,
       Stop, DrainTimeout, ReleaseRemaining
<1>3. ASSUME NEW d \in Exec, ExecStep(d) PROVE Counted(w)'
  <2>1. exec[d] \in Execution /\ d \in Live
    BY <1>3, LiveExec DEF ExecStep, Handle, Claim, ClaimBusy, PassEnds, Complete,
       Throw, Record, RecordThrows, Fail, FailThrows, Reschedule,
       RescheduleThrows, Finally, At
  <2> PICK u \in Worker : u = exec[d].worker
    BY <2>1, LiveType
  <2> PICK r \in Row : r = RowOf(d)
    BY <2>1, LiveType
  <2>2. ASSUME NEW pc \in ExecPC, Goto(d, pc) PROVE SameExecs(w)
    <3>1. exec' = [exec EXCEPT ![d] = [exec[d] EXCEPT !.pc = pc]]
      BY <2>2 DEF Goto
    <3>2. [exec[d] EXCEPT !.pc = pc] \in Execution
      BY <2>1 DEF Execution
    <3>3. exec'[d] # NoExec /\ exec[d] # NoExec
          /\ exec'[d].worker = exec[d].worker /\ exec'[d].row = exec[d].row
      BY <2>1, <3>1, <3>2 DEF Execution, NoExec, TypeOK, ExecPC
    <3>4. \A e \in Exec : e # d => exec'[e] = exec[e]
      BY <3>1 DEF TypeOK
    <3> QED
      BY <3>3, <3>4 DEF SameExecs
  <2>3. CASE ~Finally(d)
    <3>1. SameProcess(w)
      BY <1>3, <2>3 DEF SameProcess, process, ExecStep, Handle, Claim, ClaimBusy,
         PassEnds, Complete, Throw, Record, RecordThrows, Fail, FailThrows,
         Reschedule, RescheduleThrows
    <3>2. \E pc \in ExecPC : Goto(d, pc)
      BY <1>3, <2>3 DEF ExecStep, Handle, Claim, ClaimBusy, PassEnds, Complete,
         Throw, Record, RecordThrows, Fail, FailThrows, Reschedule,
         RescheduleThrows, ExecPC
    <3> QED
      BY <1>1, <2>2, <3>1, <3>2
  <2>4. CASE Finally(d)
    <3>1. /\ UNCHANGED <<mode, poll, fetched>>
          /\ slots' = [slots EXCEPT ![u] = Slots(u, {r})]
          /\ exec' = [exec EXCEPT ![d] = NoExec]
      BY <2>4 DEF Finally, Untrack
    <3>2. CASE u # w
      <4>1. SameProcess(w)
        BY <3>1, <3>2 DEF SameProcess, TypeOK
      <4>2. SameExecs(w)
        BY <3>1, <3>2 DEF SameExecs, TypeOK
      <4> QED
        BY <1>1, <4>1, <4>2
    <3>3. CASE u = w
      <4>1. mode[w] \notin {"down", "seeding"}
        BY <2>1, <3>3 DEF Counted
      <4>2. CASE mode[w] # "up"
        BY <3>1, <4>1, <4>2 DEF Counted
      <4>3. CASE mode[w] = "up"
        <5>2. ASSUME NEW l \in Lane
              PROVE  /\ Cardinality(ExecsIn(w, l)') <= slots'[w][l]
                     /\ slots'[w][l] <= slots[w][l]
                     /\ slots'[w][l] <= LaneCap[l]
          <6>1. /\ Cardinality(ExecsIn(w, l)) <= slots[w][l]
                /\ slots[w][l] <= LaneCap[l]
                /\ slots[w][l] \in Nat /\ LaneCap[l] \in Nat
                /\ Cardinality(ExecsIn(w, l)) \in Nat
            BY <4>3, LaneCapAssumption, ExecsInFinite DEF Counted, TypeOK
          <6>2. slots'[w][l] = Slots(w, {r})[l]
            BY <3>1, <3>3 DEF TypeOK
          <6>3. CASE LaneOf(r) = l
            <7>1. d \in ExecsIn(w, l)
              BY <2>1, <3>3, <6>3 DEF ExecsIn
            <7>2. ExecsIn(w, l)' = ExecsIn(w, l) \ {d}
              BY <3>1 DEF ExecsIn, Live, RowOf, TypeOK
            <7>3. Cardinality(ExecsIn(w, l) \ {d}) = Cardinality(ExecsIn(w, l)) - 1
              BY <7>1, ExecsInFinite, FS_RemoveElement
            <7>4. slots'[w][l] \in {slots[w][l], slots[w][l] - 1}
              BY <6>1, <6>2, UntrackOne
            <7> QED
              BY <6>1, <7>2, <7>3, <7>4
          <6>4. CASE LaneOf(r) # l
            <7>1. d \notin ExecsIn(w, l)
              BY <6>4 DEF ExecsIn
            <7>2. ExecsIn(w, l)' = ExecsIn(w, l)
              BY <3>1, <7>1 DEF ExecsIn, Live, RowOf, TypeOK
            <7>3. slots'[w][l] = slots[w][l]
              BY <6>1, <6>2, <6>4, UntrackOne
            <7> QED
              BY <6>1, <7>2, <7>3
          <6> QED
            BY <6>3, <6>4
        <5>3. ASSUME fetched'[w] # Nothing
              PROVE  /\ poll'[w] \in Lane
                     /\ LaneOf(fetched'[w].row) = poll'[w]
                     /\ slots'[w][poll'[w]] < LaneCap[poll'[w]]
          <6>1. /\ poll[w] \in Lane /\ LaneOf(fetched[w].row) = poll[w]
                /\ slots[w][poll[w]] < LaneCap[poll[w]]
            BY <3>1, <4>3, <5>3 DEF Counted
          <6> PICK k \in Lane : k = poll[w]
            BY <6>1
          <6>2. /\ slots'[w][k] <= slots[w][k] /\ slots[w][k] \in Nat
                /\ slots'[w][k] \in Nat /\ LaneCap[k] \in Nat
            <7>1. slots'[w][k] \in Nat
              BY <3>1, <3>3, SlotsType DEF TypeOK
            <7> QED
              BY <5>2, <7>1, LaneCapAssumption DEF TypeOK
          <6> QED
            BY <3>1, <6>1, <6>2
        <5> QED
          BY <3>1, <4>3, <5>2, <5>3 DEF Counted
      <4> QED
        BY <4>2, <4>3
    <3> QED
      BY <3>2, <3>3
  <2> QED
    BY <2>3, <2>4
<1>4. ASSUME NEW q \in Row, RowStep(q) PROVE SameProcess(w) /\ SameExecs(w)
  BY <1>4 DEF RowStep, Enqueue, BecomeDue, GoStale, Stall, GoAged, process,
     SameProcess, SameExecs
<1>5. ConnectorStep => SameProcess(w) /\ SameExecs(w)
  BY DEF ConnectorStep, Supersede, ReapRun, RequeueOrphans, DeleteQueued, process,
     SameProcess, SameExecs
<1>6. UNCHANGED vars => SameProcess(w) /\ SameExecs(w)
  BY DEF vars, SameProcess, SameExecs
<1> QED
  BY <1>1, <1>2, <1>3, <1>4, <1>5, <1>6, CountedOwnStep DEF Next

LEMMA SlotsInvariant == Spec => []SlotsInv
<1>1. Init => SlotsInv
  <2> SUFFICES ASSUME Init PROVE SlotsInv
    OBVIOUS
  <2>1. Live = {}
    BY DEF Init, Live
  <2>2. IsFiniteSet(Live)
    BY <2>1, FS_EmptySet
  <2>3. \A w \in Worker : Counted(w)
    BY <2>1 DEF Init, Counted
  <2> QED
    BY <2>2, <2>3, InitType DEF SlotsInv
<1>2. SlotsInv /\ [Next]_vars => SlotsInv'
  BY StepType, FiniteStep, CountedStep DEF SlotsInv
<1> QED
  BY <1>1, <1>2, PTL DEF Spec

(* No running process ever has more executions of a lane than the lane's   *)
(* cap, for caps of any size and any number of processes, tasks and        *)
(* faults, whichever rows are executed twice.                              *)
THEOREM LaneWithinCapHolds == Spec => []LaneWithinCap
<1>1. SlotsInv => LaneWithinCap
  BY DEF SlotsInv, Counted, LaneWithinCap, ExecsIn
<1> QED
  BY <1>1, SlotsInvariant, PTL

---------------------------------------------------------------------------
(* An orderly stop hands everything back.  A row is kept by a process that *)
(* will settle it or release it: one it tracks, one it has taken out of    *)
(* its memory to release, or one its poll has just fetched.                *)
Leaving(w) == mode[w] \in {"stopping", "releasing", "released"}

NoMoreExits == faults["stop"] = 0 /\ \A w \in Worker : ~Leaving(w)

Keeps(w, r) == \/ r \in remaining[w]
               \/ r \in active[w] /\ ~(poll[w] = "drop" /\ Fetches(w, r))
               \/ Fetches(w, r) /\ poll[w] # "drop"

AllKept == \A r \in Row : task[r].status = "processing" =>
              \E w \in Worker : Keeps(w, r)

(* At most one process stops, and nothing else ends one. *)
OneStop ==
    /\ faults["crash"] = 0
    /\ faults["error"] = 0
    /\ faults["stop"] <= 1
    /\ \A w \in Worker : Leaving(w) => faults["stop"] = 0
    /\ \A v, w \in Worker : Leaving(v) /\ Leaving(w) => v = w

(* What a stopping process still remembers. *)
StopOK(w) ==
    /\ remaining[w] # {} => mode[w] = "releasing"
    /\ fetched[w] # Nothing => poll[w] \in Lane \cup {"giveback", "drop"}
    /\ poll[w] \in {"giveback", "drop"} => fetched[w] # Nothing
    /\ mode[w] \in {"releasing", "released"} =>
         \A r \in active[w] : Fetches(w, r) /\ poll[w] \in {"giveback", "drop"}

(* An execution settles its row before it untracks it, and the row cannot  *)
(* be dequeued again in between.                                           *)
SettledFirst ==
    /\ \A e \in Exec, r \in Row : RunsRow(e, r) =>
          /\ task[r].status # "absent"
          /\ At(e, "reschedule") => Kind[r] = "periodic" /\ ~Active(r)
          /\ At(e, "untrack") => Backoff(r) \/ ~Active(r)
    /\ \A w \in Worker, r \in Row : Fetches(w, r) => task[r].status # "absent"

HandInv ==
    /\ Typed
    /\ AttemptCounted
    /\ OneStop
    /\ \A w \in Worker : StopOK(w)
    /\ SettledFirst
    /\ AllKept \/ NoMoreExits

LEMMA StaysPresent ==
    ASSUME Typed, [Next]_vars, NEW r \in Row, task[r].status # "absent"
    PROVE  task'[r].status # "absent"
<1>1. task[r] \in TaskRow
  BY DEF Typed, TypeOK
<1>2. ASSUME BecomeDue(r) \/ GoStale(r) \/ Stall(r)
      PROVE  task'[r].status = task[r].status
  BY <1>1, <1>2 DEF BecomeDue, GoStale, Stall, Typed, TypeOK, TaskRow
<1>3. ASSUME NEW w \in Worker, Dequeue(w, r) PROVE task'[r].status = "processing"
  <2>1. task'[r] = Dequeued(task[r])
    BY <1>3 DEF Dequeue, Typed, TypeOK
  <2> QED
    BY <1>1, <2>1 DEF Dequeued, TaskRow
<1> QED
  BY <1>2, <1>3, RowStepHistory DEF RowHistory, Untouched, SettledBy, TakenBack

(* A row that has left the queue, or waits out its backoff while its       *)
(* execution untracks it, is not taken up again.                           *)
LEMMA RestStays ==
    ASSUME Typed, AttemptCounted, SettledFirst, [Next]_vars,
           NEW e \in Exec, NEW r \in Row, RunsRow(e, r)
    PROVE  /\ ~Active(r) => \/ ~Active(r)'
                            \/ Backoff(r)' /\ Kind[r] # "periodic"
           /\ At(e, "untrack") /\ Backoff(r) => Backoff(r)' \/ ~Active(r)'
<1>1. task[r].status # "absent"
  BY DEF SettledFirst
<1>2. SUFFICES ASSUME ~Active(r) \/ (At(e, "untrack") /\ Backoff(r))
               PROVE  \/ ~Active(r)'
                      \/ Backoff(r)' /\ Kind[r] # "periodic"
                      \/ Backoff(r)' /\ At(e, "untrack") /\ Backoff(r)
  BY DEF Active, Backoff
<1>3. CASE Untouched(r)
  BY <1>2, <1>3 DEF Untouched, Active, Backoff
<1>4. ~BecomeDue(r)
  BY <1>2 DEF BecomeDue, Active, Backoff
<1>5. ~GoStale(r) /\ ~Stall(r) /\ ~TakenBack(r)
  BY <1>2 DEF GoStale, Stall, TakenBack, Active, Backoff
<1>6. ASSUME NEW w \in Worker PROVE ~Dequeue(w, r)
  BY <1>2 DEF Dequeue, DueIn, Active, Backoff
<1>7. ~Fresh(r)
  BY <1>1 DEF Fresh
<1>8. ASSUME NEW d \in Exec, SettledBy(d, r)
      PROVE  \/ ~Active(r)'
             \/ Backoff(r)' /\ Kind[r] # "periodic"
  <2>1. CASE ~Exists(task[r]) /\ task'[r] = task[r]
    BY <2>1 DEF Exists, Active
  <2>2. CASE task'[r].status \in {"completed", "dead"}
    BY <2>2 DEF Active
  <2>3. CASE ~Exhausted(d) /\ task'[r].status = "pending" /\ ~task'[r].due
    <3>1. exec[d] \in Execution /\ RowOf(d) = r
      BY <1>8 DEF SettledBy
    <3>2. d \in Live
      BY <3>1, LiveExec DEF Typed, Execution, ExecPC
    <3>3. exec[d].attempt \in Nat /\ exec[d].attempt >= 1
      BY <3>1, <3>2 DEF AttemptCounted, Execution
    <3>4. Kind[r] # "periodic"
      BY <2>3, <3>1, <3>3 DEF Exhausted, MaxAttemptsOf
    <3> QED
      BY <2>3, <3>4 DEF Backoff
  <2> QED
    BY <1>8, <2>1, <2>2, <2>3 DEF SettledBy
<1>9. ASSUME task'[r].status = "deleted" PROVE ~Active(r)'
  BY <1>9 DEF Active
<1> QED
  BY <1>2, <1>3, <1>4, <1>5, <1>6, <1>7, <1>8, <1>9, RowStepHistory DEF RowHistory

LEMMA SettledFirstStep ==
    ASSUME Typed, AttemptCounted, SettledFirst, faults["error"] = 0, [Next]_vars
    PROVE  SettledFirst'
<1>1. ASSUME NEW w \in Worker, NEW r \in Row, Fetches(w, r)'
      PROVE  task'[r].status # "absent"
  <2>1. ASSUME Dequeue(w, r) PROVE task[r].status # "absent"
    BY <2>1 DEF Dequeue, DueIn
  <2> QED
    BY <1>1, <2>1, FetchesHistory, StaysPresent DEF SettledFirst
<1>2. ASSUME NEW e \in Exec, NEW r \in Row, RunsRow(e, r)'
      PROVE  /\ task'[r].status # "absent"
             /\ exec'[e].pc = "reschedule" => Kind[r] = "periodic" /\ ~Active(r)'
             /\ exec'[e].pc = "untrack" => Backoff(r)' \/ ~Active(r)'
  <2>1. CASE \E w \in Worker : Start(w, e) /\ Fetches(w, r)
    <3>1. exec'[e].pc = "handler"
      BY <2>1 DEF Start, Typed, TypeOK
    <3> QED
      BY <2>1, <3>1, StaysPresent DEF SettledFirst
  <2>2. CASE RunsRow(e, r) /\ exec'[e] = exec[e]
    BY <2>2, RestStays, StaysPresent DEF SettledFirst, At
  <2>3. CASE RunsRow(e, r) /\ SameExec(e) /\ ExecStep(e)
    <3>1. exec[e] \in Execution /\ r = RowOf(e)
      BY <2>3 DEF RunsRow, Live, RowOf, Typed, TypeOK
    <3>2. task[r].status # "absent" /\ task'[r].status # "absent"
      BY <2>3, StaysPresent DEF SettledFirst
    <3>3. ASSUME NEW pc \in ExecPC, Goto(e, pc) PROVE exec'[e].pc = pc
      BY <3>1, <3>3 DEF Goto, Typed, TypeOK, Execution
    <3>4. CASE \/ Handle(e) \/ Claim(e) \/ ClaimBusy(e) \/ PassEnds(e)
               \/ Throw(e) \/ Record(e)
      <4>1. exec'[e].pc \in {"complete", "pass", "record", "fail"}
        BY <3>3, <3>4 DEF Handle, Claim, ClaimBusy, PassEnds, Throw, Record, ExecPC
      <4> QED
        BY <3>2, <4>1
    <3>5. CASE Complete(e)
      <4>1. SettledBy(e, r)
        BY <3>1, <3>5, SettleStep
      <4>2. exec'[e].pc = IF Kind[r] = "periodic" THEN "reschedule" ELSE "untrack"
        BY <3>1, <3>3, <3>5 DEF Complete, ExecPC
      <4>3. ~Fail(e)
        BY <3>5 DEF Complete, Fail, At
      <4>4. ~Active(r)'
        BY <3>2, <4>1, <4>3 DEF SettledBy, Active, Exists
      <4> QED
        BY <3>2, <4>2, <4>4
    <3>6. CASE Fail(e)
      <4>1. SettledBy(e, r)
        BY <3>1, <3>6, SettleStep
      <4>2. /\ exec'[e].pc \in {"reschedule", "untrack"}
            /\ exec'[e].pc = "reschedule" => Kind[r] = "periodic" /\ Exhausted(e)
        BY <3>1, <3>3, <3>6 DEF Fail, ExecPC
      <4>3. ~Active(r)' \/ (~Exhausted(e) /\ Backoff(r)')
        BY <3>2, <4>1 DEF SettledBy, Active, Exists, Backoff
      <4> QED
        BY <3>2, <4>2, <4>3
    <3>7. CASE Reschedule(e)
      <4>1. exec'[e].pc = "untrack" /\ At(e, "reschedule")
        BY <3>3, <3>7 DEF Reschedule, ExecPC
      <4>2. Kind[r] = "periodic" /\ ~Active(r)
        BY <2>3, <4>1 DEF SettledFirst
      <4> QED
        BY <2>3, <3>2, <4>1, <4>2, RestStays
    <3>8. ~RecordThrows(e) /\ ~FailThrows(e) /\ ~RescheduleThrows(e)
      BY DEF RecordThrows, FailThrows, RescheduleThrows, Spend
    <3>9. ~Finally(e)
      BY <2>3 DEF Finally, SameExec, Typed, TypeOK
    <3> QED
      BY <2>3, <3>4, <3>5, <3>6, <3>7, <3>8, <3>9 DEF ExecStep
  <2> QED
    BY <1>2, <2>1, <2>2, <2>3, RunsHistory
<1> QED
  BY <1>1, <1>2 DEF SettledFirst, At

SameMemory(w) == /\ mode'[w] = mode[w]
                 /\ poll'[w] = poll[w]
                 /\ fetched'[w] = fetched[w]
                 /\ remaining'[w] = remaining[w]

(* Another process's step leaves this one's memory alone; an execution's   *)
(* step at most untracks its row.                                          *)
LEMMA MemoryHistory ==
    ASSUME Typed, [Next]_vars, NEW w \in Worker
    PROVE  \/ WorkerStep(w)
           \/ SameMemory(w) /\ active'[w] = active[w]
           \/ /\ SameMemory(w)
              /\ \E e \in Exec, r \in Row : /\ Finally(e)
                                            /\ RunsRow(e, r)
                                            /\ active'[w] \in {active[w], active[w] \ {r}}
<1> USE DEF Typed
<1>1. ASSUME NEW v \in Worker, v # w, WorkerStep(v)
      PROVE  SameMemory(w) /\ active'[w] = active[w]
  BY <1>1 DEF SameMemory, WorkerStep, Boot, Seed, PollBegin, Sweep, SkipSweep,
     RescheduleSwept, Dequeue, LaneDone, Start, TrackRow, StartStopped, GiveBack,
     Drop, Untrack, Stop, DrainTimeout, ReleaseRemaining, Exit, Crash, Vanish,
     TypeOK
<1>2. ASSUME NEW e \in Exec, Finally(e)
      PROVE  /\ SameMemory(w)
             /\ \E r \in Row : /\ RunsRow(e, r)
                               /\ active'[w] \in {active[w], active[w] \ {r}}
  <2>1. exec[e] \in Execution /\ e \in Live
    BY <1>2, LiveExec DEF Finally, At
  <2> PICK r \in Row : r = RowOf(e)
    BY <2>1 DEF RowOf, Execution
  <2>2. active' = [active EXCEPT ![exec[e].worker] = active[exec[e].worker] \ {r}]
    BY <1>2 DEF Finally, Untrack
  <2>3. active'[w] \in {active[w], active[w] \ {r}}
    BY <2>2 DEF TypeOK
  <2> QED
    BY <1>2, <2>1, <2>3 DEF Finally, SameMemory, RunsRow, RowOf
<1>3. ASSUME NEW e \in Exec, ExecStep(e), ~Finally(e)
      PROVE  SameMemory(w) /\ active'[w] = active[w]
  BY <1>3 DEF ExecStep, Handle, Claim, ClaimBusy, PassEnds, Complete, Throw, Record,
     RecordThrows, Fail, FailThrows, Reschedule, RescheduleThrows, SameMemory,
     process
<1>4. ASSUME NEW r \in Row, RowStep(r)
      PROVE  SameMemory(w) /\ active'[w] = active[w]
  BY <1>4 DEF RowStep, Enqueue, BecomeDue, GoStale, Stall, GoAged, process,
     SameMemory
<1>5. ConnectorStep => SameMemory(w) /\ active'[w] = active[w]
  BY DEF ConnectorStep, Supersede, ReapRun, RequeueOrphans, DeleteQueued, process,
     SameMemory
<1>6. UNCHANGED vars => SameMemory(w) /\ active'[w] = active[w]
  BY DEF vars, SameMemory
<1> QED
  BY <1>1, <1>2, <1>3, <1>4, <1>5, <1>6 DEF Next

LEMMA LeavingHistory ==
    ASSUME Typed, [Next]_vars, NEW w \in Worker, Leaving(w)'
    PROVE  Leaving(w) \/ (Stop(w) /\ mode[w] = "up")
<1> USE DEF Typed
<1>1. CASE mode'[w] = mode[w]
  BY <1>1 DEF Leaving
<1>2. CASE WorkerStep(w)
  <2>1. CASE Boot(w) \/ Seed(w)
    BY <2>1 DEF Boot, Seed, Leaving, TypeOK
  <2>2. CASE Exit(w) \/ Crash(w)
    BY <2>2 DEF Exit, Crash, Vanish, Leaving, TypeOK
  <2>3. CASE DrainTimeout(w) \/ ReleaseRemaining(w)
    BY <2>3 DEF DrainTimeout, ReleaseRemaining, Leaving
  <2>4. CASE Stop(w)
    BY <2>4 DEF Stop
  <2> QED
    BY <1>1, <1>2, <2>1, <2>2, <2>3, <2>4 DEF WorkerStep, PollBegin, Sweep,
       SkipSweep, RescheduleSwept, Dequeue, LaneDone, Start, StartStopped,
       GiveBack, Drop
<1> QED
  BY <1>1, <1>2, MemoryHistory DEF SameMemory

LEMMA OneStopStep ==
    ASSUME Typed, OneStop, [Next]_vars
    PROVE  /\ OneStop'
           /\ NoMoreExits => NoMoreExits'
           /\ \A w \in Worker : Exit(w) => NoMoreExits'
<1> USE DEF Typed
<1>1. /\ faults'["crash"] = 0 /\ faults'["error"] = 0
      /\ faults'["stop"] \in Nat /\ faults'["stop"] <= faults["stop"]
      /\ faults'["stop"] <= 1
  <2>1. \A k \in {"crash", "error", "stop"} :
           faults'[k] \in Nat /\ faults'[k] <= faults[k] /\ faults[k] \in Nat
    BY FaultsSpent DEF FaultKind, TypeOK
  <2> QED
    BY <2>1 DEF OneStop
<1>2. ASSUME NEW w \in Worker, Stop(w)
      PROVE  /\ faults["stop"] > 0
             /\ faults'["stop"] = 0
             /\ \A v \in Worker : ~Leaving(v)
  <2>1. faults["stop"] > 0 /\ faults'["stop"] = faults["stop"] - 1
    BY <1>2 DEF Stop, Spend, TypeOK, FaultKind
  <2> QED
    BY <2>1 DEF OneStop, TypeOK, FaultKind
<1>3. ASSUME NEW w \in Worker, Leaving(w)'
      PROVE  faults'["stop"] = 0 /\ (Leaving(w) \/ Stop(w))
  <2>1. faults["stop"] \in Nat
    BY DEF TypeOK, FaultKind
  <2> QED
    BY <1>1, <1>2, <1>3, <2>1, LeavingHistory DEF OneStop
<1>4. ASSUME NEW v \in Worker, NEW w \in Worker, Leaving(v)', Leaving(w)'
      PROVE  v = w
  <2>1. ASSUME Stop(v), Stop(w) PROVE v = w
    BY <2>1 DEF Stop, TypeOK
  <2> QED
    BY <1>2, <1>3, <1>4, <2>1 DEF OneStop
<1>5. ASSUME NoMoreExits PROVE NoMoreExits'
  BY <1>1, <1>2, <1>3, <1>5 DEF NoMoreExits
<1>6. ASSUME NEW w \in Worker, Exit(w) PROVE NoMoreExits'
  <2>1. Leaving(w) /\ mode'[w] = "down"
    BY <1>6 DEF Exit, Vanish, Leaving, TypeOK
  <2>2. faults["stop"] = 0
    BY <2>1 DEF OneStop
  <2>3. faults'["stop"] = 0
    BY <1>1, <2>2
  <2>4. ASSUME NEW v \in Worker PROVE ~Leaving(v)'
    <3>1. CASE v = w
      BY <2>1, <3>1 DEF Leaving
    <3>2. CASE v # w
      BY <1>2, <1>3, <2>1, <3>2 DEF OneStop
    <3> QED
      BY <3>1, <3>2
  <2> QED
    BY <2>3, <2>4 DEF NoMoreExits
<1> QED
  BY <1>1, <1>3, <1>4, <1>5, <1>6 DEF OneStop

LEMMA StopOKStep ==
    ASSUME Typed, [Next]_vars, NEW w \in Worker, StopOK(w)
    PROVE  StopOK(w)'
<1> USE DEF Typed
<1>1. CASE SameMemory(w) /\ active'[w] \subseteq active[w]
  BY <1>1 DEF SameMemory, StopOK, Fetches
<1>2. CASE WorkerStep(w)
  <2>1. CASE Boot(w) \/ Seed(w)
    BY <2>1 DEF Boot, Seed, StopOK, TypeOK
  <2>2. CASE PollBegin(w) \/ Sweep(w) \/ SkipSweep(w) \/ RescheduleSwept(w) \/ LaneDone(w)
    <3>1. /\ poll[w] \notin {"giveback", "drop"}
          /\ fetched[w] = Nothing
      BY <2>2 DEF PollBegin, Sweep, SkipSweep, RescheduleSwept, LaneDone, StopOK, Lane
    <3>2. /\ poll'[w] \notin {"giveback", "drop"}
          /\ UNCHANGED <<mode, fetched, active, remaining>>
      BY <2>2, PollMoves
    <3> QED
      BY <3>1, <3>2 DEF StopOK, Fetches
  <2>3. ASSUME NEW r \in Row, Dequeue(w, r) PROVE StopOK(w)'
    BY <2>3 DEF Dequeue, StopOK, TypeOK
  <2>4. ASSUME NEW e \in Exec, Start(w, e) PROVE StopOK(w)'
    BY <2>4 DEF Start, StopOK, TypeOK, Lane
  <2>5. CASE StartStopped(w)
    <3>1. /\ UNCHANGED <<mode, fetched, remaining>>
          /\ poll[w] \in Lane /\ fetched[w] # Nothing
          /\ poll'[w] = "giveback"
          /\ active'[w] = active[w] \cup {fetched[w].row}
      BY <2>5 DEF StartStopped, TrackRow, TypeOK
    <3>2. mode[w] \in {"releasing", "released"} => active[w] = {}
      BY <3>1 DEF StopOK, Lane
    <3> QED
      BY <3>1, <3>2 DEF StopOK, Fetches
  <2>6. CASE GiveBack(w)
    BY <2>6 DEF GiveBack, StopOK, Fetches, TypeOK
  <2>7. CASE Drop(w)
    <3>1. /\ UNCHANGED <<mode, remaining>>
          /\ fetched'[w] = Nothing
          /\ poll'[w] = "idle"
          /\ active'[w] = active[w] \ {fetched[w].row}
      BY <2>7 DEF Drop, Untrack, TypeOK
    <3> QED
      BY <3>1 DEF StopOK, Fetches
  <2>8. CASE Stop(w)
    BY <2>8 DEF Stop, StopOK, TypeOK
  <2>9. CASE DrainTimeout(w)
    <3>1. mode'[w] = "releasing" /\ active'[w] = {} /\ UNCHANGED <<fetched, poll>>
      BY <2>9 DEF DrainTimeout, Untrack, TypeOK
    <3> QED
      BY <3>1 DEF StopOK
  <2>10. CASE ReleaseRemaining(w)
    <3>1. /\ mode[w] = "releasing" /\ mode'[w] = "released" /\ remaining'[w] = {}
          /\ UNCHANGED <<fetched, poll, active>>
      BY <2>10 DEF ReleaseRemaining, TypeOK
    <3> QED
      BY <3>1 DEF StopOK, Fetches
  <2>11. CASE Exit(w) \/ Crash(w)
    <3>1. mode'[w] = "down" /\ remaining'[w] = {} /\ fetched'[w] = Nothing
          /\ poll'[w] = "idle"
      BY <2>11 DEF Exit, Crash, Vanish, TypeOK
    <3> QED
      BY <3>1 DEF StopOK
  <2> QED
    BY <1>2, <2>1, <2>2, <2>3, <2>4, <2>5, <2>6, <2>7, <2>8, <2>9, <2>10, <2>11
    DEF WorkerStep
<1> QED
  BY <1>1, <1>2, MemoryHistory

(* A process lets go of a processing row only by ending.                   *)
LEMMA KeepsStep ==
    ASSUME Typed, OneStop, SettledFirst, [Next]_vars,
           NEW w \in Worker, StopOK(w), ~Exit(w),
           NEW r \in Row, Keeps(w, r),
           task[r].status = "processing", task'[r].status = "processing"
    PROVE  Keeps(w, r)'
<1> USE DEF Typed
<1>1. ASSUME SameMemory(w), active'[w] = active[w] PROVE Keeps(w, r)'
  BY <1>1 DEF SameMemory, Keeps, Fetches
<1>2. ASSUME SameMemory(w), NEW e \in Exec, NEW q \in Row, Finally(e), RunsRow(e, q),
             active'[w] \in {active[w], active[w] \ {q}}
      PROVE  Keeps(w, r)'
  <2>1. At(e, "untrack")
    BY <1>2 DEF Finally
  <2>2. task[q].status # "processing"
    BY <1>2, <2>1 DEF SettledFirst, Backoff, Active
  <2>3. q # r
    BY <2>2
  <2> QED
    BY <1>2, <2>3 DEF SameMemory, Keeps, Fetches
<1>3. CASE WorkerStep(w)
  <2>1. CASE Boot(w) \/ Seed(w)
    BY <2>1 DEF Boot, Seed, Keeps, Fetches
  <2>2. CASE PollBegin(w) \/ Sweep(w) \/ SkipSweep(w) \/ RescheduleSwept(w) \/ LaneDone(w)
    <3>1. fetched[w] = Nothing
      BY <2>2 DEF PollBegin, Sweep, SkipSweep, RescheduleSwept, LaneDone, StopOK, Lane
    <3>2. UNCHANGED <<mode, fetched, active, remaining>>
      BY <2>2 DEF PollBegin, Sweep, SkipSweep, RescheduleSwept, LaneDone
    <3> QED
      BY <3>1, <3>2 DEF Keeps, Fetches
  <2>3. ASSUME NEW q \in Row, Dequeue(w, q) PROVE Keeps(w, r)'
    <3>1. /\ UNCHANGED <<poll, active, remaining>>
          /\ fetched[w] = Nothing /\ poll[w] # "drop"
      BY <2>3 DEF Dequeue, Lane
    <3> QED
      BY <3>1 DEF Keeps, Fetches
  <2>4. CASE StartStopped(w) \/ \E e \in Exec : Start(w, e)
    <3>1. /\ active'[w] = active[w] \cup {fetched[w].row}
          /\ UNCHANGED remaining
          /\ poll'[w] # "drop"
      BY <2>4 DEF Start, StartStopped, TrackRow, TypeOK, Lane
    <3> QED
      BY <3>1 DEF Keeps, Fetches
  <2>5. CASE GiveBack(w)
    <3>1. UNCHANGED <<fetched, active, remaining>>
      BY <2>5 DEF GiveBack
    <3>2. ASSUME Fetches(w, r) PROVE FALSE
      <4>1. task'[r] = Released(task[r])
        BY <2>5, <3>2 DEF GiveBack, Fetches, TypeOK
      <4>2. task'[r].status = "pending"
        BY <4>1, UnchargedType DEF Released, TypeOK
      <4> QED
        BY <4>2
    <3> QED
      BY <3>1, <3>2 DEF Keeps, Fetches
  <2>6. CASE Drop(w)
    <3>1. /\ UNCHANGED remaining
          /\ poll[w] = "drop"
          /\ fetched'[w] = Nothing
          /\ active'[w] = active[w] \ {fetched[w].row}
      BY <2>6 DEF Drop, Untrack, TypeOK
    <3>2. fetched[w] # Nothing
      BY <3>1 DEF StopOK
    <3> QED
      BY <3>1, <3>2 DEF Keeps, Fetches
  <2>7. CASE Stop(w)
    BY <2>7 DEF Stop, Keeps, Fetches
  <2>8. CASE DrainTimeout(w)
    <3>1. /\ UNCHANGED <<fetched, poll>>
          /\ mode[w] = "stopping"
          /\ remaining'[w] = active[w]
      BY <2>8 DEF DrainTimeout, TypeOK
    <3>2. remaining[w] = {}
      BY <3>1 DEF StopOK
    <3> QED
      BY <3>1, <3>2 DEF Keeps, Fetches
  <2>9. CASE ReleaseRemaining(w)
    <3>1. UNCHANGED <<fetched, poll, active>>
      BY <2>9 DEF ReleaseRemaining
    <3>2. ASSUME r \in remaining[w] PROVE FALSE
      <4>1. task'[r] = Released(task[r])
        BY <2>9, <3>2 DEF ReleaseRemaining
      <4>2. task'[r].status = "pending"
        BY <4>1, UnchargedType DEF Released, TypeOK
      <4> QED
        BY <4>2
    <3> QED
      BY <3>1, <3>2 DEF Keeps, Fetches
  <2>10. ~Crash(w)
    BY DEF Crash, Spend, OneStop
  <2> QED
    BY <1>3, <2>1, <2>2, <2>3, <2>4, <2>5, <2>6, <2>7, <2>8, <2>9, <2>10
    DEF WorkerStep
<1> QED
  BY <1>1, <1>2, <1>3, MemoryHistory

LEMMA AllKeptStep ==
    ASSUME HandInv, [Next]_vars, AllKept, \A w \in Worker : ~Exit(w)
    PROVE  AllKept'
<1> USE DEF HandInv
<1> SUFFICES ASSUME NEW r \in Row, task'[r].status = "processing"
             PROVE  \E w \in Worker : Keeps(w, r)'
  BY DEF AllKept
<1>1. ASSUME NEW w \in Worker, Dequeue(w, r) PROVE Keeps(w, r)'
  <2>1. /\ fetched' = [fetched EXCEPT ![w] = [row |-> r, attempt |-> task[r].attempt + 1]]
        /\ poll'[w] # "drop"
    BY <1>1 DEF Dequeue, Lane
  <2>2. fetched'[w].row = r /\ fetched'[w].attempt = task[r].attempt + 1
    BY <2>1 DEF Typed, TypeOK
  <2>3. task[r].attempt \in Nat
    BY DEF Typed, TypeOK, TaskRow
  <2>4. fetched'[w] # Nothing
    BY <2>2, <2>3 DEF Nothing
  <2> QED
    BY <2>1, <2>2, <2>4 DEF Keeps, Fetches
<1>2. ASSUME task[r].status = "processing" PROVE \E w \in Worker : Keeps(w, r)'
  BY <1>2, KeepsStep DEF AllKept
<1>3. task[r].status = "processing" \/ \E w \in Worker : Dequeue(w, r)
  <2>1. ~BecomeDue(r)
    BY DEF BecomeDue, Typed, TypeOK, TaskRow
  <2> QED
    BY <2>1, RowStepHistory DEF RowHistory, Untouched, GoStale, Stall, SettledBy,
       TakenBack
<1> QED
  BY <1>1, <1>2, <1>3

LEMMA HandInvariant ==
    ASSUME Faults["crash"] = 0, Faults["error"] = 0, Faults["stop"] <= 1
    PROVE  Spec => []HandInv
<1>1. Init => HandInv
  <2> SUFFICES ASSUME Init PROVE HandInv
    OBVIOUS
  <2>1. Typed
    BY InitType
  <2>2. Live = {}
    BY DEF Init, Live
  <2>3. AttemptCounted /\ SettledFirst
    BY <2>2 DEF Init, AttemptCounted, SettledFirst, RunsRow, Fetches
  <2>4. OneStop
    BY DEF Init, OneStop, Leaving
  <2>5. \A w \in Worker : StopOK(w)
    BY DEF Init, StopOK
  <2>6. AllKept
    BY DEF Init, AllKept, NoTask
  <2> QED
    BY <2>1, <2>3, <2>4, <2>5, <2>6 DEF HandInv
<1>2. HandInv /\ [Next]_vars => HandInv'
  <2> SUFFICES ASSUME HandInv, [Next]_vars PROVE HandInv'
    OBVIOUS
  <2>1. Typed' /\ AttemptCounted'
    BY StepType, AttemptStep DEF HandInv
  <2>2. /\ OneStop'
        /\ NoMoreExits => NoMoreExits'
        /\ \A w \in Worker : Exit(w) => NoMoreExits'
    BY OneStopStep DEF HandInv
  <2>3. \A w \in Worker : StopOK(w)'
    BY StopOKStep DEF HandInv
  <2>4. SettledFirst'
    BY SettledFirstStep DEF HandInv, OneStop
  <2>5. AllKept' \/ NoMoreExits'
    BY <2>2, AllKeptStep DEF HandInv
  <2> QED
    BY <2>1, <2>2, <2>3, <2>4, <2>5 DEF HandInv
<1> QED
  BY <1>1, <1>2, PTL DEF Spec

(* One orderly stop, whatever it interrupts (a drain that times out, a     *)
(* dequeue still out, executions that run on, rows swept or deleted        *)
(* meanwhile), leaves every processing row with a process that holds it.   *)
(* A crash or a failing statement is the sweep's business, and a second    *)
(* stop may follow one that ended with its poll still out.                 *)
THEOREM HandedBackHolds ==
    ASSUME Faults["crash"] = 0, Faults["error"] = 0, Faults["stop"] <= 1
    PROVE  Spec => HandedBack
<1>1. ASSUME HandInv, NEW w \in Worker, Exit(w), poll[w] = "idle",
             NEW r \in Row, task[r].status = "processing"
      PROVE  \E v \in Worker \ {w} : Holds(v, r)
  <2>1. Leaving(w)
    BY <1>1 DEF Exit, Leaving
  <2>2. AllKept
    BY <1>1, <2>1 DEF HandInv, NoMoreExits
  <2> PICK v \in Worker : Keeps(v, r)
    BY <1>1, <2>2 DEF AllKept
  <2>3. StopOK(w)
    BY <1>1 DEF HandInv
  <2>4. fetched[w] = Nothing /\ remaining[w] = {} /\ active[w] = {}
    BY <1>1, <2>3 DEF StopOK, Exit, Lane
  <2>5. v # w
    BY <2>4 DEF Keeps, Fetches
  <2> QED
    BY <2>5 DEF Keeps, Holds, Fetches
<1>2. HandInv => \A w \in Worker : Exit(w) /\ poll[w] = "idle" =>
          \A r \in Row : task[r].status = "processing" =>
              \E v \in Worker \ {w} : Holds(v, r)
  BY <1>1
<1>3. HandInv /\ [Next]_vars => [\A w \in Worker : Exit(w) /\ poll[w] = "idle" =>
          \A r \in Row : task[r].status = "processing" =>
              \E v \in Worker \ {w} : Holds(v, r)]_vars
  BY <1>2
<1> QED
  BY <1>3, HandInvariant, PTL DEF Spec, HandedBack
=============================================================================
