-------------------------- MODULE TaskQueue_proofs --------------------------
(***************************************************************************)
(* Proofs about TaskQueue, for every set of workers, rows and executions,  *)
(* every lane cap and retry budget, and every finite number of crashes,    *)
(* shutdowns, stalls, database errors and superseded runs.                 *)
(***************************************************************************)
EXTENDS TaskQueue, FiniteSetTheorems, TLAPS

(***************************************************************************)
(* Typing.  Only finitely many tasks are tracked at once, so the number    *)
(* untracked is a natural number.                                          *)
(***************************************************************************)
Typed == TypeOK /\ \A w \in Worker : IsFiniteSet(active[w])

USE KindAssumption, LaneCapAssumption, MaxAttemptsAssumption, FaultsAssumption

(* A kind has one lane. *)
LEMMA LaneType == ASSUME NEW r \in Row PROVE LaneOf(r) \in Lane
BY DEF LaneOf, Lane, Kinds

LEMMA MaxAttemptsType ==
    ASSUME NEW r \in Row
    PROVE  MaxAttemptsOf(r) \in Nat /\ MaxAttemptsOf(r) >= 1
BY DEF MaxAttemptsOf

(* Every statement of TaskModel writes a well-formed row. *)
LEMMA LeaveType ==
    ASSUME NEW t \in TaskRow, NEW s \in Status, NEW due \in BOOLEAN
    PROVE  /\ Leave(t, s, due) \in TaskRow
           /\ Leave(t, s, due).attempt = t.attempt
           /\ Leave(t, s, due).recorded = t.recorded
           /\ Leave(t, s, due).status = s
BY DEF TaskRow, Leave

LEMMA UnchargedType ==
    ASSUME NEW t \in TaskRow
    PROVE  /\ Uncharged(t) \in TaskRow
           /\ Uncharged(t).status = "pending"
           /\ Uncharged(t).recorded = t.recorded
<1> DEFINE u == Leave(t, "pending", TRUE)
<1>1. u \in TaskRow /\ u.recorded = t.recorded /\ u.status = "pending"
  BY LeaveType DEF Status
<1>2. Uncharged(t) = [u EXCEPT !.attempt = IF u.attempt > 0 THEN u.attempt - 1
                                           ELSE 0]
  BY DEF Uncharged
<1> HIDE DEF u
<1>3. (IF u.attempt > 0 THEN u.attempt - 1 ELSE 0) \in Nat
  BY <1>1 DEF TaskRow
<1> QED
  BY <1>1, <1>2, <1>3 DEF TaskRow

LEMMA RowOperators ==
    ASSUME NEW t \in TaskRow, NEW r \in Row, NEW due \in BOOLEAN,
           NEW n \in Nat
    PROVE  /\ NoTask \in TaskRow
           /\ Inserted(due) \in TaskRow
           /\ Dequeued(t) \in TaskRow
           /\ Recorded(t) \in TaskRow
           /\ Completed(t) \in TaskRow
           /\ Failed(r, t, n) \in TaskRow
           /\ Released(t) \in TaskRow
           /\ Renewed(t) \in TaskRow
<1>1. NoTask \in TaskRow /\ Inserted(due) \in TaskRow
  BY DEF NoTask, Inserted, TaskRow, Status
<1>2. Dequeued(t) \in TaskRow
  <2>1. t.attempt + 1 \in Nat
    BY DEF TaskRow
  <2> QED BY <2>1 DEF Dequeued, TaskRow, Status
<1>3. Recorded(t) \in TaskRow /\ Renewed(t) \in TaskRow
  BY DEF Recorded, Exists, Renewed, TaskRow, Status
<1>4. Completed(t) \in TaskRow
  BY LeaveType DEF Completed, Exists, Status
<1>5. Failed(r, t, n) \in TaskRow
  <2>1. MaxAttemptsOf(r) \in Nat
    BY MaxAttemptsType
  <2>2. Leave(t, "dead", FALSE) \in TaskRow /\ Leave(t, "pending", FALSE) \in TaskRow
    BY LeaveType DEF Status
  <2>3. CASE ~Exists(t)
    BY <2>3 DEF Failed
  <2>4. CASE Exists(t) /\ n >= MaxAttemptsOf(r)
    BY <2>2, <2>4 DEF Failed
  <2>5. CASE Exists(t) /\ n < MaxAttemptsOf(r)
    BY <2>1, <2>2, <2>5 DEF Failed
  <2> QED BY <2>1, <2>3, <2>4, <2>5
<1>6. Released(t) \in TaskRow
  BY UnchargedType DEF Released
<1> QED
  BY <1>1, <1>2, <1>3, <1>4, <1>5, <1>6

(* The parts that several actions share keep their variables well typed.   *)
LEMMA LiveExec ==
    ASSUME TypeOK, NEW e \in Exec, exec[e].pc # "none"
    PROVE  exec[e] \in Execution /\ e \in Live
BY DEF TypeOK, NoExec, Live

LEMMA GotoType ==
    ASSUME TypeOK, NEW e \in Exec, NEW pc \in ExecPC, exec[e].pc # "none",
           Goto(e, pc)
    PROVE  exec' \in [Exec -> Execution \cup {NoExec}]
<1>1. exec[e] \in Execution
  BY LiveExec
<1>2. [exec[e] EXCEPT !.pc = pc] \in Execution
  BY <1>1 DEF Execution
<1>3. exec' = [exec EXCEPT ![e] = [exec[e] EXCEPT !.pc = pc]]
  BY DEF Goto
<1> QED
  BY <1>2, <1>3 DEF TypeOK

LEMMA SpendType ==
    ASSUME TypeOK, NEW f \in FaultKind, Spend(f)
    PROVE  faults' \in [FaultKind -> Nat]
BY DEF TypeOK, Spend

LEMMA SlotsType ==
    ASSUME Typed, NEW w \in Worker, NEW gone
    PROVE  Slots(w, gone) \in [Lane -> Nat]
<1> DEFINE n(l) == Cardinality({r \in gone \cap active[w] : LaneOf(r) = l})
<1>1. ASSUME NEW l \in Lane
      PROVE  (IF slots[w][l] > n(l) THEN slots[w][l] - n(l) ELSE 0) \in Nat
  <2>1. IsFiniteSet({r \in gone \cap active[w] : LaneOf(r) = l})
    BY FS_Subset DEF Typed
  <2>2. n(l) \in Nat
    BY <2>1, FS_CardinalityType
  <2>3. slots[w][l] \in Nat
    BY <1>1 DEF Typed, TypeOK
  <2> HIDE DEF n
  <2> QED
    BY <2>2, <2>3
<1>2. Slots(w, gone) = [l \in Lane |-> IF slots[w][l] > n(l)
                                       THEN slots[w][l] - n(l) ELSE 0]
  BY DEF Slots
<1> HIDE DEF n
<1> QED
  BY <1>1, <1>2

LEMMA UntrackType ==
    ASSUME Typed, NEW w \in Worker, NEW gone, Untrack(w, gone)
    PROVE  /\ active' \in [Worker -> SUBSET Row]
           /\ slots' \in [Worker -> [Lane -> Nat]]
           /\ \A v \in Worker : IsFiniteSet(active'[v])
<1>1. active' = [active EXCEPT ![w] = active[w] \ gone]
  BY DEF Untrack
<1>2. slots' = [slots EXCEPT ![w] = Slots(w, gone)]
  BY DEF Untrack
<1>3. active' \in [Worker -> SUBSET Row]
  BY <1>1 DEF Typed, TypeOK
<1>4. slots' \in [Worker -> [Lane -> Nat]]
  BY <1>2, SlotsType DEF Typed, TypeOK
<1>5. ASSUME NEW v \in Worker PROVE IsFiniteSet(active'[v])
  <2>1. active'[v] \subseteq active[v] /\ IsFiniteSet(active[v])
    BY <1>1 DEF Typed, TypeOK
  <2> QED
    BY <2>1, FS_Subset
<1> QED
  BY <1>3, <1>4, <1>5

LEMMA TrackRowType ==
    ASSUME Typed, NEW w \in Worker, NEW r \in Row, TrackRow(w, r)
    PROVE  /\ active' \in [Worker -> SUBSET Row]
           /\ slots' \in [Worker -> [Lane -> Nat]]
           /\ \A v \in Worker : IsFiniteSet(active'[v])
<1>1. active' = [active EXCEPT ![w] = active[w] \cup {r}]
  BY DEF TrackRow
<1>2. slots' = [slots EXCEPT ![w] =
                  [slots[w] EXCEPT ![LaneOf(r)] = slots[w][LaneOf(r)] + 1]]
  BY DEF TrackRow
<1>3. active' \in [Worker -> SUBSET Row]
  BY <1>1 DEF Typed, TypeOK
<1>4. slots[w] \in [Lane -> Nat] /\ LaneOf(r) \in Lane
  BY LaneType DEF Typed, TypeOK
<1>5. [slots[w] EXCEPT ![LaneOf(r)] = slots[w][LaneOf(r)] + 1] \in [Lane -> Nat]
  BY <1>4
<1>6. slots' \in [Worker -> [Lane -> Nat]]
  BY <1>2, <1>5 DEF Typed, TypeOK
<1>7. ASSUME NEW v \in Worker PROVE IsFiniteSet(active'[v])
  <2>1. IsFiniteSet(active[v]) /\ IsFiniteSet(active[w] \cup {r})
    BY FS_AddElement DEF Typed
  <2>2. active'[v] = active[v] \/ active'[v] = active[w] \cup {r}
    BY <1>1 DEF Typed, TypeOK
  <2> QED
    BY <2>1, <2>2
<1> QED
  BY <1>3, <1>6, <1>7

LEMMA InsertPeriodicType ==
    ASSUME TypeOK, NEW due \in BOOLEAN, InsertPeriodic(due)
    PROVE  task' \in [Row -> TaskRow]
<1>1. Inserted(due) \in TaskRow
  BY DEF NoTask, Inserted, TaskRow, Status
<1> QED
  BY <1>1 DEF InsertPeriodic, TypeOK, Periodic

LEMMA VanishType ==
    ASSUME Typed, NEW w \in Worker, Vanish(w),
           task' \in [Row -> TaskRow], faults' \in [FaultKind -> Nat]
    PROVE  Typed'
<1>1. /\ mode' \in [Worker -> Modes]
      /\ poll' \in [Worker -> PollPC]
      /\ fetched' \in [Worker -> [row : Row, attempt : Nat] \cup {Nothing}]
      /\ active' \in [Worker -> SUBSET Row]
      /\ remaining' \in [Worker -> SUBSET Row]
      /\ permRun' \in PermOwner
  BY DEF Vanish, Typed, TypeOK, Modes, PollPC, PermOwner
<1>2. slots' \in [Worker -> [Lane -> Nat]]
  <2>1. [l \in Lane |-> 0] \in [Lane -> Nat]
    OBVIOUS
  <2> QED
    BY <2>1 DEF Vanish, Typed, TypeOK
<1>3. exec' \in [Exec -> Execution \cup {NoExec}]
  BY DEF Vanish, Typed, TypeOK
<1>4. ASSUME NEW v \in Worker PROVE IsFiniteSet(active'[v])
  <2>1. active'[v] = {} \/ active'[v] = active[v]
    BY DEF Vanish, Typed, TypeOK
  <2> QED
    BY <2>1, FS_EmptySet DEF Typed
<1> QED
  BY <1>1, <1>2, <1>3, <1>4 DEF Typed, TypeOK

LEMMA InitType == Init => Typed
<1> SUFFICES ASSUME Init PROVE Typed
  OBVIOUS
<1>1. task \in [Row -> TaskRow]
  BY DEF Init, NoTask, TaskRow, Status
<1>2. slots \in [Worker -> [Lane -> Nat]]
  <2>1. [l \in Lane |-> 0] \in [Lane -> Nat]
    OBVIOUS
  <2> QED
    BY <2>1 DEF Init
<1>3. \A w \in Worker : IsFiniteSet(active[w])
  BY FS_EmptySet DEF Init
<1> QED
  BY <1>1, <1>2, <1>3 DEF Init, Typed, TypeOK, Modes, PollPC, PermOwner

(* One step of a process keeps the typing. *)
LEMMA WorkerStepType ==
    ASSUME Typed, NEW w \in Worker, WorkerStep(w)
    PROVE  Typed'
<1> USE DEF Typed
<1>1. CASE Boot(w)
  BY <1>1 DEF Boot, TypeOK, Modes
<1>2. CASE Seed(w)
  <2>1. task' \in [Row -> TaskRow]
    BY <1>2, InsertPeriodicType DEF Seed
  <2> QED
    BY <1>2, <2>1 DEF Seed, TypeOK, Modes
<1>3. CASE PollBegin(w)
  <2>1. \A r \in Row : Renewed(task[r]) \in TaskRow
    BY RowOperators DEF TypeOK
  <2> QED
    BY <1>3, <2>1 DEF PollBegin, TypeOK, PollPC
<1>4. CASE Sweep(w)
  <2>1. ASSUME NEW r \in Row PROVE Swept(r) \in TaskRow
    BY LeaveType DEF Swept, TypeOK, Status
  <2> QED
    BY <1>4, <2>1 DEF Sweep, TypeOK, PollPC, Lane
<1>5. CASE SkipSweep(w)
  BY <1>5 DEF SkipSweep, TypeOK, PollPC, Lane
<1>6. CASE RescheduleSwept(w)
  <2>1. task' \in [Row -> TaskRow]
    BY <1>6, InsertPeriodicType DEF RescheduleSwept
  <2> QED
    BY <1>6, <2>1 DEF RescheduleSwept, TypeOK, PollPC, Lane
<1>7. ASSUME NEW r \in Row, Dequeue(w, r) PROVE Typed'
  <2>1. Dequeued(task[r]) \in TaskRow
    BY RowOperators DEF TypeOK
  <2>2. task' \in [Row -> TaskRow]
    BY <1>7, <2>1 DEF Dequeue, TypeOK
  <2>3. task[r].attempt + 1 \in Nat
    BY DEF TypeOK, TaskRow
  <2>4. fetched' \in [Worker -> [row : Row, attempt : Nat] \cup {Nothing}]
    BY <1>7, <2>1, <2>3 DEF Dequeue, Dequeued, TypeOK, TaskRow
  <2> QED
    BY <1>7, <2>2, <2>4 DEF Dequeue, TypeOK
<1>8. CASE LaneDone(w)
  BY <1>8 DEF LaneDone, NextLane, TypeOK, PollPC, Lane
<1>9. ASSUME NEW e \in Exec, Start(w, e) PROVE Typed'
  <2>1. fetched[w] \in [row : Row, attempt : Nat]
    BY <1>9 DEF Start, TypeOK
  <2>2. exec' \in [Exec -> Execution \cup {NoExec}]
    BY <1>9, <2>1 DEF Start, TypeOK, Execution, ExecPC
  <2>3. /\ active' \in [Worker -> SUBSET Row]
        /\ slots' \in [Worker -> [Lane -> Nat]]
        /\ \A v \in Worker : IsFiniteSet(active'[v])
    BY <1>9, <2>1, TrackRowType DEF Start
  <2> QED
    BY <1>9, <2>2, <2>3 DEF Start, TypeOK
<1>10. CASE StartStopped(w)
  <2>1. fetched[w] \in [row : Row, attempt : Nat]
    BY <1>10 DEF StartStopped, TypeOK
  <2>2. /\ active' \in [Worker -> SUBSET Row]
        /\ slots' \in [Worker -> [Lane -> Nat]]
        /\ \A v \in Worker : IsFiniteSet(active'[v])
    BY <1>10, <2>1, TrackRowType DEF StartStopped
  <2> QED
    BY <1>10, <2>2 DEF StartStopped, TypeOK, PollPC
<1>11. CASE GiveBack(w)
  <2>1. \A r \in Row : Released(task[r]) \in TaskRow
    BY RowOperators DEF TypeOK
  <2>2. task' \in [Row -> TaskRow]
    BY <1>11, <2>1 DEF GiveBack, TypeOK
  <2> QED
    BY <1>11, <2>2 DEF GiveBack, TypeOK, PollPC
<1>12. CASE Drop(w)
  <2>1. /\ active' \in [Worker -> SUBSET Row]
        /\ slots' \in [Worker -> [Lane -> Nat]]
        /\ \A v \in Worker : IsFiniteSet(active'[v])
    BY <1>12, UntrackType DEF Drop
  <2> QED
    BY <1>12, <2>1 DEF Drop, TypeOK, PollPC
<1>13. CASE Stop(w)
  BY <1>13, SpendType DEF Stop, TypeOK, Modes, FaultKind
<1>14. CASE DrainTimeout(w)
  <2>1. /\ active' \in [Worker -> SUBSET Row]
        /\ slots' \in [Worker -> [Lane -> Nat]]
        /\ \A v \in Worker : IsFiniteSet(active'[v])
    BY <1>14, UntrackType DEF DrainTimeout
  <2> QED
    BY <1>14, <2>1 DEF DrainTimeout, TypeOK, Modes
<1>15. CASE ReleaseRemaining(w)
  <2>1. \A r \in Row : Released(task[r]) \in TaskRow
    BY RowOperators DEF TypeOK
  <2> QED
    BY <1>15, <2>1 DEF ReleaseRemaining, TypeOK, Modes
<1>16. CASE Exit(w)
  BY <1>16, VanishType DEF Exit, TypeOK
<1>17. CASE Crash(w)
  <2>1. faults' \in [FaultKind -> Nat]
    BY <1>17, SpendType DEF Crash, FaultKind
  <2> QED
    BY <1>17, <2>1, VanishType DEF Crash, TypeOK
<1> QED
  BY <1>1, <1>2, <1>3, <1>4, <1>5, <1>6, <1>7, <1>8, <1>9, <1>10, <1>11,
     <1>12, <1>13, <1>14, <1>15, <1>16, <1>17 DEF WorkerStep

(* One step of an execution keeps the typing. *)
LEMMA ExecStepType ==
    ASSUME Typed, NEW e \in Exec, ExecStep(e)
    PROVE  Typed'
<1> USE DEF Typed
<1>1. exec[e] \in Execution
  BY LiveExec DEF ExecStep, Handle, Claim, ClaimBusy, PassEnds, Complete, Throw,
     Record, RecordThrows, Fail, FailThrows, Reschedule, RescheduleThrows,
     Finally, At
<1>2. RowOf(e) \in Row /\ exec[e].worker \in Worker /\ exec[e].attempt \in Nat
      /\ exec[e].pc # "none"
  BY <1>1 DEF Execution, RowOf, ExecPC
<1>3. ASSUME NEW pc \in ExecPC, Goto(e, pc)
      PROVE  exec' \in [Exec -> Execution \cup {NoExec}]
  BY <1>2, <1>3, GotoType
<1>4. /\ Recorded(task[RowOf(e)]) \in TaskRow
      /\ Completed(task[RowOf(e)]) \in TaskRow
      /\ Failed(RowOf(e), task[RowOf(e)], exec[e].attempt) \in TaskRow
  BY <1>2, RowOperators DEF TypeOK
<1>5. /\ "complete" \in ExecPC /\ "pass" \in ExecPC /\ "record" \in ExecPC
      /\ "fail" \in ExecPC /\ "reschedule" \in ExecPC /\ "untrack" \in ExecPC
  BY DEF ExecPC
<1>6. ASSUME Spend("error") PROVE faults' \in [FaultKind -> Nat]
  BY <1>6, SpendType DEF FaultKind
<1>7. ASSUME InsertPeriodic(FALSE) PROVE task' \in [Row -> TaskRow]
  BY <1>7, InsertPeriodicType
<1> USE DEF process
<1>8. CASE Handle(e)
  BY <1>8, <1>3, <1>4, <1>5 DEF Handle, TypeOK
<1>9. CASE Claim(e)
  BY <1>9, <1>3, <1>5 DEF Claim, TypeOK, PermOwner
<1>10. CASE ClaimBusy(e)
  BY <1>10, <1>3, <1>5 DEF ClaimBusy, TypeOK
<1>11. CASE PassEnds(e)
  BY <1>11, <1>3, <1>5 DEF PassEnds, TypeOK, PermOwner
<1>12. CASE Complete(e)
  <2>1. exec' \in [Exec -> Execution \cup {NoExec}]
    BY <1>12, <1>3, <1>5 DEF Complete
  <2> QED
    BY <1>12, <2>1, <1>4 DEF Complete, TypeOK
<1>13. CASE Throw(e)
  <2>1. exec' \in [Exec -> Execution \cup {NoExec}]
    BY <1>13, <1>3, <1>5 DEF Throw
  <2>2. faults' \in [FaultKind -> Nat]
    BY <1>13, <1>6 DEF Throw, TypeOK
  <2> QED
    BY <1>13, <2>1, <2>2 DEF Throw, TypeOK
<1>14. CASE Record(e)
  BY <1>14, <1>3, <1>4, <1>5 DEF Record, TypeOK
<1>15. CASE RecordThrows(e)
  BY <1>15, <1>3, <1>4, <1>5, <1>6 DEF RecordThrows, TypeOK
<1>16. CASE Fail(e)
  <2>1. exec' \in [Exec -> Execution \cup {NoExec}]
    BY <1>16, <1>3, <1>5 DEF Fail
  <2> QED
    BY <1>16, <2>1, <1>4 DEF Fail, TypeOK
<1>17. CASE FailThrows(e)
  BY <1>17, <1>3, <1>5, <1>6 DEF FailThrows, TypeOK
<1>18. CASE Reschedule(e)
  BY <1>18, <1>3, <1>5, <1>7 DEF Reschedule, TypeOK
<1>19. CASE RescheduleThrows(e)
  BY <1>19, <1>3, <1>5, <1>6 DEF RescheduleThrows, TypeOK
<1>20. CASE Finally(e)
  <2>1. /\ active' \in [Worker -> SUBSET Row]
        /\ slots' \in [Worker -> [Lane -> Nat]]
        /\ \A v \in Worker : IsFiniteSet(active'[v])
    BY <1>20, <1>2, UntrackType DEF Finally
  <2> QED
    BY <1>20, <2>1 DEF Finally, TypeOK
<1> QED
  BY <1>8, <1>9, <1>10, <1>11, <1>12, <1>13, <1>14, <1>15, <1>16, <1>17,
     <1>18, <1>19, <1>20 DEF ExecStep

(* So does a step of the environment: an enqueue, the passing of time, the *)
(* reaper, a settings change or a deletion.                                *)
LEMMA RowStepType ==
    ASSUME Typed, NEW r \in Row, RowStep(r)
    PROVE  Typed'
<1> USE DEF Typed, process
<1>1. Inserted(TRUE) \in TaskRow
  BY DEF NoTask, Inserted, TaskRow, Status
<1>2. task' \in [Row -> TaskRow]
  <2>1. task[r] \in TaskRow
    BY DEF TypeOK
  <2>2. /\ [task[r] EXCEPT !.due = TRUE] \in TaskRow
        /\ [task[r] EXCEPT !.stale = TRUE] \in TaskRow
        /\ [task[r] EXCEPT !.aged = TRUE] \in TaskRow
    BY <2>1 DEF TaskRow
  <2>3. CASE Enqueue(r)
    BY <2>3, <1>1 DEF Enqueue, TypeOK
  <2>4. CASE BecomeDue(r)
    <3>1. task' = [task EXCEPT ![r] = [task[r] EXCEPT !.due = TRUE]]
      BY <2>4 DEF BecomeDue
    <3> QED
      BY <3>1, <2>2 DEF TypeOK
  <2>5. CASE GoStale(r) \/ Stall(r)
    <3>1. task' = [task EXCEPT ![r] = [task[r] EXCEPT !.stale = TRUE]]
      BY <2>5 DEF GoStale, Stall
    <3> QED
      BY <3>1, <2>2 DEF TypeOK
  <2>6. CASE GoAged(r)
    <3>1. task' = [task EXCEPT ![r] = [task[r] EXCEPT !.aged = TRUE]]
      BY <2>6 DEF GoAged
    <3> QED
      BY <3>1, <2>2 DEF TypeOK
  <2> QED
    BY <2>3, <2>4, <2>5, <2>6 DEF RowStep
<1>3. faults' \in [FaultKind -> Nat]
  BY SpendType DEF RowStep, Enqueue, BecomeDue, GoStale, Stall, GoAged, TypeOK,
     FaultKind
<1> QED
  BY <1>2, <1>3 DEF RowStep, Enqueue, BecomeDue, GoStale, Stall, GoAged, TypeOK

LEMMA ConnectorStepType ==
    ASSUME Typed, ConnectorStep
    PROVE  Typed'
<1> USE DEF Typed, process
<1>1. \A r \in Row : /\ Leave(task[r], "dead", FALSE) \in TaskRow
                      /\ Leave(task[r], "deleted", FALSE) \in TaskRow
                      /\ Uncharged(task[r]) \in TaskRow
  BY LeaveType, UnchargedType DEF TypeOK, Status
<1>2. task' \in [Row -> TaskRow]
  BY <1>1 DEF ConnectorStep, Supersede, ReapRun, RequeueOrphans, DeleteQueued,
     TypeOK
<1>3. faults' \in [FaultKind -> Nat]
  BY SpendType DEF ConnectorStep, Supersede, ReapRun, RequeueOrphans,
     DeleteQueued, TypeOK, FaultKind
<1> QED
  BY <1>2, <1>3 DEF ConnectorStep, Supersede, ReapRun, RequeueOrphans,
     DeleteQueued, TypeOK, PermOwner

LEMMA StepType == Typed /\ [Next]_vars => Typed'
<1>1. ASSUME Typed, UNCHANGED vars PROVE Typed'
  BY <1>1 DEF Typed, TypeOK, vars
<1> QED
  BY <1>1, WorkerStepType, ExecStepType, RowStepType, ConnectorStepType DEF Next

(* The type invariant holds in every reachable state, whatever the number  *)
(* of workers, rows and executions.                                        *)
THEOREM TypeCorrect == Spec => []TypeOK
<1>1. Typed => TypeOK
  BY DEF Typed
<1> QED
  BY <1>1, InitType, StepType, PTL DEF Spec

---------------------------------------------------------------------------
(***************************************************************************)
(* What a step can do to an execution and to the row a poll has fetched.   *)
(***************************************************************************)
SameExec(e) == /\ exec[e] # NoExec
               /\ exec'[e] # NoExec
               /\ exec'[e].worker = exec[e].worker
               /\ exec'[e].row = exec[e].row
               /\ exec'[e].attempt = exec[e].attempt

Started(e, w) == /\ fetched[w] # Nothing
                 /\ exec'[e].row = fetched[w].row
                 /\ exec'[e].attempt = fetched[w].attempt
                 /\ exec'[e].pc = "handler"

(* An execution is born from a fetched row, and keeps its row, its attempt *)
(* and its process until it is gone.                                       *)
LEMMA ExecutionHistory ==
    ASSUME Typed, [Next]_vars, NEW e \in Exec
    PROVE  \/ exec'[e] = NoExec
           \/ exec'[e] = exec[e]
           \/ SameExec(e) /\ ExecStep(e)
           \/ \E w \in Worker : Start(w, e) /\ Started(e, w)
<1> DEFINE Goal == \/ exec'[e] = NoExec
                   \/ exec'[e] = exec[e]
                   \/ SameExec(e) /\ ExecStep(e)
                   \/ \E w \in Worker : Start(w, e) /\ Started(e, w)
<1> SUFFICES Goal
  OBVIOUS
<1> USE DEF Typed
<1>1. exec[e] \in Execution \cup {NoExec}
  BY DEF TypeOK
<1>2. ASSUME exec'[e] = exec[e] PROVE Goal
  BY <1>2
<1>3. ASSUME NEW w \in Worker, Vanish(w) PROVE Goal
  <2>1. exec'[e] = NoExec \/ exec'[e] = exec[e]
    BY <1>3 DEF Vanish
  <2> QED
    BY <2>1, <1>2
<1>4. ASSUME NEW w \in Worker, WorkerStep(w) PROVE Goal
  <2>1. ASSUME NEW f \in Exec, Start(w, f) PROVE Goal
    <3>1. CASE f = e
      <4>1. Started(e, w)
        BY <2>1, <3>1 DEF Start, Started, TypeOK
      <4> QED
        BY <2>1, <3>1, <4>1
    <3>2. CASE f # e
      BY <2>1, <3>2, <1>2 DEF Start, TypeOK
    <3> QED
      BY <3>1, <3>2
  <2>2. CASE Exit(w) \/ Crash(w)
    BY <2>2, <1>3 DEF Exit, Crash
  <2>3. CASE UNCHANGED exec
    BY <2>3, <1>2
  <2> QED
    BY <1>4, <2>1, <2>2, <2>3 DEF WorkerStep, Boot, Seed, PollBegin, Sweep,
       SkipSweep, RescheduleSwept, Dequeue, LaneDone, StartStopped, GiveBack,
       Drop, Stop, DrainTimeout, ReleaseRemaining
<1>5. ASSUME NEW f \in Exec, ExecStep(f) PROVE Goal
  <2>1. CASE f # e
    <3>1. exec'[e] = exec[e]
      BY <1>5, <2>1 DEF ExecStep, Handle, Claim, ClaimBusy, PassEnds, Complete,
         Throw, Record, RecordThrows, Fail, FailThrows, Reschedule,
         RescheduleThrows, Finally, Goto, TypeOK
    <3> QED
      BY <3>1, <1>2
  <2>2. CASE f = e /\ Finally(e)
    BY <2>2 DEF Finally, TypeOK
  <2>3. ASSUME f = e, NEW pc \in ExecPC, exec[e].pc # "none", Goto(e, pc)
        PROVE  Goal
    <3>1. exec[e] \in Execution
      BY <2>3, LiveExec
    <3>2. exec'[e] = [exec[e] EXCEPT !.pc = pc]
      BY <2>3 DEF Goto, TypeOK
    <3>3. exec'[e] \in Execution /\ SameExec(e)
      BY <3>1, <3>2 DEF Execution, SameExec, NoExec, ExecPC
    <3> QED
      BY <1>5, <2>3, <3>3
  <2>4. CASE f = e /\ ~Finally(e)
    <3>1. exec[e].pc # "none" /\ \E pc \in ExecPC : Goto(e, pc)
      BY <1>5, <2>4 DEF ExecStep, Handle, Claim, ClaimBusy, PassEnds, Complete,
         Throw, Record, RecordThrows, Fail, FailThrows, Reschedule,
         RescheduleThrows, At, ExecPC
    <3> QED
      BY <3>1, <2>3, <2>4
  <2> QED
    BY <2>1, <2>2, <2>4
<1>6. ASSUME NEW r \in Row, RowStep(r) PROVE Goal
  BY <1>6, <1>2 DEF RowStep, Enqueue, BecomeDue, GoStale, Stall, GoAged
<1>7. CASE ConnectorStep
  BY <1>7, <1>2 DEF ConnectorStep, Supersede, ReapRun, RequeueOrphans,
     DeleteQueued
<1>8. CASE UNCHANGED vars
  BY <1>8, <1>2 DEF vars
<1> QED
  BY <1>4, <1>5, <1>6, <1>7, <1>8 DEF Next

LEMMA FetchHistory ==
    ASSUME Typed, [Next]_vars, NEW w \in Worker
    PROVE  \/ fetched'[w] = fetched[w]
           \/ fetched'[w] = Nothing
           \/ \E r \in Row : Dequeue(w, r)
<1> DEFINE Goal == \/ fetched'[w] = fetched[w]
                   \/ fetched'[w] = Nothing
                   \/ \E r \in Row : Dequeue(w, r)
<1> SUFFICES Goal
  OBVIOUS
<1> USE DEF Typed
<1>1. ASSUME NEW v \in Worker, WorkerStep(v) PROVE Goal
  <2>1. ASSUME NEW r \in Row, Dequeue(v, r) PROVE Goal
    BY <2>1 DEF Dequeue, TypeOK
  <2>2. ASSUME NEW e \in Exec, Start(v, e) PROVE Goal
    BY <2>2 DEF Start, TypeOK
  <2>3. CASE Drop(v) \/ Exit(v) \/ Crash(v)
    BY <2>3 DEF Drop, Exit, Crash, Vanish, TypeOK
  <2>4. CASE UNCHANGED fetched
    BY <2>4
  <2> QED
    BY <1>1, <2>1, <2>2, <2>3, <2>4 DEF WorkerStep, Boot, Seed, PollBegin, Sweep,
       SkipSweep, RescheduleSwept, LaneDone, StartStopped, GiveBack, Stop,
       DrainTimeout, ReleaseRemaining
<1>2. ASSUME NEW e \in Exec, ExecStep(e) PROVE Goal
  BY <1>2 DEF ExecStep, Handle, Claim, ClaimBusy, PassEnds, Complete,
     Throw, Record, RecordThrows, Fail, FailThrows, Reschedule,
     RescheduleThrows, Finally, process
<1>3. ASSUME NEW r \in Row, RowStep(r) PROVE Goal
  BY <1>3 DEF RowStep, Enqueue, BecomeDue, GoStale, Stall, GoAged, process
<1>4. CASE ConnectorStep
  BY <1>4 DEF ConnectorStep, Supersede, ReapRun, RequeueOrphans, DeleteQueued,
     process
<1>5. CASE UNCHANGED vars
  BY <1>5 DEF vars
<1> QED
  BY <1>1, <1>2, <1>3, <1>4, <1>5 DEF Next

(* Every execution runs on an attempt that its dequeue has counted.        *)
AttemptCounted ==
    /\ \A e \in Live : exec[e].attempt >= 1
    /\ \A w \in Worker : fetched[w] # Nothing => fetched[w].attempt >= 1

LEMMA AttemptStep == Typed /\ AttemptCounted /\ [Next]_vars => AttemptCounted'
<1> SUFFICES ASSUME Typed, AttemptCounted, [Next]_vars PROVE AttemptCounted'
  OBVIOUS
<1>1. ASSUME NEW e \in Exec, exec'[e] # NoExec PROVE exec'[e].attempt >= 1
  BY <1>1, ExecutionHistory DEF SameExec, Started, AttemptCounted, Live
<1>2. ASSUME NEW w \in Worker, fetched'[w] # Nothing
      PROVE  fetched'[w].attempt >= 1
  <2>1. ASSUME NEW r \in Row, Dequeue(w, r) PROVE fetched'[w].attempt >= 1
    <3>1. fetched'[w].attempt = task[r].attempt + 1
      BY <2>1 DEF Dequeue, Dequeued, Typed, TypeOK, TaskRow
    <3>2. task[r].attempt \in Nat
      BY DEF Typed, TypeOK, TaskRow
    <3> QED
      BY <3>1, <3>2
  <2> QED
    BY <1>2, <2>1, FetchHistory DEF AttemptCounted
<1> QED
  BY <1>1, <1>2 DEF AttemptCounted, Live

---------------------------------------------------------------------------
(***************************************************************************)
(* The periodic row.  Only the guarded INSERT makes a row of the periodic  *)
(* type active: a failed execution cannot put its row back, because with a *)
(* budget of one attempt its first is its last.                            *)
(***************************************************************************)
NoNewPeriodic == \A r \in Periodic : Active(r)' => Active(r)

LEMMA PeriodicStep ==
    ASSUME Typed, AttemptCounted, [Next]_vars
    PROVE  NoNewPeriodic \/ InsertPeriodic(TRUE) \/ InsertPeriodic(FALSE)
<1> DEFINE Goal == NoNewPeriodic \/ InsertPeriodic(TRUE) \/ InsertPeriodic(FALSE)
<1> SUFFICES Goal
  OBVIOUS
<1> USE DEF Typed
<1>1. \A r \in Row : task[r] \in TaskRow
  BY DEF TypeOK
<1>2. ASSUME UNCHANGED task PROVE Goal
  BY <1>2 DEF NoNewPeriodic, Active
<1>3. ASSUME NEW q \in Row, NEW t, task' = [task EXCEPT ![q] = t],
             q \in Periodic /\ t.status \in {"pending", "processing"}
                => Active(q)
      PROVE  Goal
  BY <1>3 DEF NoNewPeriodic, Active, Periodic, TypeOK
<1>4. ASSUME NEW w \in Worker, WorkerStep(w) PROVE Goal
  <2>1. CASE Seed(w) \/ RescheduleSwept(w)
    BY <2>1 DEF Seed, RescheduleSwept
  <2>2. CASE PollBegin(w)
    <3>1. ASSUME NEW r \in Periodic,
                 task'[r].status \in {"pending", "processing"}
          PROVE  Active(r)
      BY <3>1, <2>2, <1>1 DEF PollBegin, Renewed, Active, TaskRow, Periodic
    <3> QED
      BY <3>1 DEF NoNewPeriodic, Active
  <2>3. CASE Sweep(w)
    <3>1. ASSUME NEW r \in Periodic,
                 task'[r].status \in {"pending", "processing"}
          PROVE  Active(r)
      <4>1. task'[r] = Swept(r)
        BY <2>3 DEF Sweep, Periodic
      <4> QED
        BY <3>1, <4>1 DEF Swept, DeadLettered, Stuck, Active
    <3> QED
      BY <3>1 DEF NoNewPeriodic, Active
  <2>4. ASSUME NEW r \in Row, Dequeue(w, r) PROVE Goal
    <3>1. Active(r)
      BY <2>4 DEF Dequeue, DueIn, Active
    <3> QED
      BY <2>4, <3>1, <1>3 DEF Dequeue
  <2>5. CASE GiveBack(w)
    <3>1. ASSUME NEW r \in Periodic,
                 task'[r].status \in {"pending", "processing"}
          PROVE  Active(r)
      <4>1. task'[r] = task[r] \/ task'[r] = Released(task[r])
        BY <2>5 DEF GiveBack, TypeOK, Periodic
      <4> QED
        BY <3>1, <4>1 DEF Released, Active
    <3> QED
      BY <3>1 DEF NoNewPeriodic, Active
  <2>6. CASE ReleaseRemaining(w)
    <3>1. ASSUME NEW r \in Periodic,
                 task'[r].status \in {"pending", "processing"}
          PROVE  Active(r)
      <4>1. task'[r] = task[r] \/ task'[r] = Released(task[r])
        BY <2>6 DEF ReleaseRemaining, Periodic
      <4> QED
        BY <3>1, <4>1 DEF Released, Active
    <3> QED
      BY <3>1 DEF NoNewPeriodic, Active
  <2>7. CASE UNCHANGED task
    BY <2>7, <1>2
  <2> QED
    BY <1>4, <2>1, <2>2, <2>3, <2>4, <2>5, <2>6, <2>7 DEF WorkerStep, Boot,
       SkipSweep, LaneDone, Start, StartStopped, Drop, Stop, DrainTimeout, Exit,
       Crash
<1>5. ASSUME NEW e \in Exec, ExecStep(e) PROVE Goal
  <2>1. exec[e] \in Execution /\ e \in Live
    BY <1>5, LiveExec DEF ExecStep, Handle, Claim, ClaimBusy, PassEnds, Complete,
       Throw, Record, RecordThrows, Fail, FailThrows, Reschedule,
       RescheduleThrows, Finally, At
  <2>2. RowOf(e) \in Row /\ exec[e].attempt \in Nat /\ exec[e].attempt >= 1
    BY <2>1 DEF Execution, RowOf, AttemptCounted
  <2>3. task[RowOf(e)] \in TaskRow
    BY <2>2, <1>1
  <2>4. CASE Reschedule(e)
    BY <2>4 DEF Reschedule
  <2>5. CASE Complete(e)
    <3>1. Completed(task[RowOf(e)]).status \in {"pending", "processing"}
             => Active(RowOf(e))
      BY <2>3, LeaveType DEF Completed, Active, Status
    <3> QED
      BY <2>5, <2>2, <3>1, <1>3 DEF Complete
  <2>6. CASE Fail(e)
    <3>1. ASSUME RowOf(e) \in Periodic,
                 Failed(RowOf(e), task[RowOf(e)], exec[e].attempt).status
                    \in {"pending", "processing"}
          PROVE  Active(RowOf(e))
      <4>1. MaxAttemptsOf(RowOf(e)) = 1
        BY <3>1 DEF Periodic, MaxAttemptsOf
      <4>2. CASE ~Exists(task[RowOf(e)])
        BY <3>1, <4>2 DEF Failed, Active
      <4>3. CASE Exists(task[RowOf(e)])
        <5>1. exec[e].attempt >= MaxAttemptsOf(RowOf(e))
          BY <4>1, <2>2
        <5>2. ~(exec[e].attempt < MaxAttemptsOf(RowOf(e)))
          BY <4>1, <2>2
        <5>3. Failed(RowOf(e), task[RowOf(e)], exec[e].attempt)
                 = Leave(task[RowOf(e)], "dead", FALSE)
          BY <4>3, <5>1, <5>2 DEF Failed
        <5> QED
          BY <3>1, <5>3, <2>3, LeaveType DEF Status
      <4> QED
        BY <4>2, <4>3
    <3> QED
      BY <2>6, <2>2, <3>1, <1>3 DEF Fail
  <2>7. CASE Handle(e) \/ Record(e) \/ RecordThrows(e)
    <3>1. Recorded(task[RowOf(e)]).status = task[RowOf(e)].status
      BY <2>3 DEF Recorded, TaskRow
    <3>2. \/ UNCHANGED task
          \/ task' = [task EXCEPT ![RowOf(e)] = Recorded(task[RowOf(e)])]
      BY <2>7 DEF Handle, Record, RecordThrows
    <3> QED
      BY <2>2, <3>1, <3>2, <1>2, <1>3 DEF Active
  <2>8. CASE UNCHANGED task
    BY <2>8, <1>2
  <2> QED
    BY <1>5, <2>4, <2>5, <2>6, <2>7, <2>8 DEF ExecStep, Claim, ClaimBusy,
       PassEnds, Throw, FailThrows, RescheduleThrows, Finally
<1>6. ASSUME NEW r \in Row, RowStep(r) PROVE Goal
  <2>1. CASE Enqueue(r)
    BY <2>1, <1>3 DEF Enqueue, Periodic
  <2>2. CASE BecomeDue(r) \/ GoStale(r) \/ Stall(r) \/ GoAged(r)
    <3>1. Active(r)
      BY <2>2 DEF BecomeDue, GoStale, Stall, GoAged, Active
    <3>2. \E t : task' = [task EXCEPT ![r] = t]
      BY <2>2 DEF BecomeDue, GoStale, Stall, GoAged
    <3> QED
      BY <3>1, <3>2, <1>3
  <2> QED
    BY <1>6, <2>1, <2>2 DEF RowStep
<1>7. CASE ConnectorStep
  <2>1. CASE UNCHANGED task
    BY <2>1, <1>2
  <2>2. CASE RequeueOrphans
    <3>1. ASSUME NEW r \in Periodic PROVE task'[r] = task[r]
      BY <2>2 DEF RequeueOrphans, Orphan, Periodic
    <3> QED
      BY <3>1 DEF NoNewPeriodic, Active
  <2>3. CASE DeleteQueued
    <3>1. ASSUME NEW r \in Periodic PROVE task'[r] = task[r]
      BY <2>3 DEF DeleteQueued, Periodic
    <3> QED
      BY <3>1 DEF NoNewPeriodic, Active
  <2> QED
    BY <1>7, <2>1, <2>2, <2>3 DEF ConnectorStep, Supersede, ReapRun
<1>8. CASE UNCHANGED vars
  BY <1>8, <1>2 DEF vars
<1> QED
  BY <1>4, <1>5, <1>6, <1>7, <1>8 DEF Next

LEMMA InsertKeepsOne ==
    ASSUME Typed, OnePeriodicRow, NEW due, InsertPeriodic(due)
    PROVE  OnePeriodicRow'
<1>1. CASE UNCHANGED task
  BY <1>1 DEF OnePeriodicRow, Active
<1>2. ASSUME \A r \in Periodic : ~Active(r),
             NEW q \in Periodic, task' = [task EXCEPT ![q] = Inserted(due)]
      PROVE  OnePeriodicRow'
  <2>1. ASSUME NEW r \in Periodic, Active(r)' PROVE r = q
    BY <1>2, <2>1 DEF Active, Typed, TypeOK, Periodic
  <2> QED
    BY <2>1 DEF OnePeriodicRow
<1> QED
  BY <1>1, <1>2 DEF InsertPeriodic

PeriodicInv == Typed /\ AttemptCounted /\ OnePeriodicRow

(* No statement of the queue ever makes two rows of the periodic type      *)
(* active, so none but the INSERT can meet the unique index.               *)
THEOREM OnePeriodicRowHolds == Spec => []OnePeriodicRow
<1>1. Init => PeriodicInv
  <2> SUFFICES ASSUME Init PROVE AttemptCounted /\ OnePeriodicRow
    BY InitType DEF PeriodicInv
  <2> QED
    BY DEF Init, AttemptCounted, OnePeriodicRow, Live, Active, NoTask, Periodic
<1>2. PeriodicInv /\ [Next]_vars => PeriodicInv'
  <2> SUFFICES ASSUME PeriodicInv, [Next]_vars PROVE PeriodicInv'
    OBVIOUS
  <2> USE DEF PeriodicInv
  <2>1. Typed' /\ AttemptCounted'
    BY StepType, AttemptStep
  <2>2. CASE NoNewPeriodic
    BY <2>1, <2>2 DEF NoNewPeriodic, OnePeriodicRow, Periodic, Active
  <2>3. CASE InsertPeriodic(TRUE) \/ InsertPeriodic(FALSE)
    BY <2>1, <2>3, InsertKeepsOne
  <2> QED
    BY <2>1, <2>2, <2>3, PeriodicStep
<1>3. PeriodicInv => OnePeriodicRow
  BY DEF PeriodicInv
<1> QED
  BY <1>1, <1>2, <1>3, PTL DEF Spec

---------------------------------------------------------------------------
(***************************************************************************)
(* The outcome of a coordinated batch.  The strengthening says where its   *)
(* execution may stand while the outcome is still missing: not in front of *)
(* the two statements that finish the row.                                 *)
(***************************************************************************)
Batches == {r \in Row : Kind[r] = "batch"}

(* Execution e, if it is at the point of finishing its row. *)
AboutToFinish(e) == \/ At(e, "complete")
                    \/ At(e, "fail") /\ Exhausted(e)

OutcomeFirst ==
    /\ \A e \in Live : RowOf(e) \in Batches =>
          /\ task[RowOf(e)].status # "absent"
          /\ ~At(e, "pass")
          /\ AboutToFinish(e) => \/ task[RowOf(e)].recorded
                                 \/ task[RowOf(e)].status = "deleted"
    /\ \A w \in Worker :
          /\ fetched[w] # Nothing
          /\ fetched[w].row \in Batches
          => task[fetched[w].row].status # "absent"

(* A batch row never comes back once it is gone, and keeps its outcome;    *)
(* only an execution that is about to finish it does finish it.            *)
Forward(r) ==
    /\ task[r].status # "absent" => task'[r].status # "absent"
    /\ task[r].status # "absent" /\ task[r].recorded => task'[r].recorded
    /\ task[r].status = "deleted" => task'[r].status = "deleted"
    /\ Finished(r)' => \/ Finished(r)
                       \/ /\ Exists(task[r])
                          /\ \E e \in Exec : /\ exec[e] \in Execution
                                             /\ RowOf(e) = r
                                             /\ AboutToFinish(e)

LEMMA BatchForward ==
    ASSUME Typed, [Next]_vars, NEW r \in Batches
    PROVE  Forward(r)
<1> USE DEF Typed, Finished
<1>1. r \in Row /\ Kind[r] = "batch" /\ task[r] \in TaskRow
  BY DEF Batches, TypeOK
<1>2. ASSUME task'[r] = task[r] PROVE Forward(r)
  BY <1>2 DEF Forward
<1>3. ASSUME task'[r] = Released(task[r]) PROVE Forward(r)
  BY <1>1, <1>3, UnchargedType DEF Forward, Released
<1>4. ASSUME NEW s \in {"pending", "deleted"}, NEW due \in BOOLEAN,
             task'[r] = Leave(task[r], s, due), task[r].status # "deleted"
      PROVE  Forward(r)
  <2>1. s \in Status
    BY <1>4 DEF Status
  <2>2. task'[r].status = s /\ task'[r].recorded = task[r].recorded
    BY <1>1, <1>4, <2>1, LeaveType
  <2> QED
    BY <2>2, <1>4 DEF Forward
<1>5. ASSUME NEW s \in {"completed", "dead"}, task'[r] = Leave(task[r], s, FALSE),
              Exists(task[r]), NEW e \in Exec, exec[e] \in Execution,
              RowOf(e) = r, AboutToFinish(e)
       PROVE  Forward(r)
  <2>1. s \in Status
    BY <1>5 DEF Status
  <2>2. /\ Leave(task[r], s, FALSE).status = s
        /\ Leave(task[r], s, FALSE).recorded = task[r].recorded
    BY <1>1, <2>1, LeaveType
  <2>3. task'[r].status = s /\ task'[r].recorded = task[r].recorded
    BY <1>5, <2>2
  <2>4. task[r].status \notin {"absent", "deleted"}
    BY <1>5 DEF Exists
  <2> QED
    BY <2>3, <2>4, <1>5 DEF Forward
<1>6. ASSUME NEW w \in Worker, WorkerStep(w) PROVE Forward(r)
  <2>1. CASE Seed(w) \/ RescheduleSwept(w)
    <3>1. task'[r] = task[r]
      BY <2>1, <1>1 DEF Seed, RescheduleSwept, InsertPeriodic, Periodic, TypeOK
    <3> QED
      BY <3>1, <1>2
  <2>2. CASE PollBegin(w)
    <3>1. task'[r] = task[r] \/ task'[r] = Renewed(task[r])
      BY <2>2, <1>1 DEF PollBegin
    <3> QED
      BY <3>1, <1>1, <1>2 DEF Renewed, TaskRow, Forward
  <2>3. CASE Sweep(w)
    <3>1. task'[r] = Swept(r) /\ ~DeadLettered(r)
      BY <2>3, <1>1 DEF Sweep, DeadLettered
    <3>2. CASE Stuck(r)
      <4>1. task'[r] = Leave(task[r], "pending", FALSE)
        BY <3>1, <3>2 DEF Swept
      <4> QED
        BY <4>1, <3>2, <1>4 DEF Stuck
    <3>3. CASE ~Stuck(r)
      <4>1. task'[r] = task[r]
        BY <3>1, <3>3 DEF Swept
      <4> QED
        BY <4>1, <1>2
    <3> QED
      BY <3>2, <3>3
  <2>4. ASSUME NEW q \in Row, Dequeue(w, q) PROVE Forward(r)
    <3>1. CASE q = r
      <4>1. task'[r] = Dequeued(task[r]) /\ task[r].status = "pending"
        BY <2>4, <3>1 DEF Dequeue, DueIn, TypeOK
      <4> QED
        BY <4>1, <1>1 DEF Dequeued, TaskRow, Forward
    <3>2. CASE q # r
      BY <2>4, <3>2, <1>1, <1>2 DEF Dequeue, TypeOK
    <3> QED
      BY <3>1, <3>2
  <2>5. CASE GiveBack(w) \/ ReleaseRemaining(w)
    <3>1. task'[r] = task[r] \/ task'[r] = Released(task[r])
      BY <2>5, <1>1 DEF GiveBack, ReleaseRemaining, TypeOK
    <3> QED
      BY <3>1, <1>2, <1>3
  <2>6. CASE UNCHANGED task
    BY <2>6, <1>2
  <2> QED
    BY <1>6, <2>1, <2>2, <2>3, <2>4, <2>5, <2>6 DEF WorkerStep, Boot, SkipSweep,
       LaneDone, Start, StartStopped, Drop, Stop, DrainTimeout, Exit, Crash
<1>7. ASSUME NEW e \in Exec, ExecStep(e) PROVE Forward(r)
  <2>1. exec[e] \in Execution
    BY <1>7, LiveExec DEF ExecStep, Handle, Claim, ClaimBusy, PassEnds, Complete,
       Throw, Record, RecordThrows, Fail, FailThrows, Reschedule,
       RescheduleThrows, Finally, At
  <2>2. RowOf(e) \in Row /\ exec[e].attempt \in Nat
    BY <2>1 DEF Execution, RowOf
  <2>3. CASE Reschedule(e)
    <3>1. task'[r] = task[r]
      BY <2>3, <1>1 DEF Reschedule, InsertPeriodic, Periodic, TypeOK
    <3> QED
      BY <3>1, <1>2
  <2>4. CASE Handle(e) \/ Record(e) \/ RecordThrows(e)
    <3>2. \/ UNCHANGED task
          \/ task' = [task EXCEPT ![RowOf(e)] = Recorded(task[RowOf(e)])]
      BY <2>4 DEF Handle, Record, RecordThrows
    <3>1. task'[r] = task[r] \/ task'[r] = Recorded(task[r])
      BY <1>1, <2>2, <3>2 DEF TypeOK
    <3> QED
      BY <3>1, <1>1, <1>2 DEF Recorded, TaskRow, Forward
  <2>5. CASE Complete(e) /\ RowOf(e) = r
    <3>1. task'[r] = Completed(task[r]) /\ AboutToFinish(e)
      BY <2>2, <2>5 DEF Complete, AboutToFinish, TypeOK
    <3>2. CASE Exists(task[r])
      <4>1. task'[r] = Leave(task[r], "completed", FALSE)
        BY <3>1, <3>2 DEF Completed
      <4> QED
        BY <4>1, <3>1, <3>2, <2>1, <2>5, <1>5
    <3>3. CASE ~Exists(task[r])
      BY <3>1, <3>3, <1>2 DEF Completed
    <3> QED
      BY <3>2, <3>3
  <2>6. CASE Fail(e) /\ RowOf(e) = r
    <3>1. task'[r] = Failed(r, task[r], exec[e].attempt)
      BY <2>2, <2>6 DEF Fail, TypeOK
    <3>5. \/ /\ exec[e].attempt >= MaxAttemptsOf(r)
             /\ ~(exec[e].attempt < MaxAttemptsOf(r))
          \/ /\ exec[e].attempt < MaxAttemptsOf(r)
             /\ ~(exec[e].attempt >= MaxAttemptsOf(r))
      BY <1>1, <2>2, MaxAttemptsType
    <3>2. CASE Exists(task[r]) /\ exec[e].attempt >= MaxAttemptsOf(r)
      <4>1. AboutToFinish(e)
        BY <2>6, <3>2 DEF AboutToFinish, Fail, Exhausted
      <4>2. task'[r] = Leave(task[r], "dead", FALSE)
        BY <3>1, <3>2, <3>5 DEF Failed
      <4> QED
        BY <4>1, <4>2, <3>2, <2>1, <2>6, <1>5
    <3>3. CASE Exists(task[r]) /\ exec[e].attempt < MaxAttemptsOf(r)
      <4>1. task'[r] = Leave(task[r], "pending", FALSE)
        BY <3>1, <3>3, <3>5 DEF Failed
      <4> QED
        BY <4>1, <3>3, <1>4 DEF Exists
    <3>4. CASE ~Exists(task[r])
      BY <3>1, <3>4, <1>2 DEF Failed
    <3> QED
      BY <3>2, <3>3, <3>4, <3>5
  <2>7. CASE (Complete(e) \/ Fail(e)) /\ RowOf(e) # r
    BY <2>7, <1>1, <1>2 DEF Complete, Fail, TypeOK
  <2>8. CASE UNCHANGED task
    BY <2>8, <1>2
  <2> QED
    BY <1>7, <2>3, <2>4, <2>5, <2>6, <2>7, <2>8 DEF ExecStep, Claim, ClaimBusy,
       PassEnds, Throw, FailThrows, RescheduleThrows, Finally
<1>8. ASSUME NEW q \in Row, RowStep(q) PROVE Forward(r)
  <2>1. CASE q # r
    BY <1>8, <2>1, <1>1, <1>2 DEF RowStep, Enqueue, BecomeDue, GoStale, Stall,
       GoAged, TypeOK
  <2>2. CASE q = r /\ Enqueue(r)
    <3>1. task[r].status = "absent" /\ task'[r] = Inserted(TRUE)
      BY <2>2, <1>1 DEF Enqueue, Fresh, TypeOK
    <3> QED
      BY <3>1 DEF Inserted, NoTask, Forward
  <2>3. CASE q = r /\ ~Enqueue(r)
    <3>1. \/ task'[r] = [task[r] EXCEPT !.due = TRUE]
          \/ task'[r] = [task[r] EXCEPT !.stale = TRUE]
          \/ task'[r] = [task[r] EXCEPT !.aged = TRUE]
      BY <1>8, <2>3, <1>1 DEF RowStep, BecomeDue, GoStale, Stall, GoAged, TypeOK
    <3>2. /\ task'[r].status = task[r].status
          /\ task'[r].recorded = task[r].recorded
      BY <3>1, <1>1 DEF TaskRow
    <3> QED
      BY <3>2 DEF Forward
  <2> QED
    BY <1>8, <2>1, <2>2, <2>3
<1>9. CASE ConnectorStep
  <2>1. CASE UNCHANGED task
    BY <2>1, <1>2
  <2>2. CASE RequeueOrphans
    <3>1. task'[r] = task[r]
      BY <2>2, <1>1 DEF RequeueOrphans, Orphan
    <3> QED
      BY <3>1, <1>2
  <2>3. CASE DeleteQueued
    <3>1. \/ task'[r] = task[r]
          \/ task'[r] = Leave(task[r], "deleted", FALSE) /\ Active(r)
      BY <2>3, <1>1 DEF DeleteQueued
    <3> QED
      BY <3>1, <1>2, <1>4 DEF Active
  <2> QED
    BY <1>9, <2>1, <2>2, <2>3 DEF ConnectorStep, Supersede, ReapRun
<1>10. CASE UNCHANGED vars
  BY <1>10, <1>2 DEF vars
<1> QED
  BY <1>6, <1>7, <1>8, <1>9, <1>10 DEF Next

LEMMA OutcomeStep ==
    ASSUME Typed, OutcomeFirst, [Next]_vars
    PROVE  OutcomeFirst'
<1> USE DEF Typed
<1>1. ASSUME NEW e \in Exec, exec'[e] # NoExec, exec'[e].row \in Batches
      PROVE  /\ task'[exec'[e].row].status # "absent"
             /\ exec'[e].pc # "pass"
             /\ AboutToFinish(e)' => \/ task'[exec'[e].row].recorded
                                     \/ task'[exec'[e].row].status = "deleted"
  <2> PICK r \in Batches : r = exec'[e].row
    BY <1>1
  <2> DEFINE Safe == \/ task[r].recorded
                     \/ task[r].status = "deleted"
  <2>1. Forward(r)
    BY <1>1, BatchForward
  <2>2. ASSUME NEW w \in Worker, Started(e, w)
        PROVE  task[r].status # "absent" /\ exec'[e].pc = "handler"
    BY <1>1, <2>2 DEF Started, OutcomeFirst
  <2>3. CASE \E w \in Worker : Started(e, w)
    BY <2>1, <2>2, <2>3 DEF Forward, AboutToFinish, At
  <2>4. CASE exec'[e] = exec[e]
    <3>1. /\ task[r].status # "absent"
          /\ exec[e].pc # "pass"
          /\ AboutToFinish(e) => Safe
      BY <1>1, <2>4 DEF OutcomeFirst, Live, RowOf, At
    <3>2. AboutToFinish(e)' <=> AboutToFinish(e)
      BY <2>4 DEF AboutToFinish, At, Exhausted, RowOf
    <3> QED
      BY <2>1, <2>4, <3>1, <3>2 DEF Forward
  <2>5. CASE SameExec(e) /\ ExecStep(e)
    <3>1. /\ r = RowOf(e)
          /\ r \in Row /\ Kind[r] = "batch" /\ task[r] \in TaskRow
      BY <1>1, <2>5 DEF SameExec, RowOf, Batches, TypeOK
    <3>2. /\ task[r].status # "absent"
          /\ exec[e].pc # "pass"
      BY <1>1, <2>5, <3>1 DEF OutcomeFirst, Live, SameExec, At
    <3>3. Exhausted(e)' <=> Exhausted(e)
      BY <2>5 DEF SameExec, Exhausted, RowOf
    <3>4. exec[e] \in Execution
      BY <2>5 DEF SameExec, TypeOK
    <3>5. ASSUME NEW pc \in ExecPC, Goto(e, pc) PROVE exec'[e].pc = pc
      BY <3>4, <3>5 DEF Goto, TypeOK, Execution
    <3>6. CASE Handle(e) \/ Record(e)
      <4>1. task' = [task EXCEPT ![r] = Recorded(task[r])]
        BY <3>1, <3>6 DEF Handle, Record
      <4>2. task'[r] = Recorded(task[r])
        BY <3>1, <4>1 DEF TypeOK
      <4>3. task'[r].recorded \/ task'[r].status = "deleted"
        BY <3>1, <3>2, <4>2 DEF Recorded, Exists, TaskRow
      <4>4. exec'[e].pc # "pass"
        BY <3>5, <3>6 DEF Handle, Record, ExecPC
      <4> QED
        BY <2>1, <3>2, <4>3, <4>4 DEF Forward
    <3>7. CASE Throw(e)
      <4>1. exec'[e].pc = IF Exhausted(e) THEN "record" ELSE "fail"
        BY <3>1, <3>5, <3>7 DEF Throw, ExecPC
      <4> QED
        BY <2>1, <3>2, <3>3, <4>1 DEF Forward, AboutToFinish, At
    <3>8. CASE \/ Complete(e) \/ RecordThrows(e) \/ Fail(e) \/ FailThrows(e)
              \/ Reschedule(e) \/ RescheduleThrows(e)
      <4>1. exec'[e].pc \in {"reschedule", "untrack"}
        BY <3>5, <3>8 DEF Complete, RecordThrows, Fail, FailThrows, Reschedule,
           RescheduleThrows, ExecPC
      <4> QED
        BY <2>1, <3>2, <4>1 DEF Forward, AboutToFinish, At
    <3>9. ~Claim(e) /\ ~ClaimBusy(e) /\ ~PassEnds(e)
      BY <3>1, <3>2 DEF Claim, ClaimBusy, PassEnds, At
    <3>10. ~Finally(e)
      BY <2>5 DEF Finally, SameExec, TypeOK
    <3> QED
      BY <2>5, <3>6, <3>7, <3>8, <3>9, <3>10 DEF ExecStep
  <2> QED
    BY <1>1, <2>3, <2>4, <2>5, ExecutionHistory
<1>2. ASSUME NEW w \in Worker, fetched'[w] # Nothing,
             fetched'[w].row \in Batches
      PROVE  task'[fetched'[w].row].status # "absent"
  <2> PICK r \in Batches : r = fetched'[w].row
    BY <1>2
  <2>1. Forward(r)
    BY BatchForward
  <2>2. CASE fetched'[w] = fetched[w]
    BY <1>2, <2>1, <2>2 DEF OutcomeFirst, Forward
  <2>3. CASE fetched'[w] = Nothing
    BY <1>2, <2>3
  <2>4. ASSUME NEW q \in Row, Dequeue(w, q)
        PROVE  task'[fetched'[w].row].status # "absent"
    <3>1. fetched'[w].row = q /\ task[q].status = "pending"
      BY <2>4 DEF Dequeue, DueIn, TypeOK
    <3> QED
      BY <2>1, <3>1 DEF Forward
  <2> QED
    BY <2>2, <2>3, <2>4, FetchHistory
<1> QED
  BY <1>1, <1>2 DEF OutcomeFirst, Live, RowOf, At

BatchInv == Typed /\ OutcomeFirst /\ BatchOutcomeKept

(* A coordinated batch is never completed or dead-lettered before its      *)
(* outcome is on its connector run, through any crash, sweep, shutdown,    *)
(* database error or late execution.                                       *)
THEOREM BatchOutcomeKeptHolds == Spec => []BatchOutcomeKept
<1>1. Init => BatchInv
  <2> SUFFICES ASSUME Init PROVE OutcomeFirst /\ BatchOutcomeKept
    BY InitType DEF BatchInv
  <2> QED
    BY DEF Init, OutcomeFirst, BatchOutcomeKept, Live, Finished, NoTask
<1>2. BatchInv /\ [Next]_vars => BatchInv'
  <2> SUFFICES ASSUME BatchInv, [Next]_vars PROVE BatchInv'
    OBVIOUS
  <2> USE DEF BatchInv
  <2>1. Typed' /\ OutcomeFirst'
    BY StepType, OutcomeStep
  <2>2. ASSUME NEW r \in Batches, Finished(r)' PROVE task'[r].recorded
    <3>1. Forward(r)
      BY <2>2, BatchForward
    <3>2. CASE Finished(r)
      <4>1. task[r].recorded /\ task[r].status # "absent"
        BY <2>2, <3>2 DEF BatchOutcomeKept, Batches, Finished
      <4> QED
        BY <3>1, <4>1 DEF Forward
    <3>3. ASSUME Exists(task[r]), NEW e \in Exec, exec[e] \in Execution,
                 RowOf(e) = r, AboutToFinish(e)
          PROVE  task'[r].recorded
      <4>1. e \in Live
        BY <3>3 DEF Live, Execution, NoExec
      <4>2. task[r].recorded /\ task[r].status # "absent"
        BY <2>2, <3>3, <4>1 DEF OutcomeFirst, Exists
      <4> QED
        BY <3>1, <4>2 DEF Forward
    <3> QED
      BY <2>2, <3>1, <3>2, <3>3 DEF Forward
  <2> QED
    BY <2>1, <2>2 DEF BatchOutcomeKept, Batches, Finished
<1>3. BatchInv => BatchOutcomeKept
  BY DEF BatchInv
<1> QED
  BY <1>1, <1>2, <1>3, PTL DEF Spec
---------------------------------------------------------------------------
(***************************************************************************)
(* The periodic chain.  As long as no statement has failed, a row of the   *)
(* periodic type is active, or somebody is bound to insert one: a process  *)
(* that has to start, a sweep that dead-lettered the row, or the execution *)
(* that finished it.                                                       *)
(***************************************************************************)
Inserting == \/ \E w \in Worker : poll[w] = "reschedule"
             \/ \E e \in Exec : At(e, "reschedule")

ChainHeld == \/ \E r \in Periodic : Active(r)
             \/ \E w \in Worker : mode[w] \in {"down", "seeding"}
             \/ Inserting

(* Whoever finishes the active periodic row is then bound to insert its    *)
(* successor.                                                              *)
LEMMA PeriodicFinished ==
    ASSUME Typed, [Next]_vars, NEW r \in Periodic, Active(r), ~Active(r)'
    PROVE  Inserting'
<1> USE DEF Typed, Active
<1>1. /\ r \in Row /\ Kind[r] = "periodic"
      /\ task[r] \in TaskRow
      /\ task[r].status \in {"pending", "processing"}
      /\ task'[r].status \notin {"pending", "processing"}
  BY DEF Periodic, TypeOK
<1>2. task'[r] # task[r]
  BY <1>1
<1>3. ~InsertPeriodic(TRUE) /\ ~InsertPeriodic(FALSE)
  BY <1>1, <1>2 DEF InsertPeriodic
<1>4. task'[r] # Released(task[r]) /\ task'[r] # Renewed(task[r])
  <2>1. Released(task[r]) = task[r] \/ Released(task[r]).status = "pending"
    BY <1>1, UnchargedType DEF Released
  <2>2. Renewed(task[r]).status = task[r].status
    BY <1>1 DEF Renewed, TaskRow
  <2> QED
    BY <1>1, <2>1, <2>2
<1>5. ASSUME NEW w \in Worker, WorkerStep(w) PROVE Inserting'
  <2>1. CASE Sweep(w)
    <3>1. DeadLettered(r)
      <4>1. task'[r] = Swept(r)
        BY <1>1, <2>1 DEF Sweep
      <4>2. Leave(task[r], "pending", FALSE).status = "pending"
        BY <1>1, LeaveType DEF Status
      <4> QED
        BY <1>1, <4>1, <4>2 DEF Swept
    <3>2. poll'[w] = "reschedule"
      BY <2>1, <3>1 DEF Sweep, TypeOK
    <3> QED
      BY <3>2 DEF Inserting
  <2>2. ~Seed(w) /\ ~RescheduleSwept(w)
    BY <1>3 DEF Seed, RescheduleSwept
  <2>3. ~PollBegin(w) /\ ~GiveBack(w) /\ ~ReleaseRemaining(w)
    BY <1>1, <1>2, <1>4 DEF PollBegin, GiveBack, ReleaseRemaining, TypeOK
  <2>4. ASSUME NEW q \in Row, Dequeue(w, q) PROVE FALSE
    <3>1. task' = [task EXCEPT ![q] = Dequeued(task[q])]
      BY <2>4 DEF Dequeue
    <3>2. Dequeued(task[r]).status = "processing"
      BY <1>1 DEF Dequeued, TaskRow
    <3>3. task'[r] = task[r] \/ task'[r] = Dequeued(task[r])
      BY <1>1, <3>1 DEF TypeOK
    <3> QED
      BY <1>1, <3>2, <3>3
  <2> QED
    BY <1>2, <1>5, <2>1, <2>2, <2>3, <2>4 DEF WorkerStep, Boot, SkipSweep,
       LaneDone, Start, StartStopped, Drop, Stop, DrainTimeout, Exit, Crash
<1>6. ASSUME NEW e \in Exec, ExecStep(e) PROVE Inserting'
  <2>1. exec[e] \in Execution
    BY <1>6, LiveExec DEF ExecStep, Handle, Claim, ClaimBusy, PassEnds, Complete,
       Throw, Record, RecordThrows, Fail, FailThrows, Reschedule,
       RescheduleThrows, Finally, At
  <2>2. RowOf(e) \in Row /\ exec[e].attempt \in Nat
    BY <2>1 DEF Execution, RowOf
  <2>3. ASSUME Goto(e, "reschedule") PROVE Inserting'
    <3>1. exec'[e].pc = "reschedule"
      BY <2>1, <2>3 DEF Goto, TypeOK, Execution
    <3> QED
      BY <3>1 DEF Inserting, At
  <2>4. CASE Complete(e)
    <3>1. RowOf(e) = r
      BY <1>2, <2>2, <2>4, <1>1 DEF Complete, TypeOK
    <3> QED
      BY <1>1, <2>3, <2>4, <3>1 DEF Complete
  <2>5. CASE Fail(e)
    <3>1. RowOf(e) = r
      BY <1>2, <2>2, <2>5, <1>1 DEF Fail, TypeOK
    <3>2. task'[r] = Failed(r, task[r], exec[e].attempt)
      BY <1>1, <2>5, <3>1 DEF Fail, TypeOK
    <3>3. Leave(task[r], "pending", FALSE).status = "pending"
      BY <1>1, LeaveType DEF Status
    <3>4. Exists(task[r])
      BY <1>1 DEF Exists
    <3>5. exec[e].attempt < MaxAttemptsOf(r) <=> ~(exec[e].attempt >= MaxAttemptsOf(r))
      BY <1>1, <2>2, MaxAttemptsType
    <3>6. exec[e].attempt >= MaxAttemptsOf(r)
      <4> SUFFICES ASSUME exec[e].attempt < MaxAttemptsOf(r) PROVE FALSE
        BY <3>5
      <4>1. task'[r] = Leave(task[r], "pending", FALSE)
        BY <3>2, <3>4, <3>5 DEF Failed
      <4> QED
        BY <1>1, <3>3, <4>1
    <3> QED
      BY <1>1, <2>3, <2>5, <3>1, <3>4, <3>6 DEF Fail, Exhausted
  <2>6. ~Handle(e) /\ ~Record(e) /\ ~RecordThrows(e)
    <3>1. Recorded(task[r]).status = task[r].status
      BY <1>1 DEF Recorded, TaskRow
    <3>2. ASSUME task' = [task EXCEPT ![RowOf(e)] = Recorded(@)] PROVE FALSE
      BY <1>1, <2>2, <3>1, <3>2 DEF TypeOK
    <3> QED
      BY <1>2, <3>2 DEF Handle, Record, RecordThrows
  <2> QED
    BY <1>2, <1>3, <1>6, <2>4, <2>5, <2>6 DEF ExecStep, Claim, ClaimBusy,
       PassEnds, Throw, FailThrows, Reschedule, RescheduleThrows, Finally
<1>7. ASSUME NEW q \in Row PROVE ~RowStep(q)
  <2>1. ~Enqueue(q)
    BY <1>1 DEF Enqueue, TypeOK
  <2>2. /\ [task[r] EXCEPT !.due = TRUE].status = task[r].status
        /\ [task[r] EXCEPT !.stale = TRUE].status = task[r].status
        /\ [task[r] EXCEPT !.aged = TRUE].status = task[r].status
    BY <1>1 DEF TaskRow
  <2> QED
    BY <1>1, <2>1, <2>2 DEF RowStep, BecomeDue, GoStale, Stall, GoAged, TypeOK
<1>8. ~ConnectorStep
  BY <1>1, <1>2 DEF ConnectorStep, Supersede, ReapRun, RequeueOrphans, Orphan,
     DeleteQueued
<1>9. ~UNCHANGED vars
  BY <1>2 DEF vars
<1> QED
  BY <1>5, <1>6, <1>7, <1>8, <1>9 DEF Next

(* The environment never has more faults to inject than before.            *)
LEMMA FaultsSpent ==
    ASSUME Typed, [Next]_vars, NEW k \in FaultKind
    PROVE  faults'[k] \in Nat /\ faults'[k] <= faults[k]
<1> USE DEF Typed
<1>1. faults[k] \in Nat /\ \A f \in FaultKind : faults[f] \in Nat
  BY DEF TypeOK
<1>2. ASSUME NEW f \in FaultKind, Spend(f)
      PROVE  faults'[k] \in Nat /\ faults'[k] <= faults[k]
  BY <1>1, <1>2 DEF Spend, TypeOK
<1>3. CASE UNCHANGED faults
  BY <1>1, <1>3
<1>4. \A f \in {"crash", "stop", "stall", "error", "supersede"} : f \in FaultKind
  BY DEF FaultKind
<1>5. ASSUME NEW w \in Worker, WorkerStep(w)
      PROVE  UNCHANGED faults \/ \E f \in FaultKind : Spend(f)
  BY <1>4, <1>5 DEF WorkerStep, Boot, Seed, PollBegin, Sweep, SkipSweep,
     RescheduleSwept, Dequeue, LaneDone, Start, StartStopped, GiveBack, Drop,
     Stop, DrainTimeout, ReleaseRemaining, Exit, Crash
<1>6. ASSUME NEW e \in Exec, ExecStep(e)
      PROVE  UNCHANGED faults \/ \E f \in FaultKind : Spend(f)
  BY <1>4, <1>6 DEF ExecStep, Handle, Claim, ClaimBusy, PassEnds, Complete, Throw,
     Record, RecordThrows, Fail, FailThrows, Reschedule, RescheduleThrows, Finally
<1>7. ASSUME NEW r \in Row, RowStep(r)
      PROVE  UNCHANGED faults \/ \E f \in FaultKind : Spend(f)
  BY <1>4, <1>7 DEF RowStep, Enqueue, BecomeDue, GoStale, Stall, GoAged
<1>8. ASSUME ConnectorStep
      PROVE  UNCHANGED faults \/ \E f \in FaultKind : Spend(f)
  BY <1>4, <1>8 DEF ConnectorStep, Supersede, ReapRun, RequeueOrphans, DeleteQueued
<1> QED
  BY <1>2, <1>3, <1>5, <1>6, <1>7, <1>8 DEF Next, vars

(* Whoever is bound to insert does, unless its process dies or its INSERT  *)
(* fails.                                                                  *)
LEMMA InsertingEnds ==
    ASSUME Typed, [Next]_vars, faults'["error"] = faults["error"],
           Inserting \/ \E w \in Worker : mode[w] \in {"down", "seeding"},
           Periodic # {}
    PROVE  ChainHeld'
<1> USE DEF Typed
<1>1. ASSUME NEW due, InsertPeriodic(due) PROVE ChainHeld'
  <2>1. \E r \in Periodic : Active(r)'
    BY <1>1 DEF InsertPeriodic, Active, Inserted, NoTask, TypeOK, Periodic
  <2> QED
    BY <2>1 DEF ChainHeld
<1>2. ASSUME NEW v \in Worker, Vanish(v) PROVE ChainHeld'
  BY <1>2 DEF Vanish, ChainHeld, TypeOK
<1>3. ASSUME Spend("error") PROVE FALSE
  BY <1>3 DEF Spend, TypeOK, FaultKind
<1>4. CASE \E w \in Worker : mode[w] \in {"down", "seeding"}
  <2> PICK w \in Worker : mode[w] \in {"down", "seeding"}
    BY <1>4
  <2>1. ASSUME NEW v \in Worker, Boot(v) PROVE ChainHeld'
    <3>1. CASE v = w /\ \E r \in Periodic : Active(r)
      BY <2>1, <3>1 DEF Boot, ChainHeld, Active
    <3>2. CASE v = w /\ ~\E r \in Periodic : Active(r)
      BY <2>1, <3>2 DEF Boot, ChainHeld, TypeOK
    <3>3. CASE v # w
      BY <2>1, <3>3 DEF Boot, ChainHeld, TypeOK
    <3> QED
      BY <3>1, <3>2, <3>3
  <2>2. ASSUME NEW v \in Worker, Seed(v) PROVE ChainHeld'
    BY <1>1, <2>2 DEF Seed
  <2>3. ASSUME NEW v \in Worker, Exit(v) \/ Crash(v) PROVE ChainHeld'
    BY <1>2, <2>3 DEF Exit, Crash
  <2>4. ASSUME NEW v \in Worker,
               Stop(v) \/ DrainTimeout(v) \/ ReleaseRemaining(v)
        PROVE  ChainHeld'
    BY <2>4 DEF Stop, DrainTimeout, ReleaseRemaining, ChainHeld, TypeOK
  <2>5. CASE mode' = mode
    BY <2>5 DEF ChainHeld
  <2>6. ASSUME NEW v \in Worker, WorkerStep(v) PROVE ChainHeld'
    BY <2>1, <2>2, <2>3, <2>4, <2>5, <2>6 DEF WorkerStep, PollBegin, Sweep,
       SkipSweep, RescheduleSwept, Dequeue, LaneDone, Start, StartStopped,
       GiveBack, Drop
  <2>7. ASSUME NEW e \in Exec, ExecStep(e) PROVE mode' = mode
    BY <2>7 DEF ExecStep, Handle, Claim, ClaimBusy, PassEnds, Complete, Throw,
       Record, RecordThrows, Fail, FailThrows, Reschedule, RescheduleThrows,
       Finally, process
  <2>8. ASSUME NEW r \in Row, RowStep(r) PROVE mode' = mode
    BY <2>8 DEF RowStep, Enqueue, BecomeDue, GoStale, Stall, GoAged, process
  <2>9. ConnectorStep => mode' = mode
    BY DEF ConnectorStep, Supersede, ReapRun, RequeueOrphans, DeleteQueued, process
  <2> QED
    BY <2>5, <2>6, <2>7, <2>8, <2>9 DEF Next, vars
<1>5. CASE \E w \in Worker : poll[w] = "reschedule"
  <2> PICK w \in Worker : poll[w] = "reschedule"
    BY <1>5
  <2>1. ASSUME poll'[w] = poll[w] PROVE ChainHeld'
    BY <2>1 DEF ChainHeld, Inserting
  <2>2. ASSUME NEW v \in Worker, WorkerStep(v) PROVE ChainHeld'
    <3>1. CASE RescheduleSwept(v)
      BY <1>1, <3>1 DEF RescheduleSwept
    <3>2. CASE Exit(v) \/ Crash(v)
      BY <1>2, <3>2 DEF Exit, Crash
    <3>3. ASSUME ~RescheduleSwept(v), ~Exit(v), ~Crash(v) PROVE poll'[w] = poll[w]
      BY <2>2, <3>3 DEF WorkerStep, Boot, Seed, PollBegin, Sweep, SkipSweep,
         Dequeue, LaneDone, Start, StartStopped, GiveBack, Drop, Stop,
         DrainTimeout, ReleaseRemaining, TypeOK, Lane
    <3> QED
      BY <2>1, <3>1, <3>2, <3>3
  <2>3. ASSUME NEW e \in Exec, ExecStep(e) PROVE poll'[w] = poll[w]
    BY <2>3 DEF ExecStep, Handle, Claim, ClaimBusy, PassEnds, Complete, Throw,
       Record, RecordThrows, Fail, FailThrows, Reschedule, RescheduleThrows,
       Finally, process
  <2>4. ASSUME NEW r \in Row, RowStep(r) PROVE poll'[w] = poll[w]
    BY <2>4 DEF RowStep, Enqueue, BecomeDue, GoStale, Stall, GoAged, process
  <2>5. ConnectorStep => poll'[w] = poll[w]
    BY DEF ConnectorStep, Supersede, ReapRun, RequeueOrphans, DeleteQueued, process
  <2>6. UNCHANGED vars => poll'[w] = poll[w]
    BY DEF vars
  <2> QED
    BY <2>1, <2>2, <2>3, <2>4, <2>5, <2>6 DEF Next
<1>6. CASE \E e \in Exec : At(e, "reschedule")
  <2> PICK e \in Exec : At(e, "reschedule")
    BY <1>6
  <2>1. exec[e].pc = "reschedule" /\ e \in Live
    BY DEF At, Live, NoExec
  <2>2. ASSUME exec'[e] = exec[e] PROVE ChainHeld'
    BY <2>1, <2>2 DEF ChainHeld, Inserting, At
  <2>3. ASSUME NEW v \in Worker, WorkerStep(v) PROVE ChainHeld'
    <3>1. CASE Exit(v) \/ Crash(v)
      BY <1>2, <3>1 DEF Exit, Crash
    <3>2. ASSUME ~Exit(v), ~Crash(v) PROVE exec'[e] = exec[e]
      BY <2>1, <2>3, <3>2 DEF WorkerStep, Boot, Seed, PollBegin, Sweep, SkipSweep,
         RescheduleSwept, Dequeue, LaneDone, Start, StartStopped, GiveBack, Drop,
         Stop, DrainTimeout, ReleaseRemaining, TypeOK
    <3> QED
      BY <2>2, <3>1, <3>2
  <2>4. ASSUME NEW f \in Exec, ExecStep(f) PROVE ChainHeld'
    <3>1. CASE f # e
      <4>1. exec'[e] = exec[e]
        BY <2>4, <3>1 DEF ExecStep, Handle, Claim, ClaimBusy, PassEnds, Complete,
           Throw, Record, RecordThrows, Fail, FailThrows, Reschedule,
           RescheduleThrows, Finally, Goto, TypeOK
      <4> QED
        BY <4>1, <2>2
    <3>2. CASE f = e
      <4>1. Reschedule(e) \/ RescheduleThrows(e)
        BY <2>1, <2>4, <3>2 DEF ExecStep, Handle, Claim, ClaimBusy, PassEnds,
           Complete, Throw, Record, RecordThrows, Fail, FailThrows, Finally, At
      <4> QED
        BY <1>1, <1>3, <4>1 DEF Reschedule, RescheduleThrows
    <3> QED
      BY <3>1, <3>2
  <2>5. ASSUME NEW r \in Row, RowStep(r) PROVE exec' = exec
    BY <2>5 DEF RowStep, Enqueue, BecomeDue, GoStale, Stall, GoAged
  <2>6. ConnectorStep => exec' = exec
    BY DEF ConnectorStep, Supersede, ReapRun, RequeueOrphans, DeleteQueued
  <2>7. UNCHANGED vars => exec' = exec
    BY DEF vars
  <2> QED
    BY <2>2, <2>3, <2>4, <2>5, <2>6, <2>7 DEF Next
<1> QED
  BY <1>4, <1>5, <1>6 DEF Inserting

ChainInv ==
    /\ Typed
    /\ faults["error"] <= Faults["error"]
    /\ faults["error"] = Faults["error"] => ChainHeld

(* Where there is a process and a periodic type at all, the chain of that  *)
(* type never breaks while every process is up and no statement has        *)
(* failed, through any crash, sweep, shutdown or stall before that.        *)
THEOREM ChainAliveHolds ==
    ASSUME Worker # {}, Periodic # {}
    PROVE  Spec => []ChainAlive
<1>1. Init => ChainInv
  <2> SUFFICES ASSUME Init
               PROVE  faults["error"] <= Faults["error"] /\ ChainHeld
    BY InitType DEF ChainInv
  <2>1. Faults["error"] \in Nat
    BY DEF FaultKind
  <2>2. \E w \in Worker : mode[w] = "down"
    BY DEF Init
  <2> QED
    BY <2>1, <2>2 DEF Init, ChainHeld
<1>2. ChainInv /\ [Next]_vars => ChainInv'
  <2> SUFFICES ASSUME ChainInv, [Next]_vars PROVE ChainInv'
    OBVIOUS
  <2> USE DEF ChainInv
  <2>1. Typed'
    BY StepType
  <2>2. faults'["error"] <= faults["error"]
    BY FaultsSpent DEF FaultKind
  <2>3. /\ Faults["error"] \in Nat
        /\ faults["error"] \in Nat
        /\ faults'["error"] \in Nat
    BY <2>1 DEF Typed, TypeOK, FaultKind
  <2>4. ASSUME faults'["error"] = Faults["error"] PROVE ChainHeld'
    <3>1. faults'["error"] = faults["error"] /\ ChainHeld
      BY <2>2, <2>3, <2>4
    <3>2. CASE \E r \in Periodic : Active(r)
      <4> PICK r \in Periodic : Active(r)
        BY <3>2
      <4>1. CASE Active(r)'
        BY <4>1 DEF ChainHeld
      <4>2. CASE ~Active(r)'
        BY <4>2, PeriodicFinished DEF ChainHeld
      <4> QED
        BY <4>1, <4>2
    <3>3. CASE Inserting \/ \E w \in Worker : mode[w] \in {"down", "seeding"}
      BY <3>1, <3>3, InsertingEnds
    <3> QED
      BY <3>1, <3>2, <3>3 DEF ChainHeld
  <2> QED
    BY <2>1, <2>2, <2>3, <2>4
<1>3. ChainInv => ChainAlive
  BY DEF ChainInv, ChainHeld, Inserting, ChainAlive, Live, At, NoExec
<1> QED
  BY <1>1, <1>2, <1>3, PTL DEF Spec
=============================================================================
