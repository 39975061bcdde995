----------------------- MODULE ScheduleTrigger_proofs -----------------------
(***************************************************************************)
(* Proofs about ScheduleTrigger, for any triggers, executions, viewers,    *)
(* bounds, and any sorts and number of faults.                             *)
(***************************************************************************)
EXTENDS ScheduleTrigger, TLAPS

(* What the provers need of the steps an action is made of. *)
LEMMA HandType ==
    ASSUME TypeOK, NEW a \in Actor,
           \/ \E h \in Hand : Set(a, h)
           \/ \E pc \in {"idle"} \cup ExecPC : Goto(a, pc)
           \/ Leave(a)
           \/ Fails(a)
           \/ \E c \in Maybe(Conversation) : Returns(a, c)
           \/ Raises(a)
    PROVE  hand' \in [Actor -> Hand]
<1>1. \A h \in Hand : Set(a, h) => hand' \in [Actor -> Hand]
  BY DEF Set, TypeOK
<1>2. \A c \in Maybe(Conversation) :
         [hand[a] EXCEPT !.pc = "execute", !.conversation = c] \in Hand
  BY DEF TypeOK, Hand, ExecPC
<1>3. Leave(a) => hand' \in [Actor -> Hand]
  <2>1. Idle \in Hand
    BY ScheduleAssumption DEF ScheduleAssumption, Idle, Hand, Maybe
  <2> QED BY <1>1, <2>1 DEF Leave
<1>4. \A pc \in {"idle"} \cup ExecPC : Goto(a, pc) => hand' \in [Actor -> Hand]
  BY DEF Goto, Set, TypeOK, Hand
<1>5. Fails(a) => hand' \in [Actor -> Hand]
  <2>1. Nothing \in Maybe(Conversation) BY DEF Maybe
  <2>2. [hand[a] EXCEPT !.pc = "mark", !.verdict = "failed",
                        !.conversation = Nothing] \in Hand
    BY <2>1 DEF TypeOK, Hand, ExecPC
  <2> QED BY <1>1, <2>2 DEF Fails
<1>6. ASSUME NEW c \in Maybe(Conversation), Returns(a, c)
      PROVE  hand' \in [Actor -> Hand]
  BY <1>1, <1>2, <1>3, <1>6 DEF Returns
<1>7. Raises(a) => hand' \in [Actor -> Hand]
  BY <1>3, <1>5 DEF Raises
<1> QED BY <1>1, <1>3, <1>4, <1>5, <1>6, <1>7

LEMMA SpendType == ASSUME TypeOK, NEW f, Spend(f) PROVE faults' \in 0..MaxFaults
BY ScheduleAssumption DEF Spend, TypeOK, ScheduleAssumption

LEMMA StartedType ==
    ASSUME NEW t \in Trigger, NEW kind \in {"due", "manual"}, NEW at \in 0..MaxTime
    PROVE  Started(t, kind, at) \in RunRow
BY DEF Started, NoRun, RunRow, Maybe

LEMMA CompletedType ==
    ASSUME TypeOK, NEW r, NEW status \in {"success", "failed"}
    PROVE  Completed(r, status) \in [Run -> RunRow]
BY DEF Completed, TypeOK, RunRow

LEMMA EnqueuedType == ASSUME TypeOK, NEW r PROVE Enqueued(r) \in [Run -> TaskRow]
BY DEF Enqueued, TypeOK, TaskRow

LEMMA FailedType == ASSUME TypeOK, NEW e PROVE Failed(e) \in [Run -> TaskRow]
BY DEF Failed, TypeOK, TaskRow

LEMMA NextTriggerType == ASSUME TypeOK, NEW t PROVE NextTrigger(t) \in Tick
BY DEF NextTrigger, TypeOK, Tick, TickPC, Maybe

LEMMA NoTickType == NoTick \in Tick
BY ScheduleAssumption DEF NoTick, Tick, TickPC, Maybe, ScheduleAssumption

LEMMA TypeInit == Init => TypeOK
<1> SUFFICES ASSUME Init PROVE TypeOK OBVIOUS
<1> USE ScheduleAssumption DEF ScheduleAssumption, Init
<1>1. NoRun \in RunRow BY DEF NoRun, RunRow, Maybe
<1>2. Idle \in Hand BY DEF Idle, Hand, Maybe
<1>3. [state |-> "on", last |-> 0] \in TriggerRow BY DEF TriggerRow
<1>4. NoTask \in TaskRow BY DEF NoTask, TaskRow
<1> QED BY <1>1, <1>2, <1>3, <1>4, NoTickType DEF TypeOK, Maybe

(* Each kind of step keeps the types: the tick's, a request's, one of      *)
(* createAndLinkRunConversation, one of the handler.                       *)
LEMMA TypeTick ==
    ASSUME TypeOK, Minute \/ FindDue \/ TickStep
    PROVE  TypeOK'
<1> USE ScheduleAssumption DEF ScheduleAssumption
<1>1. CASE Minute BY <1>1 DEF Minute, TypeOK
<1>2. CASE FindDue
  <2>1. tick' \in Tick
    BY <1>2, NoTickType DEF FindDue, TypeOK, Tick, TickPC, Due, NoTick
  <2> QED BY <1>2, <2>1 DEF FindDue, TypeOK
<1>3. CASE FindBusy
  <2>1. tick' \in Tick
    BY <1>3 DEF FindBusy, TypeOK, Tick, TickPC, Busy
  <2> QED BY <1>3, <2>1 DEF FindBusy, TypeOK
<1>4. ASSUME NEW t \in Trigger, CannotStart(t) PROVE TypeOK'
  <2>1. tick' \in Tick BY <1>4, NextTriggerType DEF CannotStart
  <2>2. faults' \in 0..MaxFaults
    <3>1. UNCHANGED faults \/ Spend("error") BY <1>4, Zenon DEF CannotStart
    <3> QED BY <3>1, SpendType DEF TypeOK
  <2> QED BY <1>4, <2>1, <2>2 DEF CannotStart, TypeOK
<1>5. ASSUME NEW t \in Trigger, NEW r \in Run, StartDue(t, r) PROVE TypeOK'
  <2>1. tick' \in Tick
    <3>1. \A pc \in TickPC, b \in BOOLEAN :
             [tick EXCEPT !.pc = pc, !.trigger = t, !.run = r, !.skipped = b] \in Tick
      BY DEF TypeOK, Tick, Maybe
    <3>2. (t \in tick.busy) \in BOOLEAN OBVIOUS
    <3>3. (IF t \in tick.busy THEN "skip" ELSE "advance") \in TickPC BY DEF TickPC
    <3> QED BY <1>5, <3>1, <3>2, <3>3 DEF StartDue
  <2>2. tick.now \in 0..MaxTime BY DEF TypeOK, Tick
  <2>3. run' \in [Run -> RunRow]
    BY <1>5, <2>2, StartedType DEF StartDue, TypeOK
  <2> QED BY <1>5, <2>1, <2>3 DEF StartDue, TypeOK
<1>6. CASE Skip
  <2>1. tick' \in Tick BY <1>6 DEF Skip, TypeOK, Tick, TickPC
  <2>2. run' \in [Run -> RunRow] BY <1>6, CompletedType DEF Skip
  <2> QED BY <1>6, <2>1, <2>2 DEF Skip, TypeOK
<1>7. CASE Advance
  <2>1. tick' \in Tick
    BY <1>7, NextTriggerType DEF Advance, TypeOK, Tick, TickPC
  <2>2. tick.now \in 0..MaxTime BY DEF TypeOK, Tick
  <2>3. trigger' \in [Trigger -> TriggerRow]
    BY <1>7, <2>2 DEF Advance, Advanced, TypeOK, TriggerRow
  <2> QED BY <1>7, <2>1, <2>3 DEF Advance, TypeOK
<1>8. CASE Enqueue
  <2>1. tick' \in Tick BY <1>8, NextTriggerType DEF Enqueue
  <2>2. task' \in [Run -> TaskRow] BY <1>8, EnqueuedType DEF Enqueue
  <2> QED BY <1>8, <2>1, <2>2 DEF Enqueue, TypeOK
<1>9. CASE TickThrows
  <2>1. tick' \in Tick BY <1>9, NextTriggerType DEF TickThrows
  <2>2. faults' \in 0..MaxFaults BY <1>9, SpendType DEF TickThrows
  <2> QED BY <1>9, <2>1, <2>2 DEF TickThrows, TypeOK
<1>10. CASE TickEnds BY <1>10, NoTickType DEF TickEnds, TypeOK
<1>11. CASE TickDies
  <2>1. faults' \in 0..MaxFaults BY <1>11, SpendType DEF TickDies
  <2> QED BY <1>11, <2>1, NoTickType DEF TickDies, TypeOK
<1> QED BY <1>1, <1>2, <1>3, <1>4, <1>5, <1>6, <1>7, <1>8, <1>9, <1>10, <1>11
        DEF TickStep

LEMMA TypeRequest ==
    ASSUME TypeOK, Request
    PROVE  TypeOK'
<1> USE ScheduleAssumption DEF ScheduleAssumption
<1>1. ASSUME NEW t \in Trigger, NEW r \in Run, RunNow(t, r) PROVE TypeOK'
  <2>1. run' \in [Run -> RunRow]
    BY <1>1, StartedType DEF RunNow, TypeOK
  <2>2. faults' \in 0..MaxFaults BY <1>1, SpendType DEF RunNow
  <2> QED BY <1>1, <2>1, <2>2 DEF RunNow, TypeOK, Maybe
<1>2. ASSUME NEW t \in Trigger, Suspend(t) PROVE TypeOK'
  <2>1. trigger' \in [Trigger -> TriggerRow]
    BY <1>2 DEF Suspend, Switch, TypeOK, TriggerRow
  <2>2. faults' \in 0..MaxFaults BY <1>2, SpendType DEF Suspend
  <2> QED BY <1>2, <2>1, <2>2 DEF Suspend, TypeOK
<1>3. ASSUME NEW t \in Trigger, Resume(t) \/ Restore(t) PROVE TypeOK'
  <2>1. trigger' \in [Trigger -> TriggerRow]
    BY <1>3 DEF Resume, Restore, Switch, TypeOK, TriggerRow
  <2> QED BY <1>3, <2>1 DEF Resume, Restore, TypeOK
<1>4. ASSUME NEW t \in Trigger, Delete(t) PROVE TypeOK'
  <2>1. trigger' \in [Trigger -> TriggerRow]
    BY <1>4 DEF Delete, Switch, TypeOK, TriggerRow
  <2>2. run' \in [Run -> RunRow] BY <1>4 DEF Delete, TypeOK, RunRow
  <2>3. faults' \in 0..MaxFaults BY <1>4, SpendType DEF Delete
  <2> QED BY <1>4, <2>1, <2>2, <2>3 DEF Delete, TypeOK
<1>5. CASE EnqueueNow
  <2>1. task' \in [Run -> TaskRow] BY <1>5, EnqueuedType DEF EnqueueNow
  <2> QED BY <1>5, <2>1 DEF EnqueueNow, TypeOK, Maybe
<1>6. CASE RunNowFails
  <2>1. faults' \in 0..MaxFaults BY <1>6, SpendType DEF RunNowFails
  <2> QED BY <1>6, <2>1 DEF RunNowFails, TypeOK, Maybe
<1>7. ASSUME NEW v \in Viewer, NEW r \in Run, Open(v, r) PROVE TypeOK'
  <2>1. v \in Actor BY DEF Actor
  <2>2. [Idle EXCEPT !.pc = "create", !.run = r] \in Hand
    <3>1. Idle \in Hand BY DEF Idle, Hand, Maybe
    <3>2. r \in Maybe(Run) BY DEF Maybe
    <3> QED BY <3>1, <3>2 DEF Hand, ExecPC, CreatePC
  <2>3. hand' \in [Actor -> Hand] BY <1>7, <2>1, <2>2, HandType DEF Open
  <2> QED BY <1>7, <2>3 DEF Open, TypeOK
<1> QED BY <1>1, <1>2, <1>3, <1>4, <1>5, <1>6, <1>7 DEF Request

LEMMA TypeCreate ==
    ASSUME TypeOK, NEW a \in Actor, CreateStep(a) \/ Crash(a),
           hand[a].pc \in {"link", "drop"} => Mine(a) \in Conversation
    PROVE  TypeOK'
<1>0. Mine(a) \in Maybe(Conversation) /\ Here(a) \in Maybe(Run)
  BY DEF TypeOK, Hand, Mine, Here
<1>1. ASSUME NEW c \in Conversation, Create(a, c) PROVE TypeOK'
  <2>1. [hand[a] EXCEPT !.pc = "link", !.conversation = c] \in Hand
    BY DEF TypeOK, Hand, ExecPC, CreatePC, Maybe
  <2>2. hand' \in [Actor -> Hand] BY <1>1, <2>1, HandType DEF Create
  <2>3. conversation' \in [Conversation -> Maybe(Run)]
    BY <1>0, <1>1 DEF Create, TypeOK
  <2> QED BY <1>1, <2>2, <2>3 DEF Create, TypeOK
<1>2. CASE CannotCreate(a)
  <2>1. hand' \in [Actor -> Hand] BY <1>2, HandType DEF CannotCreate
  <2> QED BY <1>2, <2>1 DEF CannotCreate, TypeOK
<1>3. CASE Link(a)
  <2>1. hand' \in [Actor -> Hand]
    BY <1>0, <1>3, HandType DEF Link, ExecPC, CreatePC
  <2>2. run' \in [Run -> RunRow] BY <1>0, <1>3 DEF Link, TypeOK, RunRow
  <2> QED BY <1>3, <2>1, <2>2 DEF Link, TypeOK
<1>4. CASE Drop(a)
  <2>1. Nothing \in Maybe(Conversation) /\ Nothing \in Maybe(Run) BY DEF Maybe
  <2>2. [hand[a] EXCEPT !.pc = "resolve", !.conversation = Nothing] \in Hand
    BY <2>1 DEF TypeOK, Hand, ExecPC, CreatePC
  <2>3. hand' \in [Actor -> Hand] BY <1>4, <2>2, HandType DEF Drop
  <2>4. conversation' \in [Conversation -> Maybe(Run)]
    BY <1>4, <2>1 DEF Drop, TypeOK
  <2> QED BY <1>4, <2>3, <2>4 DEF Drop, TypeOK
<1>5. CASE Resolve(a)
  <2>1. Linked(Here(a)) \subseteq Maybe(Conversation) BY DEF Linked, Maybe
  <2>2. hand' \in [Actor -> Hand] BY <1>5, <2>1, HandType DEF Resolve
  <2> QED BY <1>5, <2>2 DEF Resolve, TypeOK
<1>6. CASE CreateThrows(a) \/ Crash(a)
  <2>1. hand' \in [Actor -> Hand] BY <1>6, HandType DEF CreateThrows, Crash
  <2>2. faults' \in 0..MaxFaults BY <1>6, SpendType DEF CreateThrows, Crash
  <2>3. stray' \subseteq Conversation
    BY <1>6 DEF CreateThrows, Crash, Abandoned, TypeOK
  <2> QED BY <1>6, <2>1, <2>2, <2>3 DEF CreateThrows, Crash, TypeOK
<1> QED BY <1>1, <1>2, <1>3, <1>4, <1>5, <1>6 DEF CreateStep

LEMMA TypeExec ==
    ASSUME TypeOK, NEW e \in Exec,
           ExecStep(e) \/ \E r \in Run : Deliver(e, r)
    PROVE  TypeOK'
<1> USE ScheduleAssumption DEF ScheduleAssumption
<1>0. e \in Actor /\ Here(e) \in Maybe(Run) /\ hand[e] \in Hand
  BY DEF Actor, TypeOK, Hand, Here
<1>1. CASE Load(e)
  <2>1. hand' \in [Actor -> Hand]
    BY <1>0, <1>1, HandType DEF Load, ExecPC
  <2> QED BY <1>1, <2>1 DEF Load, TypeOK
<1>2. CASE LoadTrigger(e)
  <2>1. hand' \in [Actor -> Hand]
    BY <1>0, <1>2, HandType DEF LoadTrigger, ExecPC, CreatePC
  <2> QED BY <1>2, <2>1 DEF LoadTrigger, TypeOK
<1>3. /\ [hand[e] EXCEPT !.pc = "mark", !.conversation = Nothing] \in Hand
      /\ [hand[e] EXCEPT !.pc = "done", !.verdict = "success"] \in Hand
  BY <1>0 DEF Hand, ExecPC, Maybe
<1>4. CASE Execute(e)
  <2>1. hand' \in [Actor -> Hand] BY <1>0, <1>3, <1>4, HandType DEF Execute
  <2> QED BY <1>4, <2>1 DEF Execute, TypeOK
<1>5. CASE Mark(e)
  <2>1. hand' \in [Actor -> Hand] BY <1>0, <1>3, <1>5, HandType DEF Mark
  <2>2. hand[e].verdict \in {"success", "failed"} BY <1>0 DEF Hand
  <2>3. run' \in [Run -> RunRow] BY <1>5, <2>2, CompletedType DEF Mark
  <2> QED BY <1>5, <2>1, <2>3 DEF Mark, TypeOK
<1>6. CASE Done(e)
  <2>1. hand' \in [Actor -> Hand] BY <1>0, <1>6, HandType DEF Done
  <2>2. task' \in [Run -> TaskRow] BY <1>6 DEF Done, TypeOK, TaskRow
  <2> QED BY <1>6, <2>1, <2>2 DEF Done, TypeOK
<1>7. CASE HandlerThrows(e)
  <2>1. hand' \in [Actor -> Hand] BY <1>0, <1>7, HandType DEF HandlerThrows
  <2>2. task' \in [Run -> TaskRow] BY <1>7, FailedType DEF HandlerThrows
  <2>3. faults' \in 0..MaxFaults BY <1>7, SpendType DEF HandlerThrows
  <2> QED BY <1>7, <2>1, <2>2, <2>3 DEF HandlerThrows, TypeOK
<1>8. ASSUME NEW r \in Run, Deliver(e, r) PROVE TypeOK'
  <2>1. task[r].tried + 1 \in 0..MaxTried
    <3>1. task[r].tried \in 0..MaxTried BY DEF TypeOK, TaskRow
    <3>2. task[r].tried < MaxTried BY <1>8 DEF Deliver
    <3> QED BY <3>1, <3>2
  <2>2. [Idle EXCEPT !.pc = "load", !.run = r,
                     !.attempt = task[r].tried + 1] \in Hand
    BY <2>1 DEF Idle, Hand, ExecPC, Maybe
  <2>3. hand' \in [Actor -> Hand] BY <1>0, <1>8, <2>2, HandType DEF Deliver
  <2>4. task' \in [Run -> TaskRow]
    <3>1. task' = [task EXCEPT ![r].status = "processing", ![r].tried = @ + 1]
      BY <1>8 DEF Deliver
    <3> QED BY <2>1, <3>1 DEF TypeOK, TaskRow
  <2> QED BY <1>8, <2>3, <2>4 DEF Deliver, TypeOK
<1> QED BY <1>1, <1>2, <1>4, <1>5, <1>6, <1>7, <1>8 DEF ExecStep

LEMMA TypeSweep == ASSUME TypeOK, NEW r \in Run, Sweep(r) PROVE TypeOK'
<1>1. task' \in [Run -> TaskRow] BY DEF Sweep, TypeOK, TaskRow
<1>2. faults' \in 0..MaxFaults
  <2>1. UNCHANGED faults \/ Spend("stall") BY Zenon DEF Sweep
  <2> QED BY <2>1, SpendType DEF TypeOK
<1> QED BY <1>1, <1>2 DEF Sweep, TypeOK

---------------------------------------------------------------------------
(* The inductive invariant *)

(* The row of run r has been inserted. *)
Exists(r) == r \in Run /\ run[r].status # "absent"
Queued(r) == task[r].status # "absent"
Dropping(a) == hand[a].pc \in {"link", "drop"}

(* A task is one of a run that exists, and that of a trigger. *)
RowsOK ==
    \A r \in Run : /\ Queued(r) => Exists(r)
                   /\ Exists(r) => run[r].trigger \in Trigger

(* What run-now and the tick hold between two of their statements. *)
RouteOK == route # Nothing => Exists(route) /\ run[route].kind = "manual"

TickOK ==
    tick.pc \in {"skip", "advance", "enqueue"} =>
      /\ Exists(tick.run)
      /\ run[tick.run].kind = "due"
      /\ run[tick.run].trigger = tick.trigger
      /\ run[tick.run].at = tick.now
      /\ tick.trigger \in tick.due
      /\ ~tick.skipped => tick.trigger \notin tick.busy
      /\ tick.pc = "enqueue" => ~tick.skipped

(* What an execution, or a request that shows a run, holds. *)
Holds(a) ==
    /\ ~At(a, "idle") => Exists(Here(a))
    /\ a \in Exec /\ ~At(a, "idle") => Queued(Here(a))
    /\ Dropping(a) => Mine(a) \in Conversation /\ conversation[Mine(a)] = Here(a)
    /\ Mine(a) # Nothing => Dropping(a) \/ At(a, "execute")
    /\ At(a, "execute") /\ Mine(a) # Nothing => run[Here(a)].conversation = Mine(a)
    /\ At(a, "done") => run[Here(a)].status # "running"

HandsOK ==
    /\ \A a \in Actor : Holds(a)
    /\ \A a, b \in Actor : a # b /\ Dropping(a) /\ Dropping(b) => Mine(a) # Mine(b)

(* No conversation is left over, and each is one of a run that exists. *)
Accounted(c) ==
    \/ run[conversation[c]].conversation = c
    \/ c \in stray
    \/ \E a \in Actor : Dropping(a) /\ Mine(a) = c

ChatsOK ==
    \A c \in Conversation : conversation[c] # Nothing =>
        Exists(conversation[c]) /\ Accounted(c)

(* A due run that is queued is older than its trigger's last execution,    *)
(* and than the tick that still has its trigger ahead, in which only a     *)
(* trigger that was found busy has a live task.                            *)
TimeOK ==
    /\ \A t \in Trigger : trigger[t].last <= clock
    /\ tick.pc # "idle" => tick.now <= clock
    /\ tick.pc = "enqueue" => tick.now <= trigger[tick.trigger].last

PastOK == \A t \in Trigger : \A r \in DueOf(t) : run[r].at <= trigger[t].last

AheadOK ==
    /\ tick.pc # "idle" =>
          \A t \in tick.due : \A r \in DueOf(t) : run[r].at < tick.now
    /\ tick.pc \notin {"idle", "active"} =>
          \A t \in tick.due \ tick.busy : \A r \in DueOf(t) : ~Live(r)

IInv ==
    /\ TypeOK
    /\ RowsOK /\ RouteOK /\ TickOK
    /\ HandsOK /\ ChatsOK
    /\ NoneLeftRunning
    /\ TimeOK /\ PastOK /\ AheadOK /\ FiresOnce

---------------------------------------------------------------------------
(* Which steps write which variable *)

LEMMA RunWriters ==
    ASSUME [Next]_vars
    PROVE  \/ UNCHANGED run
           \/ \E t \in Trigger, r \in Run : StartDue(t, r) \/ RunNow(t, r)
           \/ \E t \in Trigger : Delete(t)
           \/ Skip
           \/ \E a \in Actor : Link(a)
           \/ \E e \in Exec : Mark(e)
<1>1. CASE Minute \/ FindDue \/ TickStep
  BY <1>1 DEF Minute, FindDue, TickStep, FindBusy, CannotStart, StartDue,
           Skip, Advance, Enqueue, TickThrows, TickEnds, TickDies
<1>2. CASE Request
  BY <1>2 DEF Request, RunNow, Suspend, Resume,
           Restore, Delete, EnqueueNow, RunNowFails, Open
<1>3. ASSUME NEW a \in Actor, CreateStep(a) \/ Crash(a)
      PROVE  UNCHANGED run \/ Link(a)
  BY <1>3 DEF CreateStep, Create, CannotCreate,
           Link, Drop, Resolve, CreateThrows, Crash
<1>4. ASSUME NEW e \in Exec, ExecStep(e)
      PROVE  UNCHANGED run \/ Mark(e)
  BY <1>4 DEF ExecStep, Load, LoadTrigger, Execute, Done, HandlerThrows
<1>5. ASSUME NEW e \in Exec, NEW r \in Run, Deliver(e, r) PROVE UNCHANGED run
  BY <1>5 DEF Deliver
<1>6. ASSUME NEW r \in Run, Sweep(r) PROVE UNCHANGED run
  BY <1>6 DEF Sweep
<1>7. CASE UNCHANGED vars BY <1>7 DEF vars
<1> QED BY <1>1, <1>2, <1>3, <1>4, <1>5, <1>6, <1>7 DEF Next

LEMMA TaskWriters ==
    ASSUME [Next]_vars
    PROVE  \/ UNCHANGED task
           \/ Enqueue \/ EnqueueNow
           \/ \E e \in Exec, r \in Run : Deliver(e, r)
           \/ \E e \in Exec : Done(e) \/ HandlerThrows(e)
           \/ \E r \in Run : Sweep(r)
<1>1. CASE Minute \/ FindDue \/ TickStep
  BY <1>1 DEF Minute, FindDue, TickStep, FindBusy, CannotStart, StartDue,
           Skip, Advance, Enqueue, TickThrows, TickEnds, TickDies
<1>2. CASE Request
  BY <1>2 DEF Request, RunNow, Suspend, Resume,
           Restore, Delete, EnqueueNow, RunNowFails, Open
<1>3. ASSUME NEW a \in Actor, CreateStep(a) \/ Crash(a)
      PROVE  UNCHANGED task
  BY <1>3 DEF CreateStep, Create, CannotCreate,
           Link, Drop, Resolve, CreateThrows, Crash
<1>4. ASSUME NEW e \in Exec, ExecStep(e) PROVE UNCHANGED task \/ Done(e) \/ HandlerThrows(e)
  BY <1>4 DEF ExecStep, Load, LoadTrigger,
           Execute, Mark, Done, HandlerThrows
<1>5. CASE UNCHANGED vars BY <1>5 DEF vars
<1> QED BY <1>1, <1>2, <1>3, <1>4, <1>5 DEF Next

LEMMA ConversationWriters ==
    ASSUME [Next]_vars
    PROVE  \/ UNCHANGED conversation
           \/ \E a \in Actor : Drop(a) \/ \E c \in Conversation : Create(a, c)
<1>1. CASE Minute \/ FindDue \/ TickStep
  BY <1>1 DEF Minute, FindDue, TickStep, FindBusy, CannotStart, StartDue,
           Skip, Advance, Enqueue, TickThrows, TickEnds, TickDies
<1>2. CASE Request
  BY <1>2 DEF Request, RunNow, Suspend, Resume,
           Restore, Delete, EnqueueNow, RunNowFails, Open
<1>3. ASSUME NEW a \in Actor, CreateStep(a) \/ Crash(a)
      PROVE  \/ UNCHANGED conversation
             \/ Drop(a) \/ \E c \in Conversation : Create(a, c)
  BY <1>3 DEF CreateStep, Create, CannotCreate,
           Link, Drop, Resolve, CreateThrows, Crash
<1>4. ASSUME NEW e \in Exec, ExecStep(e) PROVE UNCHANGED conversation
  BY <1>4 DEF ExecStep, Load, LoadTrigger,
           Execute, Mark, Done, HandlerThrows
<1>5. ASSUME NEW e \in Exec, NEW r \in Run, Deliver(e, r) PROVE UNCHANGED conversation
  BY <1>5 DEF Deliver
<1>6. ASSUME NEW r \in Run, Sweep(r) PROVE UNCHANGED conversation
  BY <1>6 DEF Sweep
<1>7. CASE UNCHANGED vars BY <1>7 DEF vars
<1> QED BY <1>1, <1>2, <1>3, <1>4, <1>5, <1>6, <1>7 DEF Next

LEMMA TickWriters ==
    ASSUME [Next]_vars
    PROVE  \/ UNCHANGED <<clock, trigger, tick>>
           \/ Minute \/ FindDue \/ TickStep
           \/ \E t \in Trigger : Suspend(t) \/ Resume(t) \/ Restore(t) \/ Delete(t)
<1>1. CASE Minute \/ FindDue \/ TickStep
  BY <1>1 DEF Minute, FindDue, TickStep, FindBusy, CannotStart, StartDue,
           Skip, Advance, Enqueue, TickThrows, TickEnds, TickDies
<1>2. CASE Request
  BY <1>2 DEF Request, RunNow, Suspend, Resume,
           Restore, Delete, EnqueueNow, RunNowFails, Open
<1>3. ASSUME NEW a \in Actor, CreateStep(a) \/ Crash(a)
      PROVE  UNCHANGED <<clock, trigger, tick>>
  BY <1>3 DEF CreateStep, Create, CannotCreate,
           Link, Drop, Resolve, CreateThrows, Crash
<1>4. ASSUME NEW e \in Exec, ExecStep(e) PROVE UNCHANGED <<clock, trigger, tick>>
  BY <1>4 DEF ExecStep, Load, LoadTrigger,
           Execute, Mark, Done, HandlerThrows
<1>5. ASSUME NEW e \in Exec, NEW r \in Run, Deliver(e, r) PROVE UNCHANGED <<clock, trigger, tick>>
  BY <1>5 DEF Deliver
<1>6. ASSUME NEW r \in Run, Sweep(r) PROVE UNCHANGED <<clock, trigger, tick>>
  BY <1>6 DEF Sweep
<1>7. CASE UNCHANGED vars BY <1>7 DEF vars
<1> QED BY <1>1, <1>2, <1>3, <1>4, <1>5, <1>6, <1>7 DEF Next

LEMMA RouteWriters ==
    ASSUME [Next]_vars
    PROVE  \/ UNCHANGED route
           \/ EnqueueNow \/ RunNowFails
           \/ \E t \in Trigger, r \in Run : RunNow(t, r)
<1>1. CASE Minute \/ FindDue \/ TickStep
  BY <1>1 DEF Minute, FindDue, TickStep, FindBusy, CannotStart, StartDue,
           Skip, Advance, Enqueue, TickThrows, TickEnds, TickDies
<1>2. CASE Request
  BY <1>2 DEF Request, RunNow, Suspend, Resume,
           Restore, Delete, EnqueueNow, RunNowFails, Open
<1>3. ASSUME NEW a \in Actor, CreateStep(a) \/ Crash(a)
      PROVE  UNCHANGED route
  BY <1>3 DEF CreateStep, Create, CannotCreate,
           Link, Drop, Resolve, CreateThrows, Crash
<1>4. ASSUME NEW e \in Exec, ExecStep(e) PROVE UNCHANGED route
  BY <1>4 DEF ExecStep, Load, LoadTrigger,
           Execute, Mark, Done, HandlerThrows
<1>5. ASSUME NEW e \in Exec, NEW r \in Run, Deliver(e, r) PROVE UNCHANGED route
  BY <1>5 DEF Deliver
<1>6. ASSUME NEW r \in Run, Sweep(r) PROVE UNCHANGED route
  BY <1>6 DEF Sweep
<1>7. CASE UNCHANGED vars BY <1>7 DEF vars
<1> QED BY <1>1, <1>2, <1>3, <1>4, <1>5, <1>6, <1>7 DEF Next

---------------------------------------------------------------------------
(* What every step keeps of runs and of tasks *)

RunKeeps(r) ==
    Exists(r) =>
      /\ Exists(r)'
      /\ run'[r].trigger = run[r].trigger
      /\ run'[r].kind = run[r].kind
      /\ run'[r].at = run[r].at
      /\ run'[r].status = "running" => run[r].status = "running"
      /\ run[r].conversation # Nothing =>
            run'[r].conversation = run[r].conversation

LEMMA RunsKept ==
    ASSUME IInv, [Next]_vars
    PROVE  \A r \in Run : RunKeeps(r)
<1> SUFFICES ASSUME NEW r \in Run, Exists(r) PROVE RunKeeps(r) BY DEF RunKeeps
<1>0. run \in [Run -> RunRow] BY DEF IInv, TypeOK
<1>1. CASE UNCHANGED run BY <1>1 DEF RunKeeps, Exists
<1>2. ASSUME NEW s \in Run, NEW x, NewRun(s), run' = [run EXCEPT ![s] = x]
      PROVE  RunKeeps(r)
  BY <1>0, <1>2 DEF RunKeeps, Exists, NewRun
<1>3. ASSUME NEW s, NEW status \in {"success", "failed"},
             run' = Completed(s, status)
      PROVE  RunKeeps(r)
  BY <1>0, <1>3 DEF RunKeeps, Exists, Completed, RunRow
<1>4. ASSUME NEW t \in Trigger, Delete(t) PROVE RunKeeps(r)
  BY <1>0, <1>4 DEF RunKeeps, Exists, Delete, RunRow
<1>5. ASSUME NEW a \in Actor, Link(a) PROVE RunKeeps(r)
  BY <1>0, <1>5 DEF RunKeeps, Exists, Link, Linkable, RunRow
<1>6. ASSUME NEW t \in Trigger, NEW s \in Run, StartDue(t, s) \/ RunNow(t, s)
      PROVE  RunKeeps(r)
  BY <1>2, <1>6 DEF StartDue, RunNow
<1>7. CASE Skip BY <1>3, <1>7 DEF Skip
<1>8. ASSUME NEW e \in Exec, Mark(e) PROVE RunKeeps(r)
  <2>1. hand[e].verdict \in {"success", "failed"}
    BY DEF IInv, TypeOK, Hand, Actor
  <2> QED BY <1>3, <1>8, <2>1 DEF Mark
<1> QED BY <1>1, <1>4, <1>5, <1>6, <1>7, <1>8, RunWriters

LEMMA TasksKept ==
    ASSUME IInv, [Next]_vars
    PROVE  \A r \in Run : Queued(r) => Queued(r)'
<1> SUFFICES ASSUME NEW r \in Run, Queued(r) PROVE Queued(r)' OBVIOUS
<1>0. task \in [Run -> TaskRow] BY DEF IInv, TypeOK
<1>1. CASE UNCHANGED task BY <1>1 DEF Queued
<1>2. CASE Enqueue \/ EnqueueNow
  BY <1>0, <1>2 DEF Enqueue, EnqueueNow, Enqueued, Queued, TaskRow
<1>3. ASSUME NEW e \in Exec, NEW s \in Run, Deliver(e, s) PROVE Queued(r)'
  BY <1>0, <1>3 DEF Deliver, Queued, TaskRow
<1>4. ASSUME NEW e \in Exec, Done(e) \/ HandlerThrows(e) PROVE Queued(r)'
  BY <1>0, <1>4 DEF Done, HandlerThrows, Failed, Queued, TaskRow
<1>5. ASSUME NEW s \in Run, Sweep(s) PROVE Queued(r)'
  BY <1>0, <1>5 DEF Sweep, Queued, TaskRow
<1> QED BY <1>1, <1>2, <1>3, <1>4, <1>5, TaskWriters

(* Only the tick and run-now queue a task, each that of the run it holds.  *)
LEMMA NoneQueued ==
    ASSUME IInv, [Next]_vars, ~Enqueue, ~EnqueueNow
    PROVE  \A r \in Run : /\ Queued(r)' <=> Queued(r)
                          /\ Live(r)' => Live(r)
<1> SUFFICES ASSUME NEW r \in Run
             PROVE  (Queued(r)' => Queued(r)) /\ (Live(r)' => Live(r))
  BY TasksKept
<1> USE DEF Queued, Live, Active
<1>0. task \in [Run -> TaskRow] BY DEF IInv, TypeOK
<1>1. CASE UNCHANGED task BY <1>1
<1>2. ASSUME NEW e \in Exec, NEW s \in Run, Deliver(e, s)
      PROVE  (Queued(r)' => Queued(r)) /\ (Live(r)' => Live(r))
  BY <1>0, <1>2 DEF Deliver, TaskRow
<1>3. ASSUME NEW e \in Exec, Done(e) \/ HandlerThrows(e)
      PROVE  (Queued(r)' => Queued(r)) /\ (Live(r)' => Live(r))
  <2>1. ~At(e, "idle") /\ e \in Actor
    BY <1>3 DEF Done, HandlerThrows, At, Actor
  <2>2. Queued(Here(e)) BY <2>1 DEF IInv, HandsOK, Holds
  <2>3. CASE Done(e) BY <1>0, <2>2, <2>3 DEF Done, TaskRow
  <2>4. CASE HandlerThrows(e)
    <3>1. task' = Failed(e) BY <2>4 DEF HandlerThrows
    <3>2. CASE r # Here(e)
      <4>1. task'[r] = task[r] BY <1>0, <3>1, <3>2 DEF Failed
      <4> QED BY <4>1
    <3>3. CASE r = Here(e) BY <1>0, <2>2, <3>1, <3>3 DEF Failed, TaskRow
    <3> QED BY <3>2, <3>3
  <2> QED BY <1>3, <2>3, <2>4
<1>4. ASSUME NEW s \in Run, Sweep(s)
      PROVE  (Queued(r)' => Queued(r)) /\ (Live(r)' => Live(r))
  BY <1>0, <1>4 DEF Sweep, TaskRow
<1> QED BY <1>1, <1>2, <1>3, <1>4, TaskWriters

LEMMA RunAdded ==
    ASSUME IInv, [Next]_vars, NEW r \in Run, ~Exists(r), Exists(r)'
    PROVE  \E t \in Trigger : StartDue(t, r) \/ RunNow(t, r)
<1>0. run \in [Run -> RunRow] BY DEF IInv, TypeOK
<1>1. CASE UNCHANGED run BY <1>1 DEF Exists
<1>2. ASSUME NEW t \in Trigger, NEW s \in Run, StartDue(t, s) \/ RunNow(t, s)
      PROVE  r = s
  BY <1>0, <1>2 DEF StartDue, RunNow, Exists
<1>3. ASSUME NEW s, NEW status, run' = Completed(s, status) PROVE FALSE
  BY <1>0, <1>3 DEF Completed, Exists, RunRow
<1>4. ASSUME NEW t \in Trigger, Delete(t) PROVE FALSE
  BY <1>0, <1>4 DEF Delete, Stored, Exists, RunRow
<1>5. ASSUME NEW a \in Actor, Link(a) PROVE FALSE
  BY <1>0, <1>5 DEF Link, Exists, RunRow
<1>6. CASE Skip BY <1>3, <1>6 DEF Skip
<1>7. ASSUME NEW e \in Exec, Mark(e) PROVE FALSE BY <1>3, <1>7 DEF Mark
<1> QED BY <1>1, <1>2, <1>4, <1>5, <1>6, <1>7, RunWriters

---------------------------------------------------------------------------
(* Every step keeps each part of the invariant *)

LEMMA TypeKept == ASSUME IInv, [Next]_vars PROVE TypeOK'
<1>0. TypeOK BY DEF IInv
<1>1. ASSUME NEW a \in Actor
      PROVE  hand[a].pc \in {"link", "drop"} => Mine(a) \in Conversation
  BY DEF IInv, HandsOK, Holds, Dropping
<1>2. CASE UNCHANGED vars BY <1>0, <1>2 DEF vars, TypeOK
<1> QED BY <1>0, <1>1, <1>2, TypeTick, TypeRequest, TypeCreate, TypeExec, TypeSweep
        DEF Next

LEMMA RowsKept == ASSUME IInv, [Next]_vars PROVE RowsOK'
<1> SUFFICES ASSUME NEW r \in Run
             PROVE  /\ Queued(r)' => Exists(r)'
                    /\ Exists(r)' => run'[r].trigger \in Trigger
  BY DEF RowsOK
<1>0. TypeOK /\ RowsOK /\ TickOK /\ RouteOK BY DEF IInv
<1>1. Exists(r) => Exists(r)' /\ run'[r].trigger = run[r].trigger
  BY RunsKept DEF RunKeeps
<1>2. Queued(r)' => Exists(r)'
  <2>1. CASE ~Enqueue /\ ~EnqueueNow
    BY <1>0, <1>1, <2>1, NoneQueued DEF RowsOK
  <2>2. CASE Enqueue
    <3>1. Exists(tick.run) BY <1>0, <2>2 DEF Enqueue, TickOK
    <3> QED BY <1>0, <1>1, <2>2, <3>1
            DEF Enqueue, Enqueued, Queued, RowsOK, TypeOK
  <2>3. CASE EnqueueNow
    <3>1. Exists(route) BY <1>0, <2>3 DEF EnqueueNow, RouteOK
    <3> QED BY <1>0, <1>1, <2>3, <3>1
            DEF EnqueueNow, Enqueued, Queued, RowsOK, TypeOK
  <2> QED BY <2>1, <2>2, <2>3
<1>3. CASE ~Exists(r) /\ Exists(r)'
  <2>1. PICK t \in Trigger : StartDue(t, r) \/ RunNow(t, r)
    BY <1>3, RunAdded
  <2> QED BY <1>0, <1>2, <2>1 DEF StartDue, RunNow, Started, NoRun, TypeOK
<1> QED BY <1>0, <1>1, <1>2, <1>3 DEF RowsOK

LEMMA RouteKept == ASSUME IInv, [Next]_vars PROVE RouteOK'
<1>0. TypeOK /\ RouteOK BY DEF IInv
<1>1. CASE UNCHANGED route
  BY <1>0, <1>1, RunsKept DEF RouteOK, RunKeeps, Exists
<1>2. CASE EnqueueNow \/ RunNowFails
  BY <1>2 DEF EnqueueNow, RunNowFails, RouteOK
<1>3. ASSUME NEW t \in Trigger, NEW r \in Run, RunNow(t, r) PROVE RouteOK'
  BY <1>0, <1>3 DEF RunNow, Started, NoRun, RouteOK, Exists, TypeOK
<1> QED BY <1>1, <1>2, <1>3, RouteWriters

LEMMA TickKept == ASSUME IInv, [Next]_vars PROVE TickOK'
<1>0. TypeOK /\ TickOK BY DEF IInv
<1>1. CASE UNCHANGED tick
  BY <1>0, <1>1, RunsKept DEF TickOK, RunKeeps, Exists
<1>2. ASSUME tick'.pc \notin {"skip", "advance", "enqueue"} PROVE TickOK'
  BY <1>2 DEF TickOK
<1>3. \A t : NextTrigger(t).pc = "loop"
  BY <1>0 DEF NextTrigger, TypeOK, Tick
<1>4. NoTick.pc = "idle" BY DEF NoTick
<1>5. CASE Minute BY <1>1, <1>5 DEF Minute
<1>6. CASE FindDue BY <1>2, <1>6 DEF FindDue, NoTick
<1>7. CASE TickStep
  <2>1. CASE FindBusy BY <1>0, <1>2, <2>1 DEF FindBusy, TypeOK, Tick
  <2>2. ASSUME NEW t \in Trigger, CannotStart(t) PROVE TickOK'
    BY <1>2, <1>3, <2>2 DEF CannotStart
  <2>3. ASSUME NEW t \in Trigger, NEW r \in Run, StartDue(t, r) PROVE TickOK'
    <3>1. /\ tick'.pc = IF t \in tick.busy THEN "skip" ELSE "advance"
          /\ tick'.trigger = t /\ tick'.run = r
          /\ tick'.skipped = (t \in tick.busy)
          /\ tick'.now = tick.now
          /\ tick'.due = tick.due /\ tick'.busy = tick.busy
      BY <1>0, <2>3 DEF StartDue, TypeOK, Tick
    <3>2. /\ run'[r].status = "running" /\ run'[r].kind = "due"
          /\ run'[r].trigger = t /\ run'[r].at = tick.now
      BY <1>0, <2>3 DEF StartDue, Started, NoRun, TypeOK
    <3>3. t \in tick.due BY <2>3 DEF StartDue
    <3> QED BY <3>1, <3>2, <3>3 DEF TickOK, Exists
  <2>4. CASE Skip
    <3>1. /\ tick'.pc = "advance"
          /\ tick'.trigger = tick.trigger /\ tick'.run = tick.run
          /\ tick'.skipped = tick.skipped /\ tick'.now = tick.now
          /\ tick'.due = tick.due /\ tick'.busy = tick.busy
      BY <1>0, <2>4 DEF Skip, TypeOK, Tick
    <3> QED BY <1>0, <2>4, <3>1, RunsKept DEF Skip, TickOK, RunKeeps, Exists
  <2>5. CASE Advance
    <3>1. CASE tick.skipped BY <1>2, <1>3, <2>5, <3>1 DEF Advance
    <3>2. CASE ~tick.skipped
      <4>1. tick' = [tick EXCEPT !.pc = "enqueue"] BY <2>5, <3>2 DEF Advance
      <4>2. /\ tick'.pc = "enqueue"
            /\ tick'.trigger = tick.trigger /\ tick'.run = tick.run
            /\ tick'.skipped = tick.skipped /\ tick'.now = tick.now
            /\ tick'.due = tick.due /\ tick'.busy = tick.busy
        BY <1>0, <4>1 DEF TypeOK, Tick
      <4> QED BY <1>0, <2>5, <3>2, <4>2 DEF Advance, TickOK, Exists
    <3> QED BY <3>1, <3>2
  <2>6. CASE Enqueue \/ TickThrows
    BY <1>2, <1>3, <2>6 DEF Enqueue, TickThrows
  <2>7. CASE TickEnds \/ TickDies
    BY <1>2, <1>4, <2>7 DEF TickEnds, TickDies
  <2> QED BY <1>7, <2>1, <2>2, <2>3, <2>4, <2>5, <2>6, <2>7 DEF TickStep
<1>8. ASSUME NEW t \in Trigger, Suspend(t) \/ Resume(t) \/ Restore(t) \/ Delete(t)
      PROVE  TickOK'
  BY <1>1, <1>8 DEF Suspend, Resume, Restore, Delete
<1> QED BY <1>1, <1>5, <1>6, <1>7, <1>8, TickWriters

LEMMA NoneLeftKept == ASSUME IInv, [Next]_vars PROVE NoneLeftRunning'
<1> SUFFICES ASSUME NEW r \in Run, task'[r].status = "completed"
             PROVE  run'[r].status # "running"
  BY DEF NoneLeftRunning
<1>0. TypeOK /\ RowsOK /\ HandsOK /\ NoneLeftRunning BY DEF IInv
<1>1. CASE task[r].status = "completed"
  <2>1. Exists(r) BY <1>0, <1>1 DEF RowsOK, Queued
  <2> QED BY <1>0, <1>1, <2>1, RunsKept DEF NoneLeftRunning, RunKeeps
<1>2. CASE task[r].status # "completed"
  <2>1. \E e \in Exec : Done(e) /\ r = Here(e)
    <3>1. task \in [Run -> TaskRow] BY <1>0 DEF TypeOK
    <3>2. CASE Enqueue \/ EnqueueNow
      BY <1>2, <3>1, <3>2 DEF Enqueue, EnqueueNow, Enqueued, TaskRow
    <3>3. ASSUME NEW e \in Exec, NEW s \in Run, Deliver(e, s) PROVE FALSE
      BY <1>2, <3>1, <3>3 DEF Deliver, TaskRow
    <3>4. ASSUME NEW e \in Exec, HandlerThrows(e) PROVE FALSE
      BY <1>2, <3>1, <3>4 DEF HandlerThrows, Failed, TaskRow
    <3>5. ASSUME NEW s \in Run, Sweep(s) PROVE FALSE
      BY <1>2, <3>1, <3>5 DEF Sweep, TaskRow
    <3>6. ASSUME NEW e \in Exec, Done(e) PROVE r = Here(e)
      BY <1>2, <3>1, <3>6 DEF Done, TaskRow
    <3>7. task' # task BY <1>2
    <3> QED BY <3>2, <3>3, <3>4, <3>5, <3>6, <3>7, TaskWriters
  <2>2. PICK e \in Exec : Done(e) /\ r = Here(e) BY <2>1
  <2>3. run[r].status # "running"
    BY <1>0, <2>2 DEF Done, HandsOK, Holds, Actor
  <2> QED BY <2>2, <2>3 DEF Done
<1> QED BY <1>1, <1>2

---------------------------------------------------------------------------
(* What executions and requests hold, and which conversations there are *)

LEMMA HandWriters ==
    ASSUME [Next]_vars
    PROVE  \/ UNCHANGED hand
           \/ \E v \in Viewer, r \in Run : Open(v, r)
           \/ \E a \in Actor : CreateStep(a) \/ Crash(a)
           \/ \E e \in Exec : ExecStep(e) \/ \E r \in Run : Deliver(e, r)
<1>1. CASE Minute \/ FindDue \/ TickStep
  BY <1>1 DEF Minute, FindDue, TickStep, FindBusy, CannotStart, StartDue,
           Skip, Advance, Enqueue, TickThrows, TickEnds, TickDies
<1>2. CASE Request
  BY <1>2 DEF Request, RunNow, Suspend, Resume,
           Restore, Delete, EnqueueNow, RunNowFails
<1>3. ASSUME NEW r \in Run, Sweep(r) PROVE UNCHANGED hand BY <1>3 DEF Sweep
<1>4. CASE UNCHANGED vars BY <1>4 DEF vars
<1> QED BY <1>1, <1>2, <1>3, <1>4 DEF Next

(* Nobody else writes the conversation that an actor has yet to link or    *)
(* to drop.                                                                *)
LEMMA MineKept ==
    ASSUME IInv, [Next]_vars, NEW b \in Actor, hand'[b] = hand[b], Dropping(b)
    PROVE  conversation'[Mine(b)] = conversation[Mine(b)]
<1>0. TypeOK /\ HandsOK /\ Mine(b) \in Conversation
  BY DEF IInv, HandsOK, Holds
<1>1. ASSUME NEW a \in Actor, Drop(a)
      PROVE  conversation'[Mine(b)] = conversation[Mine(b)]
  <2>1. a # b BY <1>0, <1>1 DEF Drop, Set, At, TypeOK, Hand
  <2>2. Dropping(a) BY <1>1 DEF Drop, At, Dropping
  <2>3. Mine(a) # Mine(b) BY <1>0, <2>1, <2>2 DEF HandsOK
  <2> QED BY <1>0, <1>1, <2>3 DEF Drop, TypeOK
<1>2. ASSUME NEW a \in Actor, NEW c \in Conversation, Create(a, c)
      PROVE  conversation'[Mine(b)] = conversation[Mine(b)]
  <2>1. Mine(b) # c BY <1>2 DEF Create, NewConversation, Unused
  <2> QED BY <1>0, <1>2, <2>1 DEF Create, TypeOK
<1> QED BY <1>1, <1>2, ConversationWriters

LEMMA OthersHold ==
    ASSUME IInv, [Next]_vars, NEW b \in Actor, hand'[b] = hand[b]
    PROVE  Holds(b)'
<1>1. Holds(b) BY DEF IInv, HandsOK
<1>2. PICK r : r = Here(b) OBVIOUS
<1>3. ASSUME ~At(b, "idle")
      PROVE  /\ Exists(r)'
             /\ b \in Exec => Queued(r)'
             /\ run'[r].status = "running" => run[r].status = "running"
             /\ run[r].conversation # Nothing =>
                   run'[r].conversation = run[r].conversation
  <2>1. Exists(r) /\ r \in Run BY <1>1, <1>2, <1>3 DEF Holds, Exists
  <2>2. RunKeeps(r) /\ (Queued(r) => Queued(r)') BY <2>1, RunsKept, TasksKept
  <2>3. b \in Exec => Queued(r) BY <1>1, <1>2, <1>3 DEF Holds
  <2> QED BY <2>1, <2>2, <2>3 DEF RunKeeps
<1>4. At(b, "execute") \/ At(b, "done") => ~At(b, "idle") BY DEF At
<1>5. /\ Here(b)' = r /\ Mine(b)' = Mine(b)
      /\ \A pc : At(b, pc)' <=> At(b, pc)
      /\ Dropping(b)' <=> Dropping(b)
  BY <1>2 DEF Here, Mine, At, Dropping
<1>6. ~At(b, "idle")' => Exists(Here(b))' BY <1>3, <1>5 DEF Exists
<1>7. b \in Exec /\ ~At(b, "idle")' => Queued(Here(b))'
  BY <1>3, <1>5 DEF Queued
<1>8. Dropping(b)' => /\ Mine(b)' \in Conversation
                      /\ conversation'[Mine(b)'] = Here(b)'
  BY <1>1, <1>2, <1>5, MineKept DEF Holds
<1>9. At(b, "execute")' /\ Mine(b)' # Nothing =>
        run'[Here(b)'].conversation = Mine(b)'
  BY <1>1, <1>2, <1>3, <1>4, <1>5 DEF Holds
<1>10. At(b, "done")' => run'[Here(b)'].status # "running"
  BY <1>1, <1>2, <1>3, <1>4, <1>5 DEF Holds
<1>11. Mine(b)' # Nothing => Dropping(b)' \/ At(b, "execute")'
  BY <1>1, <1>5 DEF Holds
<1> QED BY <1>6, <1>7, <1>8, <1>9, <1>10, <1>11 DEF Holds

LEMMA HandsFrom ==
    ASSUME IInv, [Next]_vars, NEW a \in Actor, NEW h,
           hand' = [hand EXCEPT ![a] = h],
           Holds(a)',
           h.pc \in {"link", "drop"} =>
              \A b \in Actor : b # a /\ Dropping(b) => Mine(b) # h.conversation
    PROVE  HandsOK'
<1>0. HandsOK /\ hand \in [Actor -> Hand] BY DEF IInv, TypeOK
<1>1. hand'[a] = h /\ \A b \in Actor : b # a => hand'[b] = hand[b] BY <1>0
<1>2. \A b \in Actor : Holds(b)' BY <1>1, OthersHold
<1>3. ASSUME NEW b \in Actor, NEW c \in Actor, b # c, Dropping(b)', Dropping(c)'
      PROVE  Mine(b)' # Mine(c)'
  BY <1>0, <1>1, <1>3 DEF Dropping, Mine, HandsOK
<1> QED BY <1>2, <1>3 DEF HandsOK

(* The actor has no conversation in hand after its step. *)
LEMMA HandsFromNone ==
    ASSUME IInv, [Next]_vars, NEW a \in Actor, NEW h,
           hand' = [hand EXCEPT ![a] = h],
           h.conversation = Nothing,
           h.pc \notin {"link", "drop"},
           h.pc # "idle" => /\ Exists(h.run)'
                            /\ a \in Exec => Queued(h.run)',
           h.pc = "done" => run'[h.run].status # "running"
    PROVE  HandsOK'
<1>0. hand \in [Actor -> Hand] BY DEF IInv, TypeOK
<1>1. hand'[a] = h BY <1>0
<1>2. Holds(a)' BY <1>1 DEF Holds, At, Here, Mine, Dropping, Exists, Queued
<1> QED BY <1>2, HandsFrom

LEMMA LeaveOrFail ==
    ASSUME IInv, [Next]_vars, NEW a \in Actor,
           \/ Leave(a)
           \/ Fails(a) /\ ~At(a, "idle")
           \/ Raises(a) /\ ~At(a, "idle")
    PROVE  HandsOK'
<1>0. hand \in [Actor -> Hand] BY DEF IInv, TypeOK
<1>1. CASE Leave(a)
  <2>1. PICK h : h = Idle OBVIOUS
  <2>2. h.pc = "idle" /\ h.conversation = Nothing BY <2>1 DEF Idle
  <2>3. hand' = [hand EXCEPT ![a] = h] BY <1>1, <2>1 DEF Leave, Set
  <2> QED BY <2>2, <2>3, HandsFromNone
<1>2. CASE Fails(a) /\ ~At(a, "idle")
  <2>1. PICK r : r = Here(a) OBVIOUS
  <2>2. PICK h : h = [hand[a] EXCEPT !.pc = "mark", !.verdict = "failed",
                                     !.conversation = Nothing]
    OBVIOUS
  <2>3. h.pc = "mark" /\ h.conversation = Nothing /\ h.run = r
    BY <1>0, <2>1, <2>2 DEF Hand, Here
  <2>4. hand' = [hand EXCEPT ![a] = h] BY <1>2, <2>2 DEF Fails, Set
  <2>5. Exists(r) /\ r \in Run /\ (a \in Exec => Queued(r))
    BY <1>2, <2>1 DEF IInv, HandsOK, Holds, Exists
  <2>6. Exists(r)' /\ (a \in Exec => Queued(r)')
    BY <2>5, RunsKept, TasksKept DEF RunKeeps
  <2> QED BY <2>3, <2>4, <2>6, HandsFromNone
<1> QED BY <1>1, <1>2 DEF Raises

(* The actor goes on with the same run, and no conversation.               *)
LEMMA GoesOn ==
    ASSUME IInv, [Next]_vars, NEW a \in Actor, NEW h, ~At(a, "idle"),
           hand' = [hand EXCEPT ![a] = h],
           h.run = Here(a), h.conversation = Nothing,
           h.pc \notin {"link", "drop"},
           h.pc = "done" => run'[h.run].status # "running"
    PROVE  HandsOK'
<1>1. PICK r : r = Here(a) OBVIOUS
<1>2. Exists(r) /\ r \in Run /\ (a \in Exec => Queued(r))
  BY <1>1 DEF IInv, HandsOK, Holds, Exists
<1>3. Exists(r)' /\ (a \in Exec => Queued(r)')
  BY <1>2, RunsKept, TasksKept DEF RunKeeps
<1>4. PICK x : x = h OBVIOUS
<1> QED BY <1>1, <1>3, HandsFromNone

LEMMA CreateHands ==
    ASSUME IInv, [Next]_vars, NEW a \in Actor, CreateStep(a) \/ Crash(a)
    PROVE  HandsOK'
<1>0. /\ TypeOK /\ HandsOK /\ Holds(a)
      /\ hand[a] \in Hand
  BY DEF IInv, HandsOK, TypeOK
<1>r. PICK r : r = Here(a) OBVIOUS
<1>k. ASSUME ~At(a, "idle")
      PROVE  /\ r \in Run /\ Exists(r)'
             /\ a \in Exec => Queued(r)'
  <2>1. Exists(r) /\ r \in Run /\ (a \in Exec => Queued(r))
    BY <1>0, <1>r, <1>k DEF Holds, Exists
  <2> QED BY <2>1, RunsKept, TasksKept DEF RunKeeps
<1>1. ASSUME NEW c \in Conversation, Create(a, c) PROVE HandsOK'
  <2>1. PICK h : h = [hand[a] EXCEPT !.pc = "link", !.conversation = c] OBVIOUS
  <2>2. h.pc = "link" /\ h.conversation = c /\ h.run = r
    BY <1>0, <1>r, <2>1 DEF Hand, Here
  <2>3. hand' = [hand EXCEPT ![a] = h] BY <1>1, <2>1 DEF Create, Set
  <2>4. ~At(a, "idle") BY <1>1 DEF Create, At
  <2>5. hand'[a] = h BY <1>0, <2>3 DEF TypeOK
  <2>6. conversation'[c] = r BY <1>0, <1>1, <1>r DEF Create, TypeOK
  <2>7. /\ Here(a)' = r /\ Mine(a)' = c /\ Dropping(a)'
        /\ \A pc : At(a, pc)' <=> pc = "link"
    BY <2>2, <2>5 DEF Here, Mine, Dropping, At
  <2>8. Holds(a)'
    BY <1>k, <2>4, <2>6, <2>7 DEF Holds, Exists, Queued
  <2>9. \A b \in Actor : Mine(b) # c
    BY <1>1 DEF Create, NewConversation, Unused
  <2> QED BY <2>2, <2>3, <2>8, <2>9, HandsFrom
<1>2. CASE CannotCreate(a) \/ CreateThrows(a)
  <2>1. ~At(a, "idle") BY <1>2 DEF CannotCreate, CreateThrows, CreatePC, At
  <2> QED BY <1>2, <2>1, LeaveOrFail DEF CannotCreate, CreateThrows
<1>3. ASSUME NEW c, Returns(a, c), ~At(a, "idle"),
             c # Nothing => run'[r].conversation = c
      PROVE  HandsOK'
  <2>1. CASE a \notin Exec BY <1>3, <2>1, LeaveOrFail DEF Returns
  <2>2. CASE a \in Exec
    <3>1. PICK h : h = [hand[a] EXCEPT !.pc = "execute", !.conversation = c] OBVIOUS
    <3>2. h.pc = "execute" /\ h.conversation = c /\ h.run = r
      BY <1>0, <1>r, <3>1 DEF Hand, Here
    <3>3. hand' = [hand EXCEPT ![a] = h] BY <1>3, <2>2, <3>1 DEF Returns, Set
    <3>4. hand'[a] = h BY <1>0, <3>3 DEF TypeOK
    <3>5. /\ Here(a)' = r /\ Mine(a)' = c /\ ~Dropping(a)'
          /\ \A pc : At(a, pc)' <=> pc = "execute"
      BY <3>2, <3>4 DEF Here, Mine, At, Dropping
    <3>6. Holds(a)'
      BY <1>3, <1>k, <3>5 DEF Holds, Exists, Queued
    <3> QED BY <3>2, <3>3, <3>6, HandsFrom
  <2> QED BY <2>1, <2>2
<1>4. CASE Link(a)
  <2>1. ~At(a, "idle") /\ Dropping(a) BY <1>4 DEF Link, At, Dropping
  <2>2. Mine(a) \in Conversation /\ conversation[Mine(a)] = r
    BY <1>0, <1>r, <2>1 DEF Holds
  <2>3. CASE Linkable(Here(a))
    <3>1. PICK c : c = Mine(a) OBVIOUS
    <3>2. Returns(a, c) BY <1>4, <2>3, <3>1 DEF Link
    <3>3. run'[r].conversation = c
      BY <1>0, <1>4, <1>k, <1>r, <2>1, <2>3, <3>1 DEF Link, TypeOK, RunRow
    <3> QED BY <1>3, <2>1, <3>2, <3>3
  <2>4. CASE ~Linkable(Here(a))
    <3>1. PICK h : h = [hand[a] EXCEPT !.pc = "drop"] OBVIOUS
    <3>2. h.pc = "drop" /\ h.conversation = Mine(a) /\ h.run = r
      BY <1>0, <1>r, <3>1 DEF Hand, Here, Mine
    <3>3. hand' = [hand EXCEPT ![a] = h] BY <1>4, <2>4, <3>1 DEF Link, Goto, Set
    <3>4. hand'[a] = h BY <1>0, <3>3 DEF TypeOK
    <3>5. /\ Here(a)' = r /\ Mine(a)' = Mine(a) /\ Dropping(a)'
          /\ \A pc : At(a, pc)' <=> pc = "drop"
      BY <3>2, <3>4 DEF Here, Mine, Dropping, At
    <3>6. Holds(a)'
      BY <1>4, <1>k, <2>1, <2>2, <3>5 DEF Link, Holds, Exists, Queued
    <3>7. \A b \in Actor : b # a /\ Dropping(b) => Mine(b) # h.conversation
      BY <1>0, <2>1, <3>2 DEF HandsOK
    <3> QED BY <3>3, <3>6, <3>7, HandsFrom
  <2> QED BY <2>3, <2>4
<1>5. CASE Drop(a)
  <2>1. PICK h : h = [hand[a] EXCEPT !.pc = "resolve", !.conversation = Nothing]
    OBVIOUS
  <2>2. h.pc = "resolve" /\ h.conversation = Nothing /\ h.run = Here(a)
    BY <1>0, <2>1 DEF Hand, Here
  <2>3. hand' = [hand EXCEPT ![a] = h] BY <1>5, <2>1 DEF Drop, Set
  <2>4. ~At(a, "idle") BY <1>5 DEF Drop, At
  <2> QED BY <2>2, <2>3, <2>4, GoesOn
<1>6. CASE Resolve(a)
  <2>1. ~At(a, "idle") BY <1>6 DEF Resolve, At
  <2>2. ASSUME NEW c \in Linked(Here(a)), Returns(a, c) PROVE HandsOK'
    <3>1. run'[r].conversation = c
      BY <1>6, <1>r, <2>2 DEF Resolve, Linked
    <3>2. PICK d : d = c OBVIOUS
    <3> QED BY <1>3, <2>1, <2>2, <3>1, <3>2
  <2>3. CASE Raises(a) BY <2>1, <2>3, LeaveOrFail
  <2> QED BY <1>6, <2>2, <2>3 DEF Resolve
<1>7. CASE Crash(a) BY <1>7, LeaveOrFail DEF Crash
<1> QED BY <1>1, <1>2, <1>4, <1>5, <1>6, <1>7 DEF CreateStep

LEMMA ExecHands ==
    ASSUME IInv, [Next]_vars, NEW e \in Exec, ExecStep(e)
    PROVE  HandsOK'
<1>0. /\ TypeOK /\ Holds(e) /\ hand[e] \in Hand /\ e \in Actor
  BY DEF IInv, HandsOK, TypeOK, Actor
<1>1. ~At(e, "idle")
  BY DEF ExecStep, Load, LoadTrigger, Execute, Mark, Done, HandlerThrows, At
<1>2. Here(e) \in Run BY <1>0, <1>1 DEF Holds, Exists
<1>3. ASSUME NEW pc \in {"trigger", "create", "execute", "done"},
             Goto(e, pc), Mine(e) = Nothing,
             pc = "done" => run'[Here(e)].status # "running"
      PROVE  HandsOK'
  <2>1. PICK h : h = [hand[e] EXCEPT !.pc = pc] OBVIOUS
  <2>2. h.pc = pc /\ h.conversation = Nothing /\ h.run = Here(e)
    BY <1>0, <1>3, <2>1 DEF Hand, Here, Mine
  <2>3. hand' = [hand EXCEPT ![e] = h] BY <1>3, <2>1 DEF Goto, Set
  <2> QED BY <1>0, <1>1, <1>3, <2>2, <2>3, GoesOn
<1>5. CASE Load(e)
  <2>1. Mine(e) = Nothing BY <1>0, <1>5 DEF Load, Holds, At, Dropping
  <2> QED BY <1>3, <1>5, <2>1 DEF Load
<1>6. CASE LoadTrigger(e)
  <2>1. Mine(e) = Nothing BY <1>0, <1>6 DEF LoadTrigger, Holds, At, Dropping
  <2> QED BY <1>0, <1>1, <1>3, <1>6, <2>1, LeaveOrFail DEF LoadTrigger
<1>7. CASE Execute(e)
  <2>1. CASE Fails(e) BY <1>0, <1>1, <2>1, LeaveOrFail
  <2>2. CASE Set(e, [hand[e] EXCEPT !.pc = "mark", !.conversation = Nothing])
    <3>1. PICK h : h = [hand[e] EXCEPT !.pc = "mark", !.conversation = Nothing]
      OBVIOUS
    <3>2. h.pc = "mark" /\ h.conversation = Nothing /\ h.run = Here(e)
      BY <1>0, <3>1 DEF Hand, Here
    <3>3. hand' = [hand EXCEPT ![e] = h] BY <2>2, <3>1 DEF Set
    <3> QED BY <1>0, <1>1, <3>2, <3>3, GoesOn
  <2> QED BY <1>7, <2>1, <2>2 DEF Execute
<1>8. CASE Mark(e)
  <2>1. hand[e].verdict \in {"success", "failed"} BY <1>0 DEF Hand
  <2>2. run'[Here(e)].status # "running"
    BY <1>0, <1>2, <1>8, <2>1 DEF Mark, Completed, TypeOK, RunRow
  <2>3. Mine(e) = Nothing BY <1>0, <1>8 DEF Mark, Holds, At, Dropping
  <2>4. PICK h : h = [hand[e] EXCEPT !.pc = "done", !.verdict = "success"]
    OBVIOUS
  <2>5. h.pc = "done" /\ h.conversation = Nothing /\ h.run = Here(e)
    BY <1>0, <2>3, <2>4 DEF Hand, Here, Mine
  <2>6. hand' = [hand EXCEPT ![e] = h] BY <1>8, <2>4 DEF Mark, Set
  <2> QED BY <1>0, <1>1, <2>2, <2>5, <2>6, GoesOn
<1>9. CASE Done(e) \/ HandlerThrows(e)
  BY <1>0, <1>9, LeaveOrFail DEF Done, HandlerThrows
<1> QED BY <1>5, <1>6, <1>7, <1>8, <1>9 DEF ExecStep

LEMMA HandsKept == ASSUME IInv, [Next]_vars PROVE HandsOK'
<1>0. TypeOK /\ RowsOK /\ HandsOK BY DEF IInv
<1>1. CASE UNCHANGED hand
  <2>1. \A a \in Actor : Holds(a)' BY <1>1, OthersHold
  <2> QED BY <1>0, <1>1, <2>1 DEF HandsOK, Dropping, Mine
<1>2. ASSUME NEW v \in Viewer, NEW r \in Run, Open(v, r) PROVE HandsOK'
  <2>1. v \in Actor /\ v \notin Exec
    BY ScheduleAssumption DEF Actor, ScheduleAssumption
  <2>2. PICK h : h = [Idle EXCEPT !.pc = "create", !.run = r] OBVIOUS
  <2>3. h.pc = "create" /\ h.run = r /\ h.conversation = Nothing
    BY <2>2 DEF Idle
  <2>4. hand' = [hand EXCEPT ![v] = h] BY <1>2, <2>2 DEF Open, Set
  <2>5. Exists(r)' BY <1>2, RunsKept DEF Open, Stored, Exists, RunKeeps
  <2> QED BY <2>1, <2>3, <2>4, <2>5, HandsFromNone
<1>3. ASSUME NEW e \in Exec, NEW r \in Run, Deliver(e, r) PROVE HandsOK'
  <2>1. e \in Actor BY DEF Actor
  <2>2. PICK h : h = [Idle EXCEPT !.pc = "load", !.run = r,
                                  !.attempt = task[r].tried + 1]
    OBVIOUS
  <2>3. h.pc = "load" /\ h.run = r /\ h.conversation = Nothing
    BY <2>2 DEF Idle
  <2>4. hand' = [hand EXCEPT ![e] = h] BY <1>3, <2>2 DEF Deliver, Set
  <2>5. Queued(r) /\ Exists(r) BY <1>0, <1>3 DEF Deliver, Queued, RowsOK
  <2>6. Queued(r)' /\ Exists(r)' BY <2>5, RunsKept, TasksKept DEF RunKeeps
  <2> QED BY <2>1, <2>3, <2>4, <2>6, HandsFromNone
<1> QED BY <1>1, <1>2, <1>3, CreateHands, ExecHands, HandWriters

LEMMA StrayGrows ==
    ASSUME [Next]_vars
    PROVE  stray \subseteq stray'
<1>1. CASE Minute \/ FindDue \/ TickStep
  BY <1>1 DEF Minute, FindDue, TickStep, FindBusy, CannotStart, StartDue,
           Skip, Advance, Enqueue, TickThrows, TickEnds, TickDies
<1>2. CASE Request
  BY <1>2 DEF Request, RunNow, Suspend, Resume,
           Restore, Delete, EnqueueNow, RunNowFails, Open
<1>3. ASSUME NEW a \in Actor, CreateStep(a) \/ Crash(a)
      PROVE  stray \subseteq stray'
  BY <1>3 DEF CreateStep, Create, CannotCreate,
           Link, Drop, Resolve, CreateThrows, Crash
<1>4. ASSUME NEW e \in Exec, ExecStep(e) PROVE UNCHANGED stray
  BY <1>4 DEF ExecStep, Load, LoadTrigger,
           Execute, Mark, Done, HandlerThrows
<1>5. ASSUME NEW e \in Exec, NEW r \in Run, Deliver(e, r) PROVE UNCHANGED stray
  BY <1>5 DEF Deliver
<1>6. ASSUME NEW r \in Run, Sweep(r) PROVE UNCHANGED stray
  BY <1>6 DEF Sweep
<1>7. CASE UNCHANGED vars BY <1>7 DEF vars
<1> QED BY <1>1, <1>2, <1>3, <1>4, <1>5, <1>6, <1>7 DEF Next

LEMMA DroppingEnds ==
    ASSUME IInv, [Next]_vars, NEW a \in Actor, Dropping(a), hand'[a] # hand[a]
    PROVE  Link(a) \/ Drop(a) \/ CreateThrows(a) \/ Crash(a)
<1>0. hand \in [Actor -> Hand] BY DEF IInv, TypeOK
<1>1. ASSUME NEW b, NEW h, Set(b, h) PROVE a = b BY <1>0, <1>1 DEF Set
<1>2. ASSUME NEW b, \/ Leave(b) \/ Fails(b) \/ Raises(b)
                    \/ \E pc : Goto(b, pc)
                    \/ \E c : Returns(b, c)
      PROVE  a = b
  BY <1>1, <1>2 DEF Leave, Fails, Raises, Goto, Returns
<1>3. ASSUME NEW v \in Viewer, NEW r \in Run, Open(v, r) PROVE FALSE
  BY <1>1, <1>3 DEF Open, At, Dropping
<1>4. ASSUME NEW e \in Exec, NEW r \in Run, Deliver(e, r) PROVE FALSE
  BY <1>1, <1>4 DEF Deliver, At, Dropping
<1>5. ASSUME NEW e \in Exec, ExecStep(e) PROVE FALSE
  <2>1. CASE Load(e) BY <1>2, <2>1 DEF Load, At, Dropping
  <2>2. CASE LoadTrigger(e) BY <1>2, <2>2 DEF LoadTrigger, At, Dropping
  <2>3. CASE Execute(e) BY <1>1, <1>2, <2>3 DEF Execute, At, Dropping
  <2>4. CASE Mark(e) BY <1>1, <2>4 DEF Mark, At, Dropping
  <2>5. CASE Done(e) \/ HandlerThrows(e)
    BY <1>2, <2>5 DEF Done, HandlerThrows, At, Dropping
  <2> QED BY <1>5, <2>1, <2>2, <2>3, <2>4, <2>5 DEF ExecStep
<1>6. ASSUME NEW b \in Actor, CreateStep(b) \/ Crash(b)
      PROVE  Link(a) \/ Drop(a) \/ CreateThrows(a) \/ Crash(a)
  <2>1. ASSUME NEW c \in Conversation, Create(b, c) PROVE FALSE
    BY <1>1, <2>1 DEF Create, At, Dropping
  <2>2. CASE CannotCreate(b) BY <1>2, <2>2 DEF CannotCreate, At, Dropping
  <2>3. CASE Resolve(b) BY <1>2, <2>3 DEF Resolve, At, Dropping
  <2>4. CASE Link(b) BY <1>2, <2>4 DEF Link
  <2>5. CASE Drop(b) BY <1>1, <2>5 DEF Drop
  <2>6. CASE CreateThrows(b) BY <1>2, <2>6 DEF CreateThrows
  <2>7. CASE Crash(b) BY <1>2, <2>7 DEF Crash
  <2> QED BY <1>6, <2>1, <2>2, <2>3, <2>4, <2>5, <2>6, <2>7 DEF CreateStep
<1> QED BY <1>3, <1>4, <1>5, <1>6, HandWriters

LEMMA ChatsKept == ASSUME IInv, [Next]_vars PROVE ChatsOK'
<1> SUFFICES ASSUME NEW c \in Conversation, NEW r, r = conversation'[c],
                    r # Nothing
             PROVE  /\ Exists(r)'
                    /\ \/ run'[r].conversation = c
                       \/ c \in stray'
                       \/ \E a \in Actor : Dropping(a)' /\ Mine(a)' = c
  BY DEF ChatsOK, Accounted, Exists
<1>0. TypeOK /\ HandsOK /\ ChatsOK /\ c # Nothing
  BY DEF IInv, Conversation, Nothing
<1>1. CASE conversation[c] = r
  <2>1. Exists(r) /\ r \in Run /\ Accounted(c)
    BY <1>0, <1>1 DEF ChatsOK, Exists
  <2>2. Exists(r)' /\ RunKeeps(r) BY <2>1, RunsKept DEF RunKeeps
  <2>3. CASE run[r].conversation = c
    BY <1>0, <2>1, <2>2, <2>3 DEF RunKeeps
  <2>4. CASE c \in stray BY <2>2, <2>4, StrayGrows
  <2>5. ASSUME NEW a \in Actor, Dropping(a), Mine(a) = c
        PROVE  \/ run'[r].conversation = c
               \/ c \in stray'
               \/ Dropping(a)' /\ Mine(a)' = c
    <3>1. CASE hand'[a] = hand[a] BY <2>5, <3>1 DEF Dropping, Mine
    <3>2. Here(a) = r BY <1>0, <1>1, <2>5 DEF HandsOK, Holds
    <3>3. CASE Link(a) /\ Linkable(Here(a))
      BY <1>0, <2>1, <2>5, <3>2, <3>3 DEF Link, TypeOK, RunRow
    <3>4. CASE Link(a) /\ ~Linkable(Here(a))
      <4>1. hand'[a] = [hand[a] EXCEPT !.pc = "drop"]
        BY <1>0, <3>4 DEF Link, Goto, Set, TypeOK
      <4> QED BY <1>0, <2>5, <4>1 DEF Dropping, Mine, TypeOK, Hand
    <3>5. CASE Drop(a) BY <1>0, <2>5, <3>5 DEF Drop, TypeOK
    <3>6. CASE CreateThrows(a) \/ Crash(a)
      BY <2>5, <3>6 DEF CreateThrows, Crash, Abandoned, Dropping
    <3> QED BY <2>5, <3>1, <3>3, <3>4, <3>5, <3>6, DroppingEnds
  <2> QED BY <1>1, <2>1, <2>2, <2>3, <2>4, <2>5 DEF Accounted
<1>2. CASE conversation[c] # r
  <2>1. ASSUME NEW a \in Actor, Drop(a) PROVE FALSE
    BY <1>0, <1>2, <2>1 DEF Drop, TypeOK
  <2>2. ASSUME NEW a \in Actor, NEW d \in Conversation, Create(a, d)
        PROVE  /\ Exists(r)'
               /\ Dropping(a)' /\ Mine(a)' = c
    <3>1. d = c /\ r = Here(a) BY <1>0, <1>2, <2>2 DEF Create, TypeOK
    <3>2. Exists(r) /\ r \in Run
      BY <1>0, <2>2, <3>1 DEF Create, At, HandsOK, Holds, Exists
    <3>3. Exists(r)' BY <3>2, RunsKept DEF RunKeeps
    <3>4. hand'[a] = [hand[a] EXCEPT !.pc = "link", !.conversation = c]
      BY <1>0, <2>2, <3>1 DEF Create, Set, TypeOK
    <3> QED BY <1>0, <3>3, <3>4 DEF Dropping, Mine, TypeOK, Hand
  <2> QED BY <1>2, <2>1, <2>2, ConversationWriters
<1> QED BY <1>1, <1>2

---------------------------------------------------------------------------
(* Time: the tick, the triggers' last execution, and the due runs queued   *)

LEMMA TickMoves ==
    ASSUME IInv, [Next]_vars
    PROVE  \/ UNCHANGED tick
           \/ tick'.pc = "idle"
           \/ FindDue
           \/ FindBusy
           \/ /\ tick.pc \notin {"idle", "active"}
              /\ tick'.pc \notin {"idle", "active"}
              /\ tick'.due \subseteq tick.due
              /\ tick'.busy = tick.busy /\ tick'.now = tick.now
              /\ tick'.pc = "enqueue" => Advance /\ tick'.trigger = tick.trigger
              /\ Enqueue => tick.trigger \notin tick'.due
<1>0. tick \in Tick BY DEF IInv, TypeOK
<1>1. \A t : /\ NextTrigger(t).pc = "loop"
             /\ NextTrigger(t).due = tick.due \ {t}
             /\ NextTrigger(t).busy = tick.busy
             /\ NextTrigger(t).now = tick.now
  BY <1>0 DEF NextTrigger, Tick
<1>2. CASE TickStep
  <2>1. ASSUME NEW t \in Trigger, CannotStart(t)
        PROVE  /\ tick.pc = "loop" /\ tick' = NextTrigger(t)
               /\ ~Enqueue
    BY <2>1 DEF CannotStart, Enqueue
  <2>2. ASSUME NEW t \in Trigger, NEW r \in Run, StartDue(t, r)
        PROVE  /\ tick.pc = "loop" /\ ~Enqueue
               /\ tick'.pc \in {"skip", "advance"}
               /\ tick'.due = tick.due
               /\ tick'.busy = tick.busy /\ tick'.now = tick.now
    BY <1>0, <2>2 DEF StartDue, Enqueue, Tick
  <2>3. CASE Skip
    <3>1. /\ tick.pc = "skip" /\ ~Enqueue
          /\ tick'.pc = "advance"
          /\ tick'.due = tick.due
          /\ tick'.busy = tick.busy /\ tick'.now = tick.now
      BY <1>0, <2>3 DEF Skip, Enqueue, Tick
    <3> QED BY <3>1
  <2>4. CASE Advance
    <3>1. tick.pc = "advance" /\ ~Enqueue BY <2>4 DEF Advance, Enqueue
    <3>2. CASE tick.skipped BY <1>1, <2>4, <3>1, <3>2 DEF Advance
    <3>3. CASE ~tick.skipped
      <4>1. tick' = [tick EXCEPT !.pc = "enqueue"] BY <2>4, <3>3 DEF Advance
      <4>2. /\ tick'.pc = "enqueue" /\ tick'.trigger = tick.trigger
            /\ tick'.due = tick.due
            /\ tick'.busy = tick.busy /\ tick'.now = tick.now
        BY <1>0, <4>1 DEF Tick
      <4> QED BY <2>4, <3>1, <4>2
    <3> QED BY <3>2, <3>3
  <2>5. CASE Enqueue \/ TickThrows
    <3>1. /\ tick.pc \in {"skip", "advance", "enqueue"}
          /\ tick' = NextTrigger(tick.trigger)
      BY <2>5 DEF Enqueue, TickThrows
    <3> QED BY <1>1, <3>1
  <2>6. CASE TickEnds \/ TickDies BY <2>6 DEF TickEnds, TickDies, NoTick
  <2> QED BY <1>1, <1>2, <2>1, <2>2, <2>3, <2>4, <2>5, <2>6 DEF TickStep
<1>3. CASE Minute BY <1>3 DEF Minute
<1>4. ASSUME NEW t \in Trigger, Suspend(t) \/ Resume(t) \/ Restore(t) \/ Delete(t)
      PROVE  UNCHANGED tick
  BY <1>4 DEF Suspend, Resume, Restore, Delete
<1> QED BY <1>2, <1>3, <1>4, TickWriters

(* last_executed_at moves back only to the tick's `now`. *)
LEMMA LastMoves ==
    ASSUME IInv, [Next]_vars, NEW t \in Trigger
    PROVE  /\ trigger'[t].last <= clock'
           /\ \/ trigger[t].last <= trigger'[t].last
              \/ Advance /\ t = tick.trigger /\ trigger'[t].last = tick.now
<1>0. /\ TypeOK /\ TimeOK
      /\ clock \in Nat /\ tick.now \in Nat
      /\ \A u \in Trigger : trigger[u].last \in Nat
  BY ScheduleAssumption DEF IInv, TypeOK, Tick, TriggerRow, ScheduleAssumption
<1>1. CASE UNCHANGED <<clock, trigger>> BY <1>0, <1>1 DEF TimeOK
<1>2. CASE Minute BY <1>0, <1>2 DEF Minute, TimeOK
<1>3. CASE Advance
  <2>1. tick.now <= clock /\ clock' = clock
    BY <1>0, <1>3 DEF Advance, TimeOK
  <2>2. trigger' = [trigger EXCEPT ![tick.trigger].last = tick.now]
    BY <1>3 DEF Advance, Advanced
  <2> QED BY <1>0, <1>3, <2>1, <2>2 DEF TypeOK, TriggerRow, TimeOK
<1>4. ASSUME NEW u \in Trigger, Suspend(u) \/ Resume(u) \/ Delete(u)
      PROVE  trigger'[t].last = trigger[t].last /\ clock' = clock
  BY <1>0, <1>4 DEF Suspend, Resume, Delete, Switch, TypeOK, TriggerRow
<1>5. ASSUME NEW u \in Trigger, Restore(u)
      PROVE  trigger'[t].last \in {trigger[t].last, clock} /\ clock' = clock
  BY <1>0, <1>5 DEF Restore, TypeOK, TriggerRow
<1>6. CASE FindDue \/ (TickStep /\ ~Advance)
  BY <1>1, <1>6 DEF FindDue, TickStep, FindBusy, CannotStart, StartDue,
           Skip, Enqueue, TickThrows, TickEnds, TickDies
<1> QED BY <1>0, <1>1, <1>2, <1>3, <1>4, <1>5, <1>6, TickWriters DEF TimeOK

LEMMA TimeKept == ASSUME IInv, [Next]_vars PROVE TimeOK'
<1>0. /\ TypeOK /\ TimeOK /\ TickOK
      /\ clock \in Nat /\ tick.now \in Nat
      /\ \A u \in Trigger : trigger[u].last \in Nat
      /\ \A u \in Trigger : trigger'[u].last \in Nat
  BY TypeKept, ScheduleAssumption
  DEF IInv, TypeOK, Tick, TriggerRow, ScheduleAssumption
<1>1. clock' \in Nat /\ clock <= clock'
  <2>1. CASE Minute BY <1>0, <2>1 DEF Minute
  <2>2. ASSUME FindDue \/ TickStep PROVE clock' = clock
    BY <2>2 DEF FindDue, TickStep, FindBusy, CannotStart, StartDue,
             Skip, Advance, Enqueue, TickThrows, TickEnds, TickDies
  <2>3. ASSUME NEW t \in Trigger,
               Suspend(t) \/ Resume(t) \/ Restore(t) \/ Delete(t)
        PROVE  clock' = clock
    BY <2>3 DEF Suspend, Resume, Restore, Delete
  <2> QED BY <1>0, <2>1, <2>2, <2>3, TickWriters
<1>2. \A t \in Trigger : trigger'[t].last <= clock' BY LastMoves
<1>3. tick'.pc # "idle" => tick'.now <= clock'
  <2>1. CASE UNCHANGED tick BY <1>0, <1>1, <2>1 DEF TimeOK
  <2>2. CASE FindDue
    BY <1>0, <1>1, <2>2 DEF FindDue, NoTick
  <2>3. CASE FindBusy BY <1>0, <1>1, <2>3 DEF FindBusy, TimeOK, TypeOK, Tick
  <2> QED BY <1>0, <1>1, <2>1, <2>2, <2>3, TickMoves DEF TimeOK
<1>4. ASSUME tick'.pc = "enqueue"
      PROVE  tick'.now <= trigger'[tick'.trigger].last
  <2>1. CASE UNCHANGED tick
    <3>1. PICK t : t = tick.trigger OBVIOUS
    <3>2. t \in Trigger /\ tick.now <= trigger[t].last /\ tick.pc = "enqueue"
      BY <1>0, <1>4, <2>1, <3>1 DEF TimeOK, TickOK, TypeOK, Tick
    <3>3. ~Advance BY <3>2 DEF Advance
    <3>4. trigger[t].last <= trigger'[t].last BY <3>2, <3>3, LastMoves
    <3> QED BY <1>0, <2>1, <3>1, <3>2, <3>4
  <2>2. CASE Advance /\ tick'.trigger = tick.trigger /\ tick'.now = tick.now
    <3>1. tick.trigger \in Trigger
      BY <1>0, <2>2 DEF Advance, TickOK, TypeOK, Tick
    <3> QED BY <1>0, <2>2, <3>1 DEF Advance, Advanced, TypeOK, TriggerRow
  <2>3. ~FindDue /\ ~FindBusy
    BY <1>0, <1>4 DEF FindDue, FindBusy, NoTick, TypeOK, Tick
  <2>4. tick'.pc # "idle" BY <1>4
  <2> QED BY <1>4, <2>1, <2>2, <2>3, <2>4, TickMoves
<1> QED BY <1>2, <1>3, <1>4 DEF TimeOK

(* Only Enqueue adds a due run, that of the tick. *)
LEMMA DueKept ==
    ASSUME IInv, [Next]_vars, ~Enqueue,
           NEW t \in Trigger, NEW r \in DueOf(t)'
    PROVE  /\ r \in DueOf(t)
           /\ run'[r].at = run[r].at
           /\ Live(r)' => Live(r)
<1>0. TypeOK /\ RowsOK /\ RouteOK BY DEF IInv
<1>1. /\ r \in Run /\ Queued(r)'
      /\ run'[r].kind = "due" /\ run'[r].trigger = t
  BY DEF DueOf, Queued
<1>2. Queued(r) /\ (Live(r)' => Live(r))
  <2>1. CASE ~EnqueueNow BY <1>1, <2>1, NoneQueued
  <2>2. CASE EnqueueNow
    <3>1. Exists(route) /\ run[route].kind = "manual" /\ route \in Run
      BY <1>0, <2>2 DEF EnqueueNow, RouteOK, Exists
    <3>2. r # route BY <1>1, <2>2, <3>1 DEF EnqueueNow
    <3> QED BY <1>0, <1>1, <2>2, <3>2
            DEF EnqueueNow, Enqueued, Queued, Live, Active, TypeOK
  <2> QED BY <2>1, <2>2
<1>3. Exists(r) BY <1>0, <1>1, <1>2 DEF RowsOK
<1>4. /\ run'[r].at = run[r].at
      /\ run'[r].kind = run[r].kind
      /\ run'[r].trigger = run[r].trigger
  BY <1>1, <1>3, RunsKept DEF RunKeeps
<1> QED BY <1>1, <1>2, <1>4 DEF DueOf, Queued

LEMMA DueAdded ==
    ASSUME IInv, Enqueue, NEW t \in Trigger, NEW r \in DueOf(t)'
    PROVE  /\ run' = run
           /\ \/ r \in DueOf(t) /\ (Live(r)' => Live(r))
              \/ r = tick.run /\ t = tick.trigger
<1>0. TypeOK /\ TickOK BY DEF IInv
<1>1. run' = run /\ task' = Enqueued(tick.run) /\ tick.pc = "enqueue"
  BY DEF Enqueue
<1>2. r \in Run BY DEF DueOf
<1>3. CASE r = tick.run BY <1>0, <1>1, <1>3 DEF DueOf, TickOK
<1>4. CASE r # tick.run
  BY <1>0, <1>1, <1>2, <1>4 DEF DueOf, Enqueued, Live, Active, TypeOK
<1> QED BY <1>1, <1>3, <1>4

(* What Enqueue relies on: the run it queues is later than every one       *)
(* queued for its trigger, and none of those is live.                      *)
LEMMA EnqueueLast ==
    ASSUME IInv, Enqueue
    PROVE  /\ tick.trigger \in Trigger
           /\ run[tick.run].at = tick.now
           /\ \A r \in DueOf(tick.trigger) : run[r].at < tick.now /\ ~Live(r)
<1>1. TypeOK /\ TickOK /\ AheadOK BY DEF IInv
<1>2. tick.pc = "enqueue" BY DEF Enqueue
<1>3. /\ tick.trigger \in tick.due /\ tick.trigger \notin tick.busy
      /\ run[tick.run].at = tick.now
  BY <1>1, <1>2 DEF TickOK
<1>4. tick.due \subseteq Trigger BY <1>1 DEF TypeOK, Tick
<1> QED BY <1>1, <1>2, <1>3, <1>4 DEF AheadOK

LEMMA Times ==
    ASSUME TypeOK
    PROVE  /\ clock \in Nat /\ tick.now \in Nat
           /\ \A t \in Trigger : trigger[t].last \in Nat
           /\ \A r \in Run : run[r].at \in Nat
BY ScheduleAssumption DEF TypeOK, Tick, TriggerRow, RunRow, ScheduleAssumption

LEMMA PastKept == ASSUME IInv, [Next]_vars PROVE PastOK'
<1> SUFFICES ASSUME NEW t \in Trigger, NEW r \in DueOf(t)'
             PROVE  run'[r].at <= trigger'[t].last
  BY DEF PastOK
<1>0. /\ TypeOK /\ TypeOK' /\ PastOK /\ AheadOK /\ TickOK /\ TimeOK /\ r \in Run
  BY TypeKept DEF IInv, DueOf
<1>1. /\ tick.now \in Nat /\ trigger[t].last \in Nat /\ run[r].at \in Nat
      /\ trigger'[t].last \in Nat
  BY <1>0, Times, ScheduleAssumption
  DEF TypeOK, TriggerRow, ScheduleAssumption
<1>2. CASE ~Enqueue
  <2>1. r \in DueOf(t) /\ run'[r].at = run[r].at BY <1>2, DueKept
  <2>2. run[r].at <= trigger[t].last BY <1>0, <2>1 DEF PastOK
  <2>3. CASE trigger[t].last <= trigger'[t].last BY <1>1, <2>1, <2>2, <2>3
  <2>4. CASE Advance /\ t = tick.trigger /\ trigger'[t].last = tick.now
    <3>1. t \in tick.due /\ tick.pc # "idle"
      BY <1>0, <2>4 DEF Advance, TickOK
    <3>2. run[r].at < tick.now BY <1>0, <2>1, <3>1 DEF AheadOK
    <3> QED BY <1>1, <2>1, <2>4, <3>2
  <2> QED BY <2>3, <2>4, LastMoves
<1>3. CASE Enqueue
  <2>1. trigger' = trigger BY <1>3 DEF Enqueue
  <2>2. CASE r \in DueOf(t) BY <1>0, <1>3, <2>1, <2>2, DueAdded DEF PastOK
  <2>3. CASE r = tick.run /\ t = tick.trigger
    BY <1>0, <1>3, <2>1, <2>3, DueAdded DEF TickOK, TimeOK, Enqueue
  <2> QED BY <1>3, <2>2, <2>3, DueAdded
<1> QED BY <1>2, <1>3

LEMMA AheadKept == ASSUME IInv, [Next]_vars PROVE AheadOK'
<1>0. TypeOK /\ PastOK /\ AheadOK /\ TickOK BY DEF IInv
<1>1. CASE tick'.pc = "idle" BY <1>1 DEF AheadOK
<1>2. CASE FindDue
  <2>1. /\ tick'.pc = "active" /\ tick'.due = Due /\ tick'.now = clock
        /\ ~Enqueue /\ Due \subseteq Trigger
    BY <1>2 DEF FindDue, Enqueue, NoTick, Due
  <2>2. ASSUME NEW t \in Due, NEW r \in DueOf(t)' PROVE run'[r].at < clock
    <3>1. t \in Trigger /\ trigger[t].last < clock BY DEF Due
    <3>2. r \in DueOf(t) /\ run'[r].at = run[r].at /\ r \in Run
      BY <2>1, <3>1, DueKept DEF DueOf
    <3>3. run[r].at <= trigger[t].last BY <1>0, <3>1, <3>2 DEF PastOK
    <3>4. clock \in Nat /\ trigger[t].last \in Nat /\ run[r].at \in Nat
      BY <1>0, <3>1, <3>2, Times
    <3> QED BY <3>1, <3>2, <3>3, <3>4
  <2> QED BY <2>1, <2>2 DEF AheadOK
<1>3. CASE UNCHANGED tick \/ FindBusy
  <2>1. /\ ~Enqueue
        /\ tick'.due = tick.due /\ tick'.now = tick.now
        /\ tick'.pc # "idle" => tick.pc # "idle"
    BY <1>0, <1>3 DEF FindBusy, Enqueue, NextTrigger, TypeOK, Tick
  <2>2. tick.due \subseteq Trigger BY <1>0 DEF TypeOK, Tick
  <2>3. ASSUME tick'.pc # "idle", NEW t \in tick.due, NEW r \in DueOf(t)'
        PROVE  run'[r].at < tick.now
    BY <1>0, <2>1, <2>2, <2>3, DueKept DEF AheadOK
  <2>4. ASSUME tick'.pc \notin {"idle", "active"},
               NEW t \in tick.due, t \notin tick'.busy, NEW r \in DueOf(t)'
        PROVE  ~Live(r)'
    <3>1. r \in DueOf(t) /\ (Live(r)' => Live(r))
      BY <2>1, <2>2, DueKept
    <3>2. CASE UNCHANGED tick BY <1>0, <2>4, <3>1, <3>2 DEF AheadOK
    <3>3. CASE FindBusy
      <4>1. tick'.busy = Busy BY <1>0, <3>3 DEF FindBusy, TypeOK, Tick
      <4> QED BY <2>2, <2>4, <3>1, <4>1 DEF Busy, DueOf, Live
    <3> QED BY <1>3, <3>2, <3>3
  <2> QED BY <2>1, <2>3, <2>4 DEF AheadOK
<1>4. CASE /\ tick.pc \notin {"idle", "active"}
           /\ tick'.pc \notin {"idle", "active"}
           /\ tick'.due \subseteq tick.due
           /\ tick'.busy = tick.busy /\ tick'.now = tick.now
           /\ Enqueue => tick.trigger \notin tick'.due
  <2>1. tick.due \subseteq Trigger BY <1>0 DEF TypeOK, Tick
  <2>2. ASSUME NEW t \in tick'.due, NEW r \in DueOf(t)'
        PROVE  /\ run'[r].at < tick.now
               /\ t \notin tick.busy => ~Live(r)'
    <3>1. t \in Trigger /\ t \in tick.due BY <1>4, <2>1
    <3>2. /\ r \in DueOf(t) /\ run'[r].at = run[r].at
          /\ Live(r)' => Live(r)
      BY <1>4, <2>2, <3>1, DueKept, DueAdded
    <3> QED BY <1>0, <1>4, <3>1, <3>2 DEF AheadOK
  <2> QED BY <1>4, <2>2 DEF AheadOK
<1> QED BY <1>1, <1>2, <1>3, <1>4, TickMoves

LEMMA FiresOnceKept == ASSUME IInv, [Next]_vars PROVE FiresOnce'
<1> SUFFICES ASSUME NEW t \in Trigger, NEW r \in DueOf(t)', NEW s \in DueOf(t)',
                    r # s
             PROVE  run'[r].at # run'[s].at /\ ~(Live(r)' /\ Live(s)')
  BY DEF FiresOnce
<1>0. TypeOK /\ FiresOnce BY DEF IInv
<1>1. CASE ~Enqueue BY <1>0, <1>1, DueKept DEF FiresOnce
<1>2. CASE Enqueue
  <2>1. run' = run /\ \A q \in Run : run[q].at \in Nat
    BY <1>0, <1>2, DueAdded, Times
  <2>2. tick.now \in Nat BY <1>0, Times
  <2>3. ASSUME NEW q \in DueOf(t), t = tick.trigger, Live(q)' => Live(q)
        PROVE  run[q].at # run[tick.run].at /\ ~Live(q)'
    BY <1>2, <2>1, <2>2, <2>3, EnqueueLast DEF DueOf
  <2> QED BY <1>0, <1>2, <2>1, <2>3, DueAdded DEF FiresOnce
<1> QED BY <1>1, <1>2

---------------------------------------------------------------------------
(* The theorems *)

LEMMA InvInit == Init => IInv
<1> SUFFICES ASSUME Init PROVE IInv OBVIOUS
<1>1. TypeOK BY TypeInit
<1>2. /\ \A r \in Run : run[r].status = "absent" /\ task[r].status = "absent"
      /\ \A a \in Actor : hand[a].pc = "idle" /\ hand[a].conversation = Nothing
      /\ \A c \in Conversation : conversation[c] = Nothing
      /\ tick.pc = "idle" /\ route = Nothing
  BY DEF Init, NoRun, NoTask, Idle, NoTick
<1>3. RowsOK /\ RouteOK /\ TickOK
  BY <1>2 DEF RowsOK, RouteOK, TickOK, Queued, Exists
<1>4. HandsOK BY <1>2 DEF HandsOK, Holds, At, Dropping, Mine
<1>5. ChatsOK BY <1>2 DEF ChatsOK
<1>6. NoneLeftRunning BY <1>2 DEF NoneLeftRunning
<1>7. TimeOK
  <2>1. \A t \in Trigger : trigger[t].last = 0 BY DEF Init
  <2>2. clock = 0 BY DEF Init
  <2> QED BY <1>2, <2>1, <2>2 DEF TimeOK
<1>8. \A t \in Trigger : DueOf(t) = {} BY <1>2 DEF DueOf
<1>9. PastOK /\ AheadOK /\ FiresOnce
  BY <1>2, <1>8 DEF PastOK, AheadOK, FiresOnce
<1> QED BY <1>1, <1>3, <1>4, <1>5, <1>6, <1>7, <1>9 DEF IInv

LEMMA InvNext == IInv /\ [Next]_vars => IInv'
<1> SUFFICES ASSUME IInv, [Next]_vars PROVE IInv' OBVIOUS
<1> QED BY TypeKept, RowsKept, RouteKept, TickKept, HandsKept, ChatsKept,
           NoneLeftKept, TimeKept, PastKept, AheadKept, FiresOnceKept
        DEF IInv

LEMMA InvHolds == Spec => []IInv
BY InvInit, InvNext, PTL DEF Spec

(* Every variable keeps to the rows and the cursors that the code has.     *)
THEOREM TypeCorrect == Spec => []TypeOK
<1>1. IInv => TypeOK BY DEF IInv
<1> QED BY <1>1, InvHolds, PTL

(* A minute of a trigger's cron starts its agent at most once, and never   *)
(* while an earlier one is in the queue: whatever order the tick's         *)
(* statements, run-now, edits and the handler take, and wherever a         *)
(* statement fails or a process dies.                                      *)
THEOREM FiresOnceHolds == Spec => []FiresOnce
<1>1. IInv => FiresOnce BY DEF IInv
<1> QED BY <1>1, InvHolds, PTL

(* The handler and the requests that show a run, however many, leave it    *)
(* with the one conversation that its row names.                           *)
THEOREM OneConversationHolds == Spec => []OneConversation
<1>1. IInv => OneConversation
  <2> SUFFICES ASSUME IInv PROVE OneConversation OBVIOUS
  <2>1. HandsOK /\ ChatsOK BY DEF IInv
  <2>2. ASSUME NEW e \in Exec, At(e, "execute"), Mine(e) # Nothing
        PROVE  run[Here(e)].conversation = Mine(e)
    BY <2>1, <2>2 DEF HandsOK, Holds, Actor
  <2> QED BY <2>1, <2>2 DEF OneConversation, ChatsOK, Accounted, Dropping
<1> QED BY <1>1, InvHolds, PTL

(* No task is done whose run is still running.                             *)
THEOREM NoneLeftRunningHolds == Spec => []NoneLeftRunning
<1>1. IInv => NoneLeftRunning BY DEF IInv
<1> QED BY <1>1, InvHolds, PTL
=============================================================================
