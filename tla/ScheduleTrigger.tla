-------------------------- MODULE ScheduleTrigger ---------------------------
(***************************************************************************)
(* Scheduled triggers: the tick that finds the due ones and starts a run   *)
(* of each, the run-now request, the handler that executes the agent of a  *)
(* run, and the chat conversation of a run, which the handler (of a        *)
(* trigger in a project) and the request that shows a run both create.     *)
(*                                                                         *)
(* Every SQL statement is one action.  Time is the number of minutes at    *)
(* which the triggers' cron fires.  How the queue delivers a task is       *)
(* module TaskQueue's subject: here the tick is one execution at a time,   *)
(* and a run's task is delivered until its attempts are used up, and again *)
(* under a stalled execution, which may still fail or complete it later.   *)
(* What a conversation says is left out.                                   *)
(***************************************************************************)
EXTENDS Integers, FiniteSets

CONSTANTS
    Trigger,      \* schedule_triggers
    Scoped,       \* those that belong to a project
    Exec,         \* executions of the run handler alive at once
    Viewer,       \* requests that show a run, alive at once
    MaxRuns,      \* bound: runs that are ever started
    MaxChats,     \* bound: conversations there are at once
    MaxTime,      \* bound: minutes
    MaxAttempts,  \* attempts of a task, unless a late failure adds some ...
    MaxTried,     \* bound: ... and times that it is delivered at all
    Faults,       \* sorts of events the environment injects ...
    MaxFaults     \* ... and how many of them

Run == 1..MaxRuns
Conversation == 1..MaxChats
Nothing == 0 \* no trigger, no run, no conversation
FaultKind == {"crash", "error", "stall", "edit", "manual"}
Actor == Exec \cup Viewer

ASSUME ScheduleAssumption ==
    /\ Scoped \subseteq Trigger
    /\ Exec \cap Viewer = {}
    /\ Nothing \notin Trigger
    /\ {MaxRuns, MaxChats, MaxTime, MaxAttempts, MaxTried} \subseteq Nat
    /\ Faults \subseteq FaultKind /\ MaxFaults \in Nat

VARIABLES
    clock,        \* minutes gone by
    trigger,      \* trigger[t]: its state, and last_executed_at
    run,          \* run[r]: a row of schedule_trigger_runs
    task,         \* task[r]: the schedule_trigger_run_execute task of run r
    conversation, \* conversation[c]: the run it was made for; Nothing: no row
    tick,         \* handleCheckDueScheduleTriggers between two statements
    route,        \* the run-now request between two statements
    hand,         \* hand[a]: an execution, or a request that shows a run
    stray,        \* history: conversations whose creator failed before linking
    faults        \* events still to be injected

vars == <<clock, trigger, run, task, conversation, tick, route, hand, stray,
          faults>>

Maybe(S) == S \cup {Nothing}

(* "paused": its project is soft-deleted; "orphan": its agent is.          *)
TriggerRow == [state : {"on", "off", "paused", "orphan", "gone"},
               last : 0..MaxTime]
RunRow == [status : {"absent", "running", "success", "failed", "gone"},
           trigger : Maybe(Trigger), kind : {"due", "manual"},
           at : 0..MaxTime, conversation : Maybe(Conversation)]
(* "late": history; brought back after it had been completed, or dead.     *)
TaskRow == [status : {"absent", "pending", "processing", "completed", "dead"},
            tried : 0..MaxTried, late : BOOLEAN]

CreatePC == {"create", "link", "drop", "resolve"}
ExecPC == {"load", "trigger", "execute", "mark", "done"} \cup CreatePC
TickPC == {"idle", "active", "loop", "skip", "advance", "enqueue"}
Tick == [pc : TickPC, now : 0..MaxTime, due : SUBSET Trigger,
         busy : SUBSET Trigger, trigger : Maybe(Trigger), run : Maybe(Run),
         skipped : BOOLEAN]
Hand == [pc : {"idle"} \cup ExecPC, run : Maybe(Run),
         conversation : Maybe(Conversation), verdict : {"success", "failed"},
         attempt : 0..MaxTried]

TypeOK ==
    /\ clock \in 0..MaxTime
    /\ trigger \in [Trigger -> TriggerRow]
    /\ run \in [Run -> RunRow]
    /\ task \in [Run -> TaskRow]
    /\ conversation \in [Conversation -> Maybe(Run)]
    /\ tick \in Tick
    /\ route \in Maybe(Run)
    /\ hand \in [Actor -> Hand]
    /\ stray \subseteq Conversation
    /\ faults \in 0..MaxFaults

NoRun == [status |-> "absent", trigger |-> Nothing, kind |-> "manual", at |-> 0,
          conversation |-> Nothing]
NoTick == [pc |-> "idle", now |-> 0, due |-> {}, busy |-> {},
           trigger |-> Nothing, run |-> Nothing, skipped |-> FALSE]
Idle == [pc |-> "idle", run |-> Nothing, conversation |-> Nothing,
         verdict |-> "success", attempt |-> 0]
NoTask == [status |-> "absent", tried |-> 0, late |-> FALSE]

Init ==
    /\ clock = 0
    /\ trigger = [t \in Trigger |-> [state |-> "on", last |-> 0]]
    /\ run = [r \in Run |-> NoRun]
    /\ task = [r \in Run |-> NoTask]
    /\ conversation = [c \in Conversation |-> Nothing]
    /\ tick = NoTick
    /\ route = Nothing
    /\ hand = [a \in Actor |-> Idle]
    /\ stray = {}
    /\ faults = MaxFaults

---------------------------------------------------------------------------
(* Derived state *)

At(a, pc) == hand[a].pc = pc
Set(a, h) == hand' = [hand EXCEPT ![a] = h]
Goto(a, pc) == Set(a, [hand[a] EXCEPT !.pc = pc])
Leave(a) == Set(a, Idle)
Spend(f) == f \in Faults /\ faults > 0 /\ faults' = faults - 1

Active(r) == task[r].status \in {"pending", "processing"}
Stored(r) == run[r].status \notin {"absent", "gone"}

(* Ids are handed out in order. *)
NewRun(r) == /\ run[r].status = "absent"
             /\ \A s \in Run : s < r => run[s].status # "absent"

(* The cron has fired since the last execution; many times count once.     *)
Due == {t \in Trigger : trigger[t].state = "on" /\ trigger[t].last < clock}

(* findActivePayloadValues: triggers with a pending or processing task.    *)
Busy == {t \in Trigger : \E r \in Run : Active(r) /\ run[r].trigger = t}

Started(t, kind, at) == [NoRun EXCEPT !.status = "running", !.trigger = t,
                                      !.kind = kind, !.at = at]
Enqueued(r) == [task EXCEPT ![r].status = "pending"]

(* markCompleted: only a running run is completed. *)
Completed(r, status) ==
    [run EXCEPT ![r].status = IF @ = "running" THEN status ELSE @]

---------------------------------------------------------------------------
(* handleCheckDueScheduleTriggers *)

Minute ==
    /\ clock < MaxTime
    /\ clock' = clock + 1
    /\ UNCHANGED <<trigger, run, task, conversation, tick, route, hand, stray,
                   faults>>

FindDue ==
    /\ tick.pc = "idle"
    /\ Due # {}
    /\ \E r \in Run : NewRun(r) \* bound: MaxRuns
    /\ tick' = [NoTick EXCEPT !.pc = "active", !.now = clock, !.due = Due]
    /\ UNCHANGED <<clock, trigger, run, task, conversation, route, hand, stray,
                   faults>>

(* Mutant: a trigger's task in flight is not looked for. *)
FindBusy_None ==
    /\ tick.pc = "active"
    /\ tick' = [tick EXCEPT !.pc = "loop"]
    /\ UNCHANGED <<clock, trigger, run, task, conversation, route, hand, stray,
                   faults>>

(* Once, for all the due triggers. *)
FindBusy ==
    /\ tick.pc = "active"
    /\ tick' = [tick EXCEPT !.pc = "loop", !.busy = Busy]
    /\ UNCHANGED <<clock, trigger, run, task, conversation, route, hand, stray,
                   faults>>

(* The INSERT of a run; a deleted trigger's violates the foreign key.      *)
StartDue(t, r) ==
    /\ tick.pc = "loop"
    /\ t \in tick.due
    /\ NewRun(r)
    /\ trigger[t].state # "gone"
    /\ run' = [run EXCEPT ![r] = Started(t, "due", tick.now)]
    /\ tick' = [tick EXCEPT !.pc = IF t \in tick.busy THEN "skip" ELSE "advance",
                            !.trigger = t, !.run = r, !.skipped = t \in tick.busy]
    /\ UNCHANGED <<clock, trigger, task, conversation, route, hand, stray, faults>>

NextTrigger(t) ==
    [tick EXCEPT !.pc = "loop", !.due = @ \ {t}, !.trigger = Nothing,
                 !.run = Nothing, !.skipped = FALSE]

CannotStart(t) ==
    /\ tick.pc = "loop"
    /\ t \in tick.due
    /\ \/ trigger[t].state = "gone" /\ UNCHANGED faults
       \/ Spend("error")
    /\ tick' = NextTrigger(t)
    /\ UNCHANGED <<clock, trigger, run, task, conversation, route, hand, stray>>

(* The previous run is still in progress: this one fails at once. *)
Skip ==
    /\ tick.pc = "skip"
    /\ run' = Completed(tick.run, "failed")
    /\ tick' = [tick EXCEPT !.pc = "advance"]
    /\ UNCHANGED <<clock, trigger, task, conversation, route, hand, stray, faults>>

(* markExecuted: last_executed_at becomes the tick's `now`. *)
Advanced == [trigger EXCEPT ![tick.trigger].last = tick.now]

Advance ==
    /\ tick.pc = "advance"
    /\ trigger' = Advanced
    /\ tick' = IF tick.skipped THEN NextTrigger(tick.trigger)
                               ELSE [tick EXCEPT !.pc = "enqueue"]
    /\ UNCHANGED <<clock, run, task, conversation, route, hand, stray, faults>>

Enqueue ==
    /\ tick.pc = "enqueue"
    /\ task' = Enqueued(tick.run)
    /\ tick' = NextTrigger(tick.trigger)
    /\ UNCHANGED <<clock, trigger, run, conversation, route, hand, stray, faults>>

(* A statement on one trigger throws: it is logged, and the next one is up. *)
TickThrows ==
    /\ tick.pc \in {"skip", "advance", "enqueue"}
    /\ Spend("error")
    /\ tick' = NextTrigger(tick.trigger)
    /\ UNCHANGED <<clock, trigger, run, task, conversation, route, hand, stray>>

TickEnds ==
    /\ tick.pc = "loop"
    /\ tick.due = {}
    /\ tick' = NoTick
    /\ UNCHANGED <<clock, trigger, run, task, conversation, route, hand, stray,
                   faults>>

(* The process dies, or the handler throws before its loop. *)
TickDies ==
    /\ tick.pc # "idle"
    /\ \/ Spend("crash")
       \/ tick.pc = "active" /\ Spend("error")
    /\ tick' = NoTick
    /\ UNCHANGED <<clock, trigger, run, task, conversation, route, hand, stray>>

---------------------------------------------------------------------------
(* Requests: run-now, changes to a trigger, its project or its agent *)

(* A paused trigger, or one without an agent, is not found. *)
Found(t) == trigger[t].state \in {"on", "off"}

RunNow(t, r) ==
    /\ route = Nothing
    /\ Found(t)
    /\ NewRun(r)
    /\ Spend("manual")
    /\ run' = [run EXCEPT ![r] = Started(t, "manual", 0)]
    /\ route' = r
    /\ UNCHANGED <<clock, trigger, task, conversation, tick, hand, stray>>

EnqueueNow ==
    /\ route # Nothing
    /\ task' = Enqueued(route)
    /\ route' = Nothing
    /\ UNCHANGED <<clock, trigger, run, conversation, tick, hand, stray, faults>>

RunNowFails ==
    /\ route # Nothing
    /\ Spend("error") \/ Spend("crash")
    /\ route' = Nothing
    /\ UNCHANGED <<clock, trigger, run, task, conversation, tick, hand, stray>>

Switch(t, state) == trigger' = [trigger EXCEPT ![t].state = state]

(* disable; the project is soft-deleted; the agent is. *)
Suspend(t) ==
    /\ trigger[t].state = "on"
    /\ Spend("edit")
    /\ \/ Switch(t, "off")
       \/ t \in Scoped /\ Switch(t, "paused")
       \/ Switch(t, "orphan")
    /\ UNCHANGED <<clock, run, task, conversation, tick, route, hand, stray>>

(* enable, or the agent is restored: last_executed_at stays. *)
Resume(t) ==
    /\ trigger[t].state \in {"off", "orphan"}
    /\ Switch(t, "on")
    /\ UNCHANGED <<clock, run, task, conversation, tick, route, hand, stray,
                   faults>>

(* The project is restored: last_executed_at is now. *)
Restore(t) ==
    /\ trigger[t].state = "paused"
    /\ trigger' = [trigger EXCEPT ![t] = [state |-> "on", last |-> clock]]
    /\ UNCHANGED <<clock, run, task, conversation, tick, route, hand, stray,
                   faults>>

(* The rows of its runs go with it. *)
Delete(t) ==
    /\ Found(t)
    /\ Spend("edit")
    /\ Switch(t, "gone")
    /\ run' = [r \in Run |-> IF Stored(r) /\ run[r].trigger = t
                             THEN [run[r] EXCEPT !.status = "gone"] ELSE run[r]]
    /\ UNCHANGED <<clock, task, conversation, tick, route, hand, stray>>

---------------------------------------------------------------------------
(* createAndLinkRunConversation, of the handler and of the request that    *)
(* shows a run *)

Here(a) == hand[a].run
Mine(a) == hand[a].conversation

(* The run is going to be marked as failed. *)
Fails(e) == Set(e, [hand[e] EXCEPT !.pc = "mark", !.verdict = "failed",
                                   !.conversation = Nothing])

(* What createAndLinkRunConversation returns, or throws, to its caller.    *)
Returns(a, c) ==
    IF a \in Exec THEN Set(a, [hand[a] EXCEPT !.pc = "execute", !.conversation = c])
                  ELSE Leave(a)
Raises(a) == IF a \in Exec THEN Fails(a) ELSE Leave(a)

Unused(c) == conversation[c] = Nothing /\ \A a \in Actor : Mine(a) # c
NewConversation(c) == /\ Unused(c)
                      /\ \A d \in Conversation : d < c => ~Unused(d)

Create(a, c) ==
    /\ At(a, "create")
    /\ trigger[run[Here(a)].trigger].state # "orphan"
    /\ NewConversation(c)
    /\ conversation' = [conversation EXCEPT ![c] = Here(a)]
    /\ Set(a, [hand[a] EXCEPT !.pc = "link", !.conversation = c])
    /\ UNCHANGED <<clock, trigger, run, task, tick, route, stray, faults>>

(* The agent is gone. *)
CannotCreate(a) ==
    /\ At(a, "create")
    /\ trigger[run[Here(a)].trigger].state = "orphan"
    /\ Raises(a)
    /\ UNCHANGED <<clock, trigger, run, task, conversation, tick, route, stray,
                   faults>>

(* Mutant: whoever comes last is linked. *)
Linkable_Always(r) == Stored(r)

(* The condition of setChatConversationId's UPDATE. *)
Linkable(r) == Stored(r) /\ run[r].conversation = Nothing

Link(a) ==
    /\ At(a, "link")
    /\ IF Linkable(Here(a))
       THEN /\ run' = [run EXCEPT ![Here(a)].conversation = Mine(a)]
            /\ Returns(a, Mine(a))
       ELSE /\ Goto(a, "drop")
            /\ UNCHANGED run
    /\ UNCHANGED <<clock, trigger, task, conversation, tick, route, stray, faults>>

(* The loser's conversation is deleted for good. *)
Drop(a) ==
    /\ At(a, "drop")
    /\ conversation' = [conversation EXCEPT ![Mine(a)] = Nothing]
    /\ Set(a, [hand[a] EXCEPT !.pc = "resolve", !.conversation = Nothing])
    /\ UNCHANGED <<clock, trigger, run, task, tick, route, stray, faults>>

(* The conversation that the run's row names. *)
Linked(r) == {c \in Conversation : Stored(r) /\ run[r].conversation = c}

Resolve(a) ==
    /\ At(a, "resolve")
    /\ \/ \E c \in Linked(Here(a)) : Returns(a, c)
       \/ Linked(Here(a)) = {} /\ Raises(a)
    /\ UNCHANGED <<clock, trigger, run, task, conversation, tick, route, stray,
                   faults>>

(* What a failing creator leaves behind. *)
Abandoned(a) == IF hand[a].pc \in {"link", "drop"} THEN {Mine(a)} ELSE {}

CreateThrows(a) ==
    /\ hand[a].pc \in CreatePC
    /\ Spend("error")
    /\ Raises(a)
    /\ stray' = stray \cup Abandoned(a)
    /\ UNCHANGED <<clock, trigger, run, task, conversation, tick, route>>

(* ensureRunConversation, for a run without a conversation.                *)
Open(v, r) ==
    /\ At(v, "idle")
    /\ Stored(r)
    /\ Found(run[r].trigger)
    /\ Linked(r) = {}
    /\ Set(v, [Idle EXCEPT !.pc = "create", !.run = r])
    /\ UNCHANGED <<clock, trigger, run, task, conversation, tick, route, stray,
                   faults>>

---------------------------------------------------------------------------
(* handleScheduleTriggerRunExecution *)

Deliver(e, r) ==
    /\ At(e, "idle")
    /\ task[r].status = "pending"
    /\ task[r].tried < MaxTried
    /\ task' = [task EXCEPT ![r].status = "processing", ![r].tried = @ + 1]
    /\ Set(e, [Idle EXCEPT !.pc = "load", !.run = r,
                           !.attempt = task[r].tried + 1])
    /\ UNCHANGED <<clock, trigger, run, conversation, tick, route, stray, faults>>

(* The stuck sweep finds the row of an execution whose process has died,   *)
(* or has stalled for long.                                                *)
Sweep(r) ==
    /\ task[r].status = "processing"
    /\ IF \E e \in Exec : Here(e) = r /\ hand[e].attempt = task[r].tried
       THEN Spend("stall")
       ELSE UNCHANGED faults
    /\ task' = [task EXCEPT ![r].status =
                   IF task[r].tried >= MaxAttempts THEN "dead" ELSE "pending"]
    /\ UNCHANGED <<clock, trigger, run, conversation, tick, route, hand, stray>>

Load(e) ==
    /\ At(e, "load")
    /\ Goto(e, IF run[Here(e)].status = "running" THEN "trigger" ELSE "done")
    /\ UNCHANGED <<clock, trigger, run, task, conversation, tick, route, stray,
                   faults>>

(* The trigger is read: without it (or its agent) the run fails, as it     *)
(* does when the actor is gone or may not use the agent.  Otherwise a run  *)
(* of a project gets its conversation first.                               *)
LoadTrigger(e) ==
    /\ At(e, "trigger")
    /\ LET t == run[Here(e)].trigger
       IN  \/ Fails(e)
          \/ /\ trigger[t].state \notin {"orphan", "gone"}
             /\ Goto(e, IF t \in Scoped THEN "create" ELSE "execute")
    /\ UNCHANGED <<clock, trigger, run, task, conversation, tick, route, stray,
                   faults>>

(* executeA2AMessage, which may take any time. *)
Execute(e) ==
    /\ At(e, "execute")
    /\ \/ Fails(e)
       \/ Set(e, [hand[e] EXCEPT !.pc = "mark", !.conversation = Nothing])
    /\ UNCHANGED <<clock, trigger, run, task, conversation, tick, route, stray,
                   faults>>

(* Mutant: only a success is recorded. *)
Mark_Success(e) ==
    /\ At(e, "mark")
    /\ run' = IF hand[e].verdict = "success" THEN Completed(Here(e), "success")
                                             ELSE run
    /\ Set(e, [hand[e] EXCEPT !.pc = "done", !.verdict = "success"])
    /\ UNCHANGED <<clock, trigger, task, conversation, tick, route, stray, faults>>

(* markCompleted; what follows is best effort, and never throws.           *)
Mark(e) ==
    /\ At(e, "mark")
    /\ run' = Completed(Here(e), hand[e].verdict)
    /\ Set(e, [hand[e] EXCEPT !.pc = "done", !.verdict = "success"])
    /\ UNCHANGED <<clock, trigger, task, conversation, tick, route, stray, faults>>

(* processTask completes the task, by id only. *)
Done(e) ==
    /\ At(e, "done")
    /\ task' = [task EXCEPT ![Here(e)].status = "completed"]
    /\ Leave(e)
    /\ UNCHANGED <<clock, trigger, run, conversation, tick, route, stray, faults>>

(* The handler throws: the task, by id only, is pending again, or dead     *)
(* after the last attempt, by the count of this execution.                 *)
Failed(e) ==
    IF hand[e].attempt >= MaxAttempts
    THEN [task EXCEPT ![Here(e)].status = "dead"]
    ELSE [task EXCEPT ![Here(e)].status = "pending",
                      ![Here(e)].late = @ \/ ~Active(Here(e))]

HandlerThrows(e) ==
    /\ hand[e].pc \in {"load", "trigger", "mark", "done"}
    /\ Spend("error")
    /\ task' = Failed(e)
    /\ Leave(e)
    /\ UNCHANGED <<clock, trigger, run, conversation, tick, route, stray>>

Crash(a) ==
    /\ ~At(a, "idle")
    /\ Spend("crash")
    /\ Leave(a)
    /\ stray' = stray \cup Abandoned(a)
    /\ UNCHANGED <<clock, trigger, run, task, conversation, tick, route>>

---------------------------------------------------------------------------
(* The specification *)

TickStep == \/ FindBusy
            \/ \E t \in Trigger : CannotStart(t) \/ \E r \in Run : StartDue(t, r)
            \/ Skip \/ Advance \/ Enqueue \/ TickThrows \/ TickEnds \/ TickDies

CreateStep(a) == \/ \E c \in Conversation : Create(a, c)
                 \/ CannotCreate(a) \/ Link(a) \/ Drop(a) \/ Resolve(a)
                 \/ CreateThrows(a)

ExecStep(e) == \/ Load(e) \/ LoadTrigger(e) \/ Execute(e)
               \/ Mark(e) \/ Done(e) \/ HandlerThrows(e)

Request == \/ \E t \in Trigger : \/ \E r \in Run : RunNow(t, r)
                                 \/ Suspend(t) \/ Resume(t) \/ Restore(t)
                                 \/ Delete(t)
           \/ EnqueueNow \/ RunNowFails
           \/ \E v \in Viewer, r \in Run : Open(v, r)

Next == \/ Minute
        \/ FindDue
        \/ TickStep
        \/ Request
        \/ \E a \in Actor : CreateStep(a) \/ Crash(a)
        \/ \E e \in Exec : ExecStep(e) \/ \E r \in Run : Deliver(e, r)
        \/ \E r \in Run : Sweep(r)

Spec == Init /\ [][Next]_vars

---------------------------------------------------------------------------
(* Properties *)

DueOf(t) == {r \in Run : /\ run[r].kind = "due"
                         /\ run[r].trigger = t
                         /\ task[r].status # "absent"}

(* A task in the queue that no late failure has brought back. *)
Live(r) == Active(r) /\ ~task[r].late

(* A minute of a trigger's cron starts its agent once, and not while an    *)
(* earlier task of the cron is still in the queue (and was not brought     *)
(* back by an execution that fails after another has ended it), whichever  *)
(* statement of the tick fails or is the last one before a crash, and      *)
(* whatever happens to the trigger meanwhile.                              *)
FiresOnce ==
    \A t \in Trigger : \A r, s \in DueOf(t) : r # s =>
        /\ run[r].at # run[s].at
        /\ ~(Live(r) /\ Live(s))

(* A run ends up with one conversation: an agent works in the one that its *)
(* run's row names, and any other was left by a creator that failed, or is *)
(* about to be dropped by one that lost.                                   *)
OneConversation ==
    /\ \A e \in Exec : At(e, "execute") /\ Mine(e) # Nothing =>
          run[Here(e)].conversation = Mine(e)
    /\ \A c \in Conversation : conversation[c] # Nothing =>
          \/ run[conversation[c]].conversation = c
          \/ c \in stray
          \/ \E a \in Actor : hand[a].pc \in {"link", "drop"} /\ Mine(a) = c

(* The handler never finishes its task with the run still running: no      *)
(* early return, lost race or second execution leaves one that nobody      *)
(* will end.                                                               *)
NoneLeftRunning ==
    \A r \in Run : task[r].status = "completed" => run[r].status # "running"
=============================================================================
