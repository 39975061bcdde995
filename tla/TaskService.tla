----------------------------- MODULE TaskService -----------------------------
(***************************************************************************)
(* What the task queue promises to the code that enqueues: a task that is  *)
(* open is executed by at most one handler invocation at a time, as often  *)
(* as it takes, and once closed it is never executed again.  Processes,    *)
(* leases, attempts, lanes and statements do not appear.                   *)
(***************************************************************************)
CONSTANTS
    Task,      \* identities of tasks
    Reusable,  \* the tasks among them that may be opened afresh once closed
    Executor   \* handler invocations

VARIABLES
    stage,     \* stage[t]: "none", "open" or "closed"
    holders    \* holders[t]: the invocations that execute t

vars == <<stage, holders>>

TypeOK ==
    /\ stage \in [Task -> {"none", "open", "closed"}]
    /\ holders \in [Task -> SUBSET Executor]

Init ==
    /\ stage = [t \in Task |-> "none"]
    /\ holders = [t \in Task |-> {}]

(* Each disjunct says what may happen to one task in a step. *)
Submit(t) ==
    /\ \/ stage[t] = "none"
       \/ stage[t] = "closed" /\ t \in Reusable
    /\ holders[t] = {}
    /\ stage'[t] = "open"
    /\ holders'[t] = {}

Begin(t) ==
    /\ stage[t] = "open"
    /\ holders[t] = {}
    /\ stage'[t] = "open"
    /\ \E e \in Executor : holders'[t] = {e}

(* The invocation fails, or dies with its process: the task stays open. *)
GiveUp(t) ==
    /\ stage[t] = "open"
    /\ stage'[t] = "open"
    /\ holders'[t] = {}

(* The outcome is recorded, by the invocation that has it or, for a task   *)
(* that nobody executes any more, on its behalf.                           *)
Close(t) ==
    /\ stage[t] = "open"
    /\ stage'[t] = "closed"
    /\ holders'[t] = {}

Idle(t) == stage'[t] = stage[t] /\ holders'[t] = holders[t]

(* A statement or a crash may affect several tasks at once. *)
Next ==
    /\ stage' \in [Task -> {"none", "open", "closed"}]
    /\ holders' \in [Task -> SUBSET Executor]
    /\ \A t \in Task : Idle(t) \/ Submit(t) \/ Begin(t) \/ GiveUp(t) \/ Close(t)

Spec == Init /\ [][Next]_vars

(* Nothing holds a closed task: it cannot be executed a second time, nor   *)
(* can an invocation outlive the outcome that was recorded for it.         *)
ClosedIsUnheld == \A t \in Task : stage[t] = "closed" => holders[t] = {}

(* No task has two executions at once. *)
Exclusive ==
    \A t \in Task : \A d, e \in holders[t] : d = e
=============================================================================
