-------------------------- MODULE TaskService_proofs --------------------------
(* Proofs about TaskService, for all sets of tasks and of executors.       *)
EXTENDS TaskService, TLAPS

Promise == TypeOK /\ ClosedIsUnheld /\ Exclusive

LEMMA InitPromise == Init => Promise
BY DEF Init, Promise, TypeOK, ClosedIsUnheld, Exclusive

LEMMA StepPromise == Promise /\ [Next]_vars => Promise'
<1> SUFFICES ASSUME Promise, [Next]_vars PROVE Promise' OBVIOUS
<1> USE DEF Promise, TypeOK, ClosedIsUnheld, Exclusive
<1>1. CASE UNCHANGED vars BY <1>1 DEF vars
<1>2. CASE Next
  <2>1. TypeOK' BY <1>2 DEF Next
  <2>2. ASSUME NEW t \in Task
        PROVE  /\ stage'[t] = "closed" => holders'[t] = {}
               /\ \A d, e \in holders'[t] : d = e
    BY <1>2 DEF Next, Idle, Submit, Begin, GiveUp, Close
  <2> QED BY <2>1, <2>2
<1> QED BY <1>1, <1>2

(* Whoever enqueues may rely on it: no task is executed twice at once, and *)
(* nothing executes a task whose outcome is recorded.                      *)
THEOREM ServicePromise == Spec => [](ClosedIsUnheld /\ Exclusive)
<1>1. Promise => ClosedIsUnheld /\ Exclusive BY DEF Promise
<1> QED BY <1>1, InitPromise, StepPromise, PTL DEF Spec
=============================================================================
