---------------------------- MODULE MCTaskQueue ----------------------------
(* Small instances of TaskQueue for TLC.  An id of a periodic row is       *)
(* reused once nothing refers to it, so a periodic type needs one id more  *)
(* than there are executions of it at once.                                *)
EXTENDS TaskQueue, TLC

CONSTANTS r1, r2, r3, r4

KindBatch == (r1 :> "batch")
KindPerm == (r1 :> "perm")
KindPeriodic == (r2 :> "periodic") @@ (r3 :> "periodic") @@ (r4 :> "periodic")
KindTwoPeriodic == (r2 :> "periodic") @@ (r3 :> "periodic")
KindMixed == KindBatch @@ KindPeriodic
KindMixedTwo == KindBatch @@ KindTwoPeriodic

OneSlot == [l \in Lane |-> 1]
TwoSlots == [l \in Lane |-> 2]

NoFault == [f \in FaultKind |-> 0]
CrashAndError == [NoFault EXCEPT !["crash"] = 1, !["error"] = 1]
OneCrash == [NoFault EXCEPT !["crash"] = 1]
PermFaults == [NoFault EXCEPT !["stop"] = 1, !["stall"] = 1,
                              !["supersede"] = 1]

(* Rows of the same kind are interchangeable. *)
Symmetric == Permutations(Worker) \cup Permutations(Exec)
             \cup UNION {Permutations({r \in Row : Kind[r] = k}) : k \in Kinds}
=============================================================================
