---------------------------- MODULE ClusterLease ----------------------------
(***************************************************************************)
(* One row of `mcp_deployment_leases`, the mutual exclusion over one       *)
(* physical deployment, and the guard each withLease call works under.     *)
(* The actions here are the statements of the model class; the operations  *)
(* that run under a lease, and the time that passes, are in the modules    *)
(* that instantiate this one.                                              *)
(*                                                                         *)
(* A holder is one withLease call at a time: it has a fresh UUID each, and *)
(* a name here is used again only after its lease was released or lost.    *)
(***************************************************************************)
CONSTANTS
    Holder,   \* withLease calls
    Nobody    \* none of them

VARIABLES
    lease,    \* the row: who holds it, and whether expires_at lies ahead
    locked,   \* whose fenced mutation has the row locked FOR UPDATE
    guard     \* guard[h]: "owned" until the call is known to have lost it

NoLease == [holder |-> Nobody, live |-> FALSE]

TypeOK ==
    /\ lease \in [holder : Holder \cup {Nobody}, live : BOOLEAN]
    /\ locked \in Holder \cup {Nobody}
    /\ guard \in [Holder -> {"none", "owned", "fenced", "lost"}]

Init ==
    /\ lease = NoLease
    /\ locked = Nobody
    /\ guard = [h \in Holder |-> "none"]

Owns(h) == lease.holder = h /\ lease.live

(* isHeld: an expired row is available even before somebody replaces it. *)
Available == ~lease.live

(* Mutant: a contender does not wait behind the row lock. *)
Acquire_PastLock(h) ==
    /\ guard[h] = "none"
    /\ Available
    /\ lease' = [holder |-> h, live |-> TRUE]
    /\ guard' = [guard EXCEPT ![h] = "owned"]
    /\ UNCHANGED locked

(* Mutant: only a missing row is taken. *)
Acquire_NoTakeover(h) ==
    /\ guard[h] = "none"
    /\ locked = Nobody
    /\ lease = NoLease
    /\ lease' = [holder |-> h, live |-> TRUE]
    /\ guard' = [guard EXCEPT ![h] = "owned"]
    /\ UNCHANGED locked

(* tryAcquire: insert the row, or take over an expired one. *)
Acquire(h) ==
    /\ guard[h] = "none"
    /\ locked = Nobody
    /\ Available
    /\ lease' = [holder |-> h, live |-> TRUE]
    /\ guard' = [guard EXCEPT ![h] = "owned"]
    /\ UNCHANGED locked

(* tryAcquire writes nothing: a live row, or 250 ms behind its lock. *)
Held == ~Available \/ locked # Nobody

(* assertOwned and the renewal timer: a renewal that finds nothing to      *)
(* renew aborts the guard's signal.                                        *)
Assert(h) ==
    /\ guard[h] \in {"owned", "lost"}
    /\ guard' = [guard EXCEPT ![h] = IF Owns(h) THEN @ ELSE "lost"]
    /\ UNCHANGED <<lease, locked>>

(* runFencedMutation, up to its SELECT ... FOR UPDATE. *)
Fence(h) ==
    /\ guard[h] = "owned"
    /\ locked = Nobody
    /\ Owns(h)
    /\ locked' = h
    /\ guard' = [guard EXCEPT ![h] = "fenced"]
    /\ UNCHANGED lease

(* The SELECT finds the row expired or replaced. *)
FenceLost(h) ==
    /\ guard[h] \in {"owned", "lost"}
    /\ guard[h] = "owned" => ~Owns(h)
    /\ guard' = [guard EXCEPT ![h] = "lost"]
    /\ UNCHANGED <<lease, locked>>

(* The mutation is over and the transaction extends expires_at, whether or *)
(* not the row has expired under the lock.                                 *)
Commit(h) ==
    /\ guard[h] = "fenced"
    /\ guard' = [guard EXCEPT ![h] = "owned"]
    /\ locked' = Nobody
    /\ lease' = [lease EXCEPT !.live = TRUE]

(* The mutation throws. *)
Rollback(h) ==
    /\ guard[h] = "fenced"
    /\ guard' = [guard EXCEPT ![h] = "owned"]
    /\ locked' = Nobody
    /\ UNCHANGED lease

(* withLease's finally: the DELETE names the holder. *)
Release(h) ==
    /\ guard[h] \in {"owned", "lost"}
    /\ guard' = [guard EXCEPT ![h] = "none"]
    /\ lease' = IF lease.holder = h THEN NoLease ELSE lease
    /\ UNCHANGED locked

(* The DELETE throws: the row expires instead. *)
ReleaseFails(h) ==
    /\ guard[h] \in {"owned", "lost"}
    /\ guard' = [guard EXCEPT ![h] = "none"]
    /\ UNCHANGED <<lease, locked>>

(* A process dies: its timers and its database sessions with it. *)
Die(dead) ==
    /\ guard' = [h \in Holder |-> IF h \in dead THEN "none" ELSE guard[h]]
    /\ locked' = IF locked \in dead THEN Nobody ELSE locked
    /\ UNCHANGED lease

(* LEASE_TTL_SECONDS pass without a renewal. *)
Expire ==
    /\ lease.live
    /\ lease' = [lease EXCEPT !.live = FALSE]
    /\ UNCHANGED <<locked, guard>>

(* Nobody is left to renew it. *)
Abandoned == lease.holder # Nobody /\ guard[lease.holder] = "none"

---------------------------------------------------------------------------
(* A fenced mutation runs alone, and under the lease it was started with:  *)
(* no successor has acquired it, although it may have expired meanwhile.   *)
OneFence ==
    \A h \in Holder : guard[h] = "fenced" =>
        /\ lease.holder = h
        /\ \A k \in Holder : guard[k] = "fenced" => k = h
=============================================================================
