-------------------------- MODULE Hibernation_proofs --------------------------
(***************************************************************************)
(* Proofs about Hibernation, for any set of replicas, of calls, any sorts  *)
(* and any number of faults.                                               *)
(*                                                                         *)
(* The argument.  A sweep reads the demand after it has acquired the       *)
(* lease, and what it reads says at once that no call was let through and  *)
(* that no wake is in flight (Demanded).  From then on, and for as long    *)
(* as the row names this sweep, no wake can get past the acquisition, so   *)
(* no call can be let through (Quiet).  A fenced mutation has the row      *)
(* locked, so the row still names it (Gates): the patch that puts the      *)
(* deployment to sleep is sent in a quiet state, whatever expired between. *)
(***************************************************************************)
EXTENDS Hibernation, TLAPS

(* The row is locked by the one fenced mutation, and names its holder. *)
LockHeld ==
    /\ \A h \in Holder : guard[h] = "fenced" <=> locked = h
    /\ locked # Nobody => lease.holder = locked

(* A side's place in its program says what it has of the lease. *)
SweepGate(p) ==
    /\ sweep[p] \in {"off", "try"} <=> guard[Sw(p)] = "none"
    /\ sweep[p] \in {"look", "patch", "commit"} <=> guard[Sw(p)] = "fenced"

WakeGate(p) ==
    /\ wake[p].pc \in {"off", "wait", "settle"} <=> guard[Wk(p)] = "none"
    /\ wake[p].pc \in {"read", "patch", "commit"} <=> guard[Wk(p)] = "fenced"

Gates == LockHeld /\ \A p \in Replica : SweepGate(p) /\ WakeGate(p)

(* A call that entered, and a wake, keep the usage row fresh; a call that  *)
(* waits for a wake waits for one that is in flight.                       *)
Demanded ==
    /\ Demand \/ Waking => fresh
    /\ \A c \in Call :
          /\ call[c].pc \notin {"off", "again"} => call[c].at \in Replica
          /\ call[c].pc = "join" => wake[call[c].at].pc # "off"

(* No call has been let through, and no wake will let one through before   *)
(* it has acquired the lease.                                              *)
Quiet ==
    /\ \A c \in Call : call[c].pc \notin {"connect", "flight"}
    /\ \A q \in Replica : \/ wake[q].pc \in {"off", "wait"}
                          \/ wake[q].pc = "settle" /\ wake[q].end # "ok"

Decided == {"check", "fence", "look", "patch", "commit"}

(* A sweep that has read the demand works in a quiet state while the row   *)
(* names it.                                                               *)
SweptQuietly ==
    \A p \in Replica : lease.holder = Sw(p) /\ sweep[p] \in Decided => Quiet

(* A patch that drops the annotation, and still applies, was made for a    *)
(* deployment with replicas.                                               *)
ReadsHold ==
    \A p \in Replica :
        /\ wake[p].pc = "patch" /\ wake[p].write # "begin" /\ Fits(Wk(p)) => obj.up
        /\ refresh[p] /\ Fits(Rf(p)) => obj.up

IInv == TypeOK /\ Gates /\ Demanded /\ SweptQuietly /\ ReadsHold

---------------------------------------------------------------------------
(* Typing *)

(* The parts an action is made of keep their variables well typed. *)
LEMMA HolderType ==
    ASSUME NEW p \in Replica
    PROVE  Sw(p) \in Holder /\ Wk(p) \in Holder
BY DEF Sw, Wk, Holder

LEMMA LeaseType ==
    ASSUME Lease!TypeOK, NEW h \in Holder,
           \/ Lease!Acquire(h) \/ Lease!Assert(h) \/ Lease!Fence(h)
           \/ Lease!FenceLost(h) \/ Lease!Commit(h) \/ Lease!Rollback(h)
           \/ Lease!Release(h) \/ Lease!ReleaseFails(h)
    PROVE  Lease!TypeOK'
<1> USE DEF Lease!TypeOK
<1>1. CASE Lease!Acquire(h) BY <1>1 DEF Lease!Acquire
<1>2. CASE Lease!Assert(h) BY <1>2 DEF Lease!Assert
<1>3. CASE Lease!Fence(h) BY <1>3 DEF Lease!Fence
<1>4. CASE Lease!FenceLost(h) BY <1>4 DEF Lease!FenceLost
<1>5. CASE Lease!Commit(h)
  <2>1. lease' \in [holder : Holder \cup {Nobody}, live : BOOLEAN]
    BY <1>5 DEF Lease!Commit
  <2> QED BY <1>5, <2>1 DEF Lease!Commit
<1>6. CASE Lease!Rollback(h) BY <1>6 DEF Lease!Rollback
<1>7. CASE Lease!Release(h) BY <1>7 DEF Lease!Release, Lease!NoLease
<1>8. CASE Lease!ReleaseFails(h) BY <1>8 DEF Lease!ReleaseFails
<1> QED BY <1>1, <1>2, <1>3, <1>4, <1>5, <1>6, <1>7, <1>8

LEMMA LeaseIdleType ==
    ASSUME Lease!TypeOK,
           \/ UNCHANGED gate \/ Lease!Expire
           \/ \E dead \in SUBSET Holder : Lease!Die(dead)
    PROVE  Lease!TypeOK'
BY DEF gate, Lease!Expire, Lease!Die, Lease!TypeOK

LEMMA ObservedType == ASSUME TypeOK, NEW p \in Replica PROVE Observed(p) \subseteq Cached
BY DEF Observed, Cached, TypeOK, Asleep, HalfAwake

LEMMA CacheType ==
    ASSUME TypeOK, NEW p \in Replica, NEW states \in SUBSET Cached, Cache(p, states)
    PROVE  cache' \in [Replica -> Cached]
BY DEF Cache, TypeOK

LEMMA SpendType == ASSUME TypeOK, NEW f, NEW p, Spend(f, p) PROVE faults' \in 0..MaxFaults
BY HibernationAssumption DEF Spend, TypeOK, HibernationAssumption

LEMMA SweepToType ==
    ASSUME TypeOK, NEW p \in Replica, NEW pc \in SweepPC, SweepTo(p, pc)
    PROVE  sweep' \in [Replica -> SweepPC]
BY DEF SweepTo, TypeOK

Wakes == [pc : WakePC, write : Write, end : WakeEnd]

LEMMA WakeToType ==
    ASSUME TypeOK, NEW p \in Replica,
           \/ \E pc \in WakePC : WakeTo(p, pc)
           \/ \E w \in Write : WakeDo(p, w)
           \/ \E end \in WakeEnd : WakeEnds(p, end)
           \/ WakeWaits(p)
    PROVE  wake' \in [Replica -> Wakes]
<1> wake \in [Replica -> Wakes] BY DEF TypeOK, Wakes
<1> NoWake \in Wakes BY DEF NoWake, Wakes, WakePC, Write, WakeEnd
<1>1. ASSUME NEW end \in WakeEnd, WakeEnds(p, end) PROVE wake' \in [Replica -> Wakes]
  <2> DEFINE ended == [NoWake EXCEPT !.pc = IF end = "ok" THEN "assert" ELSE "release",
                                     !.end = end]
  <2>1. ended \in Wakes BY DEF Wakes, WakePC
  <2>2. wake' = [wake EXCEPT ![p] = ended] BY <1>1 DEF WakeEnds
  <2> HIDE DEF ended
  <2> QED BY <2>1, <2>2
<1>2. CASE WakeWaits(p) BY <1>2 DEF WakeWaits, Wakes, WakePC
<1>3. CASE \/ \E pc \in WakePC : WakeTo(p, pc)
           \/ \E w \in Write : WakeDo(p, w)
  BY <1>3 DEF WakeTo, WakeDo, Wakes, WakePC
<1> QED BY <1>1, <1>2, <1>3

(* What no step writes keeps its type. *)
LEMMA ClusterType ==
    ASSUME TypeOK
    PROVE  /\ UNCHANGED cluster =>
                /\ obj' \in [up : BOOLEAN, marked : BOOLEAN, ready : BOOLEAN]
                /\ current' \subseteq {"sweep", "wake", "refresh"} \X Replica
BY DEF TypeOK, cluster

LEMMA LandType ==
    ASSUME TypeOK, NEW p \in Replica, SweepLands(p) \/ WakeLands(p)
    PROVE  /\ obj' \in [up : BOOLEAN, marked : BOOLEAN, ready : BOOLEAN]
           /\ current' \subseteq {"sweep", "wake", "refresh"} \X Replica
<1>1. CASE SweepLands(p) BY <1>1 DEF SweepLands, Sleep, Put, TypeOK
<1>2. CASE WakeLands(p) BY <1>2 DEF WakeLands, Put, TypeOK
<1> QED BY <1>1, <1>2

LEMMA SweepType ==
    ASSUME TypeOK, NEW p \in Replica, SweepPick(p) \/ SweepStep(p)
    PROVE  TypeOK'
<1> Sw(p) \in Holder /\ Lease!TypeOK BY HolderType DEF TypeOK
<1>1. CASE SweepPick(p)
  <2>1. Lease!TypeOK' BY <1>1, LeaseIdleType DEF SweepPick
  <2>2. cache' \in [Replica -> Cached]
    BY <1>1, ObservedType DEF SweepPick, TypeOK
  <2>3. sweep' \in [Replica -> SweepPC]
    BY <1>1, SweepToType DEF SweepPick, SweepPC, TypeOK
  <2> QED BY <1>1, <2>1, <2>2, <2>3 DEF SweepPick, TypeOK, cluster
<1>2. CASE SweepAcquire(p)
  <2>1. Lease!TypeOK' BY <1>2, LeaseType, LeaseIdleType DEF SweepAcquire
  <2>2. sweep' \in [Replica -> SweepPC]
    BY <1>2, SweepToType DEF SweepAcquire, SweepPC
  <2> QED BY <1>2, <2>1, <2>2 DEF SweepAcquire, TypeOK, cluster
<1>3. CASE SweepRead(p)
  <2>1. Lease!TypeOK' BY <1>3, LeaseIdleType DEF SweepRead
  <2>2. sweep' \in [Replica -> SweepPC]
    BY <1>3, SweepToType DEF SweepRead, SweepPC
  <2> QED BY <1>3, <2>1, <2>2 DEF SweepRead, TypeOK, cluster
<1>4. CASE SweepCheck(p)
  <2>1. Lease!TypeOK' BY <1>4, LeaseType DEF SweepCheck
  <2>2. sweep' \in [Replica -> SweepPC]
    BY <1>4, SweepToType DEF SweepCheck, SweepPC
  <2> QED BY <1>4, <2>1, <2>2 DEF SweepCheck, TypeOK, cluster
<1>5. CASE SweepFence(p)
  <2>1. Lease!TypeOK' BY <1>5, LeaseType DEF SweepFence
  <2>2. sweep' \in [Replica -> SweepPC]
    BY <1>5, SweepToType DEF SweepFence, SweepPC
  <2> QED BY <1>5, <2>1, <2>2 DEF SweepFence, TypeOK, cluster
<1>6. CASE SweepLook(p)
  <2>1. Lease!TypeOK' BY <1>6, LeaseType, LeaseIdleType DEF SweepLook
  <2>2. sweep' \in [Replica -> SweepPC]
    BY <1>6, SweepToType DEF SweepLook, SweepPC
  <2>3. cache' \in [Replica -> Cached] BY <1>6 DEF SweepLook, TypeOK, Cached
  <2>4. current' \subseteq {"sweep", "wake", "refresh"} \X Replica
    BY <1>6 DEF SweepLook, TypeOK, Sw
  <2> QED BY <1>6, <2>1, <2>2, <2>3, <2>4 DEF SweepLook, TypeOK
<1>7. CASE SweepPatch(p)
  <2>1. Lease!TypeOK' BY <1>7, LeaseType, LeaseIdleType DEF SweepPatch
  <2>2. sweep' \in [Replica -> SweepPC]
    BY <1>7, SweepToType DEF SweepPatch, SweepPC
  <2>3. faults' \in 0..MaxFaults
    BY <1>7, SpendType DEF SweepPatch, TypeOK
  <2>4. /\ obj' \in [up : BOOLEAN, marked : BOOLEAN, ready : BOOLEAN]
        /\ current' \subseteq {"sweep", "wake", "refresh"} \X Replica
    BY <1>7, LandType, ClusterType DEF SweepPatch
  <2> QED BY <1>7, <2>1, <2>2, <2>3, <2>4 DEF SweepPatch, TypeOK
<1>8. CASE SweepCommit(p)
  <2>1. Lease!TypeOK' BY <1>8, LeaseType DEF SweepCommit
  <2>2. sweep' \in [Replica -> SweepPC]
    BY <1>8, SweepToType DEF SweepCommit, SweepPC
  <2>3. cache' \in [Replica -> Cached] BY <1>8 DEF SweepCommit, TypeOK, Cached
  <2> QED BY <1>8, <2>1, <2>2, <2>3 DEF SweepCommit, TypeOK, cluster
<1>9. CASE SweepEnd(p)
  <2>1. Lease!TypeOK' BY <1>9, LeaseType DEF SweepEnd
  <2>2. sweep' \in [Replica -> SweepPC]
    BY <1>9, SweepToType DEF SweepEnd, SweepPC
  <2>3. faults' \in 0..MaxFaults BY <1>9, SpendType DEF SweepEnd, TypeOK
  <2> QED BY <1>9, <2>1, <2>2, <2>3 DEF SweepEnd, TypeOK, cluster
<1> QED BY <1>1, <1>2, <1>3, <1>4, <1>5, <1>6, <1>7, <1>8, <1>9 DEF SweepStep

LEMMA ProceedType ==
    ASSUME TypeOK, NEW p \in Replica, Proceed(p)
    PROVE  cache' \in [Replica -> Cached] /\ wake' \in [Replica -> Wakes]
<1>1. cache' \in [Replica -> Cached]
  BY ObservedType, CacheType DEF Proceed, Cached
<1>2. wake' \in [Replica -> Wakes]
  BY WakeToType DEF Proceed, WakePC, Write, WakeEnd
<1> QED BY <1>1, <1>2

LEMMA SupersededType ==
    ASSUME TypeOK, NEW p \in Replica, Superseded(p)
    PROVE  cache' \in [Replica -> Cached] /\ wake' \in [Replica -> Wakes]
<1>1. wake[p].write \in Write BY DEF TypeOK
<1>2. CASE wake[p].write = "begin"
  <2>1. Cache(p, Observed(p)) /\ WakeWaits(p) BY <1>2 DEF Superseded
  <2> QED BY <2>1, ObservedType, CacheType, WakeToType DEF WakePC
<1>3. CASE wake[p].write = "finish"
  <2>1. Proceed(p) BY <1>3 DEF Superseded
  <2> QED BY <2>1, ProceedType
<1>4. CASE wake[p].write = "complete"
  <2>1. PICK s \in Observed(p) :
            Cache(p, {s}) /\ WakeEnds(p, IF s = "running" THEN "ok" ELSE "retry")
    BY <1>4 DEF Superseded
  <2>2. {s} \in SUBSET Cached BY ObservedType
  <2> QED BY <2>1, <2>2, CacheType, WakeToType DEF WakeEnd
<1> QED BY <1>1, <1>2, <1>3, <1>4 DEF Write

Calls == [pc : CallPC, at : Replica \cup {Nobody}]

(* What the end of a wake does to a call. *)
LEMMA SettleMoves ==
    ASSUME TypeOK, NEW p \in Replica, WakeSettle(p)
    PROVE  /\ call' \in [Call -> Calls]
           /\ \A c \in Call :
                 \/ /\ call'[c] = call[c]
                    /\ ~(call[c].pc = "join" /\ call[c].at = p)
                 \/ /\ call[c].pc = "join" /\ call[c].at = p
                    /\ \/ call'[c].pc = "again"
                       \/ call'[c].pc = "enter" /\ call'[c].at = p
                       \/ /\ call'[c].pc = "connect" /\ call'[c].at = p
                          /\ wake[p].end = "ok"
<1> call \in [Call -> Calls] BY DEF TypeOK, Calls
<1> wake[p].end \in WakeEnd BY DEF TypeOK
<1>1. PICK outcome \in [Call -> Outcomes(p)] :
          call' = [c \in Call |-> IF call[c].pc = "join" /\ call[c].at = p
                                  THEN outcome[c] ELSE call[c]]
  BY DEF WakeSettle
<1>2. \A o \in Outcomes(p) :
          /\ o \in Calls
          /\ \/ o.pc = "again"
             \/ o.pc = "enter" /\ o.at = p
             \/ o.pc = "connect" /\ o.at = p /\ wake[p].end = "ok"
  BY DEF Outcomes, Answered, Calls, CallPC, WakeEnd
<1>3. \A c \in Call : outcome[c] \in Outcomes(p) BY <1>1
<1> QED BY <1>1, <1>2, <1>3

LEMMA WakeType ==
    ASSUME TypeOK, NEW p \in Replica, WakeAcquire(p) \/ WakeStep(p)
    PROVE  TypeOK'
<1> Wk(p) \in Holder /\ Lease!TypeOK BY HolderType DEF TypeOK
<1> wake \in [Replica -> Wakes] BY DEF TypeOK, Wakes
<1>1. CASE WakeAcquire(p)
  <2>1. Lease!TypeOK' BY <1>1, LeaseType, LeaseIdleType DEF WakeAcquire
  <2>2. wake' \in [Replica -> Wakes]
    BY <1>1, WakeToType DEF WakeAcquire, WakePC, WakeEnd, Wakes
  <2>3. faults' \in 0..MaxFaults BY <1>1, SpendType DEF WakeAcquire, TypeOK
  <2> QED BY <1>1, <2>1, <2>2, <2>3 DEF WakeAcquire, TypeOK, cluster, Wakes
<1>2. CASE WakeLook(p)
  <2>1. Lease!TypeOK' BY <1>2, LeaseIdleType DEF WakeLook
  <2>2. cache' \in [Replica -> Cached]
    BY <1>2, ProceedType, CacheType DEF WakeLook, Cached, TypeOK
  <2>3. wake' \in [Replica -> Wakes]
    BY <1>2, ProceedType, WakeToType DEF WakeLook, Write, WakeEnd
  <2> QED BY <1>2, <2>1, <2>2, <2>3 DEF WakeLook, TypeOK, cluster, Wakes
<1>3. CASE WakeFence(p)
  <2>1. Lease!TypeOK' BY <1>3, LeaseType DEF WakeFence
  <2>2. wake' \in [Replica -> Wakes]
    BY <1>3, WakeToType DEF WakeFence, WakePC, WakeEnd
  <2>3. cache' \in [Replica -> Cached]
    BY <1>3, CacheType DEF WakeFence, Cached, TypeOK
  <2> QED BY <1>3, <2>1, <2>2, <2>3 DEF WakeFence, TypeOK, cluster, Wakes
<1>4. CASE WakeRead(p)
  <2>1. Lease!TypeOK' BY <1>4, LeaseType, LeaseIdleType DEF WakeRead
  <2>2. cache' \in [Replica -> Cached] BY <1>4, SupersededType DEF WakeRead, TypeOK
  <2>3. wake' \in [Replica -> Wakes]
    BY <1>4, SupersededType, WakeToType DEF WakeRead, WakePC
  <2>4. current' \subseteq {"sweep", "wake", "refresh"} \X Replica
    BY <1>4 DEF WakeRead, TypeOK, Wk
  <2> QED BY <1>4, <2>1, <2>2, <2>3, <2>4 DEF WakeRead, TypeOK, Wakes
<1>5. CASE WakePatch(p)
  <2>1. Lease!TypeOK' BY <1>5, LeaseType, LeaseIdleType DEF WakePatch
  <2>2. cache' \in [Replica -> Cached]
    BY <1>5, SupersededType, CacheType DEF WakePatch, TypeOK, Cached
  <2>3. wake' \in [Replica -> Wakes]
    BY <1>5, SupersededType, WakeToType DEF WakePatch, WakePC, WakeEnd
  <2>4. faults' \in 0..MaxFaults BY <1>5, SpendType DEF WakePatch, TypeOK
  <2>5. /\ obj' \in [up : BOOLEAN, marked : BOOLEAN, ready : BOOLEAN]
        /\ current' \subseteq {"sweep", "wake", "refresh"} \X Replica
    BY <1>5, LandType, ClusterType DEF WakePatch
  <2> QED BY <1>5, <2>1, <2>2, <2>3, <2>4, <2>5 DEF WakePatch, TypeOK, Wakes
<1>6. CASE WakeCommit(p)
  <2>1. Lease!TypeOK' BY <1>6, LeaseType DEF WakeCommit
  <2>2. cache' \in [Replica -> Cached] BY <1>6, CacheType DEF WakeCommit, Cached
  <2>3. wake' \in [Replica -> Wakes] 
    BY <1>6, WakeToType DEF WakeCommit, WakePC, WakeEnd
  <2> QED BY <1>6, <2>1, <2>2, <2>3 DEF WakeCommit, TypeOK, cluster, Wakes
<1>7. CASE WakeReady(p)
  <2>1. Lease!TypeOK' BY <1>7, LeaseIdleType DEF WakeReady
  <2>2. cache' \in [Replica -> Cached]
    BY <1>7, CacheType DEF WakeReady, Cached, TypeOK
  <2>3. wake' \in [Replica -> Wakes]
    BY <1>7, WakeToType DEF WakeReady, Write, WakeEnd
  <2>4. faults' \in 0..MaxFaults BY <1>7, SpendType DEF WakeReady, TypeOK
  <2> QED BY <1>7, <2>1, <2>2, <2>3, <2>4 DEF WakeReady, TypeOK, cluster, Wakes
<1>8. CASE WakeAssert(p)
  <2>1. Lease!TypeOK' BY <1>8, LeaseType DEF WakeAssert
  <2>2. wake' \in [Replica -> Wakes] BY <1>8 DEF WakeAssert, Wakes, WakePC, WakeEnd
  <2> QED BY <1>8, <2>1, <2>2 DEF WakeAssert, TypeOK, cluster, Wakes
<1>9. CASE WakeRelease(p)
  <2>1. Lease!TypeOK' BY <1>9, LeaseType DEF WakeRelease
  <2>2. wake' \in [Replica -> Wakes] BY <1>9, WakeToType DEF WakeRelease, WakePC
  <2>3. faults' \in 0..MaxFaults BY <1>9, SpendType DEF WakeRelease, TypeOK
  <2> QED BY <1>9, <2>1, <2>2, <2>3 DEF WakeRelease, TypeOK, cluster, Wakes
<1>10. CASE WakeSettle(p)
  <2>1. Lease!TypeOK' BY <1>10, LeaseIdleType DEF WakeSettle
  <2>2. wake' \in [Replica -> Wakes]
    BY <1>10 DEF WakeSettle, NoWake, Wakes, WakePC, Write, WakeEnd
  <2>3. call' \in [Call -> Calls] BY <1>10, SettleMoves DEF TypeOK, Calls
  <2> QED BY <1>10, <2>1, <2>2, <2>3 DEF WakeSettle, TypeOK, cluster, Wakes, Calls
<1> QED BY <1>1, <1>2, <1>3, <1>4, <1>5, <1>6, <1>7, <1>8, <1>9, <1>10
       DEF WakeStep

(* Whatever a call does, or its client. *)
CallMove(c) ==
    Arrive(c) \/ CallStep(c) \/ GiveUp(c) \/ Repeat(c) \/ Abandon(c) \/ Finish(c)

LEMMA CallType ==
    ASSUME TypeOK, NEW c \in Call, CallMove(c)
    PROVE  TypeOK'
<1> call \in [Call -> Calls] /\ Lease!TypeOK BY DEF TypeOK, Calls
<1>1. Lease!TypeOK'
  BY LeaseIdleType DEF CallMove, CallStep, Repeat, Abandon, Answered, Arrive, Stamp,
     EnsureAwake, Connect, GiveUp, Finish
<1>2. call' \in [Call -> Calls]
  BY DEF CallMove, CallStep, Repeat, Abandon, Answered, Arrive, Stamp, EnsureAwake,
     Connect, GiveUp, Finish, CallTo, CallEnds, NoCall, Calls, CallPC
<1>3. faults' \in 0..MaxFaults
  BY SpendType DEF CallMove, CallStep, Repeat, Abandon, Answered, Arrive, Stamp,
     EnsureAwake, Connect, GiveUp, Finish, TypeOK
<1>4. CASE Arrive(c) BY <1>1, <1>2, <1>4 DEF Arrive, TypeOK, cluster, Calls
<1>5. CASE Stamp(c) BY <1>1, <1>2, <1>3, <1>5 DEF Stamp, TypeOK, cluster, Calls
<1>6. CASE EnsureAwake(c)
  <2>1. wake' \in [Replica -> Wakes]
    <3>1. wake \in [Replica -> Wakes] BY DEF TypeOK, Wakes
    <3>2. wake' = wake \/ wake' = [wake EXCEPT ![call[c].at].pc = "wait"]
      BY <1>6 DEF EnsureAwake
    <3>3. CASE call[c].at \in Replica
      <4>1. [wake[call[c].at] EXCEPT !.pc = "wait"] \in Wakes
        BY <3>1, <3>3 DEF Wakes, WakePC
      <4> QED BY <3>1, <3>2, <4>1
    <3>4. CASE call[c].at \notin Replica BY <3>1, <3>2, <3>4
    <3> QED BY <3>3, <3>4
  <2> QED BY <1>1, <1>2, <1>6, <2>1 DEF EnsureAwake, TypeOK, cluster, Calls, Wakes
<1>7. CASE Connect(c) BY <1>1, <1>2, <1>7 DEF Connect, TypeOK, cluster, Calls
<1>8. CASE GiveUp(c) BY <1>1, <1>2, <1>3, <1>8 DEF GiveUp, TypeOK, cluster, Calls
<1>9. CASE Finish(c) BY <1>1, <1>2, <1>9 DEF Finish, TypeOK, cluster, Calls
<1>10. CASE Repeat(c) BY <1>1, <1>2, <1>10 DEF Repeat, TypeOK, cluster, Calls
<1>11. CASE Abandon(c) BY <1>1, <1>2, <1>11 DEF Abandon, TypeOK, cluster, Calls
<1> QED BY <1>4, <1>5, <1>6, <1>7, <1>8, <1>9, <1>10, <1>11 DEF CallMove, CallStep

LEMMA RefreshType ==
    ASSUME TypeOK, NEW p \in Replica, Refresh(p) \/ RefreshPatch(p)
    PROVE  TypeOK'
<1>1. Lease!TypeOK' BY LeaseIdleType DEF Refresh, RefreshPatch, TypeOK
<1>2. cache' \in [Replica -> Cached]
  BY ObservedType, CacheType DEF Refresh, RefreshPatch, Cached
<1>3. CASE Refresh(p)
  <2>1. current' \subseteq {"sweep", "wake", "refresh"} \X Replica
    <3>1. current' \subseteq current \cup {Rf(p)} BY <1>3 DEF Refresh
    <3> QED BY <3>1 DEF TypeOK, Rf
  <2>2. refresh' \in [Replica -> BOOLEAN] BY <1>3 DEF Refresh, TypeOK
  <2> QED BY <1>1, <1>2, <1>3, <2>1, <2>2 DEF Refresh, TypeOK
<1>4. CASE RefreshPatch(p)
  <2>1. obj' \in [up : BOOLEAN, marked : BOOLEAN, ready : BOOLEAN]
    BY <1>4 DEF RefreshPatch, Put, TypeOK, cluster
  <2>2. current' \subseteq {"sweep", "wake", "refresh"} \X Replica
    BY <1>4 DEF RefreshPatch, Put, TypeOK, cluster
  <2>3. faults' \in 0..MaxFaults BY <1>4, SpendType DEF RefreshPatch, TypeOK
  <2> QED BY <1>1, <1>2, <1>4, <2>1, <2>2, <2>3 DEF RefreshPatch, TypeOK
<1> QED BY <1>3, <1>4

LEMMA CrashType == ASSUME TypeOK, NEW p \in Replica, Crash(p) PROVE TypeOK'
<1>1. Lease!TypeOK'
  <2>1. {Sw(p), Wk(p)} \in SUBSET Holder BY HolderType
  <2> QED BY <2>1, LeaseIdleType DEF Crash, TypeOK
<1>2. wake' \in [Replica -> Wakes] 
  BY DEF Crash, TypeOK, NoWake, Wakes, WakePC, Write, WakeEnd
<1>3. call' \in [Call -> Calls] BY DEF Crash, TypeOK, NoCall, Calls, CallPC
<1>4. faults' \in 0..MaxFaults BY SpendType DEF Crash
<1>5. sweep' \in [Replica -> SweepPC] /\ cache' \in [Replica -> Cached]
  BY DEF Crash, TypeOK, SweepPC, Cached
<1> QED BY <1>1, <1>2, <1>3, <1>4, <1>5 DEF Crash, TypeOK, Wakes, Calls

LEMMA EnvironmentType ==
    ASSUME TypeOK,
           \/ \E h \in Holder : Renewal(h)
           \/ BecomeReady \/ GoIdle \/ Expire \/ Operator \/ UNCHANGED vars
    PROVE  TypeOK'
<1> Lease!TypeOK BY DEF TypeOK
<1>1. ASSUME NEW h \in Holder, Renewal(h) PROVE TypeOK'
  <2>1. Lease!TypeOK' BY <1>1, LeaseType DEF Renewal
  <2> QED BY <1>1, <2>1 DEF Renewal, TypeOK, cluster
<1>2. CASE BecomeReady
  <2>1. Lease!TypeOK' BY <1>2, LeaseIdleType DEF BecomeReady
  <2>2. obj' \in [up : BOOLEAN, marked : BOOLEAN, ready : BOOLEAN]
    BY <1>2 DEF BecomeReady, Put, TypeOK
  <2> QED BY <1>2, <2>1, <2>2 DEF BecomeReady, Put, TypeOK
<1>3. CASE GoIdle
  <2>1. Lease!TypeOK' BY <1>3, LeaseIdleType DEF GoIdle
  <2> QED BY <1>3, <2>1 DEF GoIdle, TypeOK, cluster
<1>4. CASE Expire
  <2>1. Lease!TypeOK' BY <1>4, LeaseIdleType DEF Expire
  <2>2. faults' \in 0..MaxFaults BY <1>4, SpendType DEF Expire, TypeOK
  <2> QED BY <1>4, <2>1, <2>2 DEF Expire, TypeOK, cluster
<1>5. CASE Operator
  <2>1. Lease!TypeOK' BY <1>5, LeaseIdleType DEF Operator
  <2>2. faults' \in 0..MaxFaults BY <1>5, SpendType DEF Operator
  <2>3. obj' \in [up : BOOLEAN, marked : BOOLEAN, ready : BOOLEAN]
    BY <1>5 DEF Operator, Put, TypeOK
  <2> QED BY <1>5, <2>1, <2>2, <2>3 DEF Operator, Put, TypeOK
<1>6. CASE UNCHANGED vars
  <2>1. Lease!TypeOK' BY <1>6, LeaseIdleType DEF vars
  <2> QED BY <1>6, <2>1 DEF vars, TypeOK, cluster
<1> QED BY <1>1, <1>2, <1>3, <1>4, <1>5, <1>6

LEMMA InitTypeOK == Init => TypeOK
<1> SUFFICES ASSUME Init PROVE TypeOK OBVIOUS
<1>1. Lease!TypeOK BY DEF Init, Lease!Init, Lease!NoLease, Lease!TypeOK
<1>2. MaxFaults \in 0..MaxFaults
  BY HibernationAssumption DEF HibernationAssumption
<1> QED BY <1>1, <1>2 DEF Init, TypeOK, NoWake, NoCall, SweepPC, WakePC, CallPC,
       Write, WakeEnd, Cached

LEMMA TypeStep == TypeOK /\ [Next]_vars => TypeOK'
BY SweepType, WakeType, CallType, RefreshType, CrashType, EnvironmentType
   DEF Next, CallMove

(* Every variable of the sweep, the wakes, the calls and the lease keeps   *)
(* its type, whatever replicas do and whatever fails.                      *)
THEOREM TypeCorrect == Spec => []TypeOK
BY InitTypeOK, TypeStep, PTL DEF Spec

---------------------------------------------------------------------------
(* The lease *)

LEMMA Distinct ==
    ASSUME NEW p \in Replica, NEW q \in Replica
    PROVE  /\ Sw(p) # Wk(q)
           /\ Sw(p) = Sw(q) => p = q
           /\ Wk(p) = Wk(q) => p = q
           /\ Rf(p) = Rf(q) => p = q
           /\ Rf(p) # Sw(q) /\ Rf(p) # Wk(q)
           /\ Sw(p) # Nobody /\ Wk(p) # Nobody
BY HibernationAssumption DEF HibernationAssumption, Sw, Wk, Rf

LeaseStep(h) ==
    \/ Lease!Acquire(h) \/ Lease!Assert(h) \/ Lease!Fence(h)
    \/ Lease!FenceLost(h) \/ Lease!Commit(h) \/ Lease!Rollback(h)
    \/ Lease!Release(h) \/ Lease!ReleaseFails(h)

(* What one statement of the lease model does to the row and the guards.   *)
LEMMA LeaseMoves ==
    ASSUME Lease!TypeOK, NEW h \in Holder, LeaseStep(h)
    PROVE  /\ \A k \in Holder \ {h} : guard'[k] = guard[k]
           /\ Lease!Acquire(h) => /\ guard[h] = "none" /\ guard'[h] = "owned"
                                  /\ lease'.holder = h
           /\ Lease!Assert(h) => /\ guard[h] \in {"owned", "lost"}
                                 /\ guard'[h] \in {"owned", "lost"}
           /\ Lease!Fence(h) => guard[h] = "owned" /\ guard'[h] = "fenced"
           /\ Lease!FenceLost(h) => /\ guard[h] \in {"owned", "lost"}
                                    /\ guard'[h] = "lost"
           /\ Lease!Commit(h) \/ Lease!Rollback(h) =>
                  guard[h] = "fenced" /\ guard'[h] = "owned"
           /\ Lease!Release(h) \/ Lease!ReleaseFails(h) =>
                  guard[h] \in {"owned", "lost"} /\ guard'[h] = "none"
           /\ ~Lease!Acquire(h) => lease'.holder \in {lease.holder, Nobody}
<1> USE DEF Lease!TypeOK
<1>1. CASE Lease!Acquire(h)
  BY <1>1 DEF Lease!Acquire, Lease!Assert, Lease!Fence, Lease!FenceLost,
     Lease!Commit, Lease!Rollback, Lease!Release, Lease!ReleaseFails
<1>2. CASE ~Lease!Acquire(h)
  <2>1. lease'.holder \in {lease.holder, Nobody}
    BY <1>2 DEF LeaseStep, Lease!Assert, Lease!Fence, Lease!FenceLost, Lease!Commit,
       Lease!Rollback, Lease!Release, Lease!ReleaseFails, Lease!NoLease
  <2>2. \A k \in Holder \ {h} : guard'[k] = guard[k]
    BY <1>2 DEF LeaseStep, Lease!Assert, Lease!Fence, Lease!FenceLost, Lease!Commit,
       Lease!Rollback, Lease!Release, Lease!ReleaseFails
  <2> QED
    BY <1>2, <2>1, <2>2 DEF Lease!Assert, Lease!Fence, Lease!FenceLost,
       Lease!Commit, Lease!Rollback, Lease!Release, Lease!ReleaseFails
<1> QED BY <1>1, <1>2

(* The lock is taken by a holder, kept by it, and given back by it.        *)
LEMMA LockKept ==
    ASSUME Lease!TypeOK, LockHeld,
           \/ \E h \in Holder : LeaseStep(h)
           \/ UNCHANGED gate \/ Lease!Expire
           \/ \E dead \in SUBSET Holder : Lease!Die(dead)
    PROVE  LockHeld'
<1> Nobody \notin Holder
  BY HibernationAssumption DEF HibernationAssumption, Holder
<1> USE DEF Lease!TypeOK, LockHeld
<1>1. ASSUME NEW h \in Holder, LeaseStep(h) PROVE LockHeld'
  <2>1. CASE Lease!Acquire(h) BY <2>1 DEF Lease!Acquire
  <2>2. CASE Lease!Assert(h) BY <2>2 DEF Lease!Assert
  <2>3. CASE Lease!Fence(h) BY <2>3 DEF Lease!Fence, Lease!Owns
  <2>4. CASE Lease!FenceLost(h) BY <2>4 DEF Lease!FenceLost
  <2>5. CASE Lease!Commit(h) BY <2>5 DEF Lease!Commit
  <2>6. CASE Lease!Rollback(h) BY <2>6 DEF Lease!Rollback
  <2>7. CASE Lease!Release(h) BY <2>7 DEF Lease!Release
  <2>8. CASE Lease!ReleaseFails(h) BY <2>8 DEF Lease!ReleaseFails
  <2> QED BY <1>1, <2>1, <2>2, <2>3, <2>4, <2>5, <2>6, <2>7, <2>8 DEF LeaseStep
<1>2. CASE UNCHANGED gate BY <1>2 DEF gate
<1>3. CASE Lease!Expire BY <1>3 DEF Lease!Expire
<1>4. ASSUME NEW dead \in SUBSET Holder, Lease!Die(dead) PROVE LockHeld'
  BY <1>4 DEF Lease!Die
<1> QED BY <1>1, <1>2, <1>3, <1>4

---------------------------------------------------------------------------
(* Gates *)

LEMMA SweepGates ==
    ASSUME TypeOK, Gates, NEW p \in Replica, SweepPick(p) \/ SweepStep(p)
    PROVE  Gates'
<1> Sw(p) \in Holder /\ Lease!TypeOK BY HolderType DEF TypeOK
<1> sweep \in [Replica -> SweepPC] BY DEF TypeOK
<1>1. UNCHANGED gate \/ LeaseStep(Sw(p))
  BY DEF SweepPick, SweepStep, SweepAcquire, SweepRead, SweepCheck, SweepFence,
     SweepLook, SweepPatch, SweepCommit, SweepEnd, LeaseStep
<1>2. LockHeld' BY <1>1, LockKept DEF Gates
<1>3. /\ wake' = wake
      /\ \A q \in Replica \ {p} : sweep'[q] = sweep[q]
  BY DEF SweepPick, SweepStep, SweepAcquire, SweepRead, SweepCheck, SweepFence,
     SweepLook, SweepPatch, SweepCommit, SweepEnd, SweepTo
<1>4. \A h \in Holder \ {Sw(p)} : guard'[h] = guard[h]
  BY <1>1, LeaseMoves DEF gate
<1>5. ASSUME NEW q \in Replica, q # p PROVE SweepGate(q)'
  <2>1. guard'[Sw(q)] = guard[Sw(q)] BY <1>4, <1>5, HolderType, Distinct
  <2> QED BY <1>3, <1>5, <2>1 DEF Gates, SweepGate
<1>6. ASSUME NEW q \in Replica PROVE WakeGate(q)'
  <2>1. guard'[Wk(q)] = guard[Wk(q)] BY <1>4, HolderType, Distinct
  <2> QED BY <1>3, <2>1 DEF Gates, WakeGate
<1>7. SweepGate(p)'
  <2> SweepGate(p) BY DEF Gates
  <2> USE DEF SweepGate, SweepTo
  <2>1. CASE SweepPick(p) BY <2>1 DEF SweepPick, gate
  <2>2. CASE SweepAcquire(p) BY <2>2, LeaseMoves DEF SweepAcquire, gate, LeaseStep
  <2>3. CASE SweepRead(p) BY <2>3 DEF SweepRead, gate
  <2>4. CASE SweepCheck(p) BY <2>4, LeaseMoves DEF SweepCheck, LeaseStep
  <2>5. CASE SweepFence(p) BY <2>5, LeaseMoves DEF SweepFence, LeaseStep
  <2>6. CASE SweepLook(p) BY <2>6, LeaseMoves DEF SweepLook, gate, LeaseStep
  <2>7. CASE SweepPatch(p) BY <2>7, LeaseMoves DEF SweepPatch, SweepLands, gate,
     LeaseStep
  <2>8. CASE SweepCommit(p) BY <2>8, LeaseMoves DEF SweepCommit, LeaseStep
  <2>9. CASE SweepEnd(p) BY <2>9, LeaseMoves DEF SweepEnd, LeaseStep
  <2> QED BY <2>1, <2>2, <2>3, <2>4, <2>5, <2>6, <2>7, <2>8, <2>9 DEF SweepStep
<1> QED BY <1>2, <1>5, <1>6, <1>7 DEF Gates

LEMMA EndsMoves ==
    ASSUME TypeOK, NEW p \in Replica, NEW end, WakeEnds(p, end)
    PROVE  /\ wake'[p].pc \in {"assert", "release"}
           /\ \A q \in Replica \ {p} : wake'[q] = wake[q]
<1> wake \in [Replica -> Wakes] BY DEF TypeOK, Wakes
<1> DEFINE pc == IF end = "ok" THEN "assert" ELSE "release"
<1> DEFINE ended == [NoWake EXCEPT !.pc = pc, !.end = end]
<1>1. ended.pc \in {"assert", "release"} BY DEF NoWake
<1>2. wake' = [wake EXCEPT ![p] = ended] BY DEF WakeEnds
<1> HIDE DEF ended
<1> QED BY <1>1, <1>2

(* Whatever a wake does next, it does outside a fenced mutation. *)
LEMMA WakeMoves ==
    ASSUME TypeOK, NEW p \in Replica, Proceed(p) \/ Superseded(p)
    PROVE  /\ wake'[p].pc \in {"fence", "await", "assert", "release"}
           /\ \A q \in Replica \ {p} : wake'[q] = wake[q]
<1> wake \in [Replica -> Wakes] BY DEF TypeOK, Wakes
<1> USE DEF WakeDo, WakeTo, WakeWaits, NoWake, WakeEnds, Wakes
<1>1. CASE Proceed(p) BY <1>1 DEF Proceed
<1>2. CASE Superseded(p)
  <2>1. CASE wake[p].write = "begin" BY <1>2, <2>1 DEF Superseded
  <2>2. CASE wake[p].write = "finish" BY <1>1, <1>2, <2>2 DEF Superseded, Proceed
  <2>3. CASE wake[p].write = "complete" BY <1>2, <2>3 DEF Superseded
  <2> QED BY <2>1, <2>2, <2>3 DEF Write
<1> QED BY <1>1, <1>2

LEMMA WakeGates ==
    ASSUME TypeOK, Gates, NEW p \in Replica, WakeAcquire(p) \/ WakeStep(p)
    PROVE  Gates'
<1> Wk(p) \in Holder /\ Lease!TypeOK BY HolderType DEF TypeOK
<1> wake \in [Replica -> Wakes] BY DEF TypeOK, Wakes
<1>1. UNCHANGED gate \/ LeaseStep(Wk(p))
  BY DEF WakeAcquire, WakeStep, WakeLook, WakeFence, WakeRead, WakePatch,
     WakeCommit, WakeReady, WakeAssert, WakeRelease, WakeSettle, LeaseStep
<1>2. LockHeld' BY <1>1, LockKept DEF Gates
<1>3. /\ sweep' = sweep
      /\ \A q \in Replica \ {p} : wake'[q] = wake[q]
  <2>1. sweep' = sweep
    BY DEF WakeAcquire, WakeStep, WakeLook, WakeFence, WakeRead, WakePatch,
       WakeCommit, WakeReady, WakeAssert, WakeRelease, WakeSettle
  <2>2. ASSUME NEW q \in Replica \ {p} PROVE wake'[q] = wake[q]
    BY WakeMoves DEF WakeAcquire, WakeStep, WakeLook, WakeFence, WakeRead,
       WakePatch, WakeCommit, WakeReady, WakeAssert, WakeRelease, WakeSettle,
       WakeTo, WakeWaits, NoWake, WakeDo, WakeEnds, Wakes
  <2> QED BY <2>1, <2>2
<1>4. \A h \in Holder \ {Wk(p)} : guard'[h] = guard[h]
  BY <1>1, LeaseMoves DEF gate
<1>5. ASSUME NEW q \in Replica PROVE SweepGate(q)'
  <2>1. guard'[Sw(q)] = guard[Sw(q)] BY <1>4, HolderType, Distinct
  <2> QED BY <1>3, <2>1 DEF Gates, SweepGate
<1>6. ASSUME NEW q \in Replica, q # p PROVE WakeGate(q)'
  <2>1. guard'[Wk(q)] = guard[Wk(q)] BY <1>4, <1>6, HolderType, Distinct
  <2> QED BY <1>3, <1>6, <2>1 DEF Gates, WakeGate
<1>7. WakeGate(p)'
  <2> WakeGate(p) BY DEF Gates
  <2> USE DEF WakeGate, WakeTo, WakeWaits, NoWake, WakeDo, Wakes
  <2>1. CASE WakeAcquire(p) BY <2>1, LeaseMoves DEF WakeAcquire, gate, LeaseStep
  <2>2. CASE WakeLook(p) BY <2>2, WakeMoves, EndsMoves DEF WakeLook, gate
  <2>3. CASE WakeFence(p) BY <2>3, LeaseMoves, EndsMoves DEF WakeFence, LeaseStep
  <2>4. CASE WakeRead(p) BY <2>4, LeaseMoves, WakeMoves DEF WakeRead, gate,
     LeaseStep
  <2>5. CASE WakePatch(p)
    BY <2>5, LeaseMoves, WakeMoves, EndsMoves DEF WakePatch, WakeLands, gate,
       LeaseStep
  <2>6. CASE WakeCommit(p) BY <2>6, LeaseMoves, EndsMoves DEF WakeCommit, LeaseStep
  <2>7. CASE WakeReady(p) BY <2>7, EndsMoves DEF WakeReady, gate
  <2>8. CASE WakeAssert(p) BY <2>8, LeaseMoves DEF WakeAssert, LeaseStep
  <2>9. CASE WakeRelease(p) BY <2>9, LeaseMoves DEF WakeRelease, LeaseStep
  <2>10. CASE WakeSettle(p) BY <2>10 DEF WakeSettle, NoWake, gate
  <2> QED BY <2>1, <2>2, <2>3, <2>4, <2>5, <2>6, <2>7, <2>8, <2>9, <2>10 DEF
     WakeStep
<1> QED BY <1>2, <1>5, <1>6, <1>7 DEF Gates

LEMMA RestGates ==
    ASSUME TypeOK, Gates,
           \/ \E c \in Call : CallMove(c)
           \/ \E p \in Replica : Refresh(p) \/ RefreshPatch(p) \/ Crash(p)
           \/ \E h \in Holder : Renewal(h)
           \/ BecomeReady \/ GoIdle \/ Expire \/ Operator \/ UNCHANGED vars
    PROVE  Gates'
<1> Lease!TypeOK BY DEF TypeOK
<1> wake \in [Replica -> Wakes] BY DEF TypeOK, Wakes
<1>1. ASSUME UNCHANGED gate, UNCHANGED <<sweep, wake>> PROVE Gates'
  BY <1>1, LockKept DEF Gates, gate, SweepGate, WakeGate
<1>2. ASSUME NEW c \in Call, CallMove(c)
      PROVE  Gates'
  <2>1. CASE EnsureAwake(c)
    <3>1. UNCHANGED <<gate, sweep>> BY <2>1 DEF EnsureAwake
    <3>2. LockHeld' BY <3>1, LockKept DEF Gates
    <3>3. ASSUME NEW q \in Replica
          PROVE \/ wake'[q] = wake[q]
                \/ wake[q].pc = "off" /\ wake'[q].pc = "wait"
      <4>1. \/ wake' = wake
            \/ /\ wake[call[c].at].pc = "off"
               /\ wake' = [wake EXCEPT ![call[c].at].pc = "wait"]
        BY <2>1 DEF EnsureAwake
      <4>2. wake[q] \in Wakes BY <3>3
      <4>3. CASE q = call[c].at BY <4>1, <4>2, <4>3 DEF Wakes
      <4>4. CASE q # call[c].at BY <4>1, <4>4
      <4> QED BY <4>3, <4>4
    <3> QED BY <3>1, <3>2, <3>3 DEF Gates, SweepGate, WakeGate, gate
  <2>2. CASE ~EnsureAwake(c)
    BY <1>1, <1>2, <2>2 DEF CallMove, Repeat, Abandon, Arrive, CallStep, Stamp,
       Connect, GiveUp, Finish
  <2> QED BY <2>1, <2>2
<1>3. ASSUME NEW p \in Replica, Refresh(p) \/ RefreshPatch(p) PROVE Gates'
  BY <1>1, <1>3 DEF Refresh, RefreshPatch
<1>4. ASSUME NEW p \in Replica, Crash(p) PROVE Gates'
  <2>1. Lease!Die({Sw(p), Wk(p)}) BY <1>4 DEF Crash
  <2>2. LockHeld' BY <2>1, HolderType, LockKept DEF Gates
  <2>3. \A h \in Holder : guard'[h] = IF h \in {Sw(p), Wk(p)} THEN "none" ELSE guard[h]
    BY <2>1 DEF Lease!Die
  <2>4. ASSUME NEW q \in Replica PROVE SweepGate(q)' /\ WakeGate(q)'
    <3>1. CASE q = p
      <4>1. sweep'[q] = "off" /\ wake'[q].pc = "off"
        BY <1>4, <3>1 DEF Crash, NoWake, TypeOK
      <4> QED BY <2>3, <3>1, <4>1, HolderType DEF SweepGate, WakeGate
    <3>2. CASE q # p
      <4>1. sweep'[q] = sweep[q] /\ wake'[q] = wake[q]
        BY <1>4, <3>2 DEF Crash, TypeOK
      <4>2. guard'[Sw(q)] = guard[Sw(q)] /\ guard'[Wk(q)] = guard[Wk(q)]
        BY <2>3, <3>2, HolderType, Distinct
      <4> QED BY <4>1, <4>2 DEF Gates, SweepGate, WakeGate
    <3> QED BY <3>1, <3>2
  <2> QED BY <2>2, <2>4 DEF Gates
<1>5. ASSUME NEW h \in Holder, Renewal(h) PROVE Gates'
  <2>1. LeaseStep(h) /\ Lease!Assert(h) /\ UNCHANGED <<sweep, wake>> /\ guard[h] = "owned"
    BY <1>5 DEF Renewal, LeaseStep
  <2>2. LockHeld' BY <2>1, LockKept DEF Gates
  <2>3. \A k \in Holder : \/ guard'[k] = guard[k]
                          \/ guard[k] = "owned" /\ guard'[k] \in {"owned", "lost"}
    BY <2>1, LeaseMoves
  <2>4. ASSUME NEW q \in Replica PROVE SweepGate(q)' /\ WakeGate(q)'
    BY <2>1, <2>3, HolderType DEF Gates, SweepGate, WakeGate
  <2> QED BY <2>2, <2>4 DEF Gates
<1>6. CASE BecomeReady \/ GoIdle \/ Operator \/ UNCHANGED vars
  BY <1>1, <1>6 DEF BecomeReady, GoIdle, Operator, vars, gate
<1>7. CASE Expire
  <2>1. Lease!Expire /\ UNCHANGED <<sweep, wake>> BY <1>7 DEF Expire
  <2>2. LockHeld' /\ guard' = guard BY <2>1, LockKept DEF Gates, Lease!Expire
  <2> QED BY <2>1, <2>2 DEF Gates, SweepGate, WakeGate
<1> QED BY <1>2, <1>3, <1>4, <1>5, <1>6, <1>7

LEMMA GatesStep == TypeOK /\ Gates /\ [Next]_vars => Gates'
BY SweepGates, WakeGates, RestGates DEF Next, CallMove

LEMMA InitGates == Init => Gates
<1> SUFFICES ASSUME Init PROVE Gates OBVIOUS
<1> Nobody \notin Holder
  BY HibernationAssumption DEF HibernationAssumption, Holder
<1>1. LockHeld BY DEF Init, Lease!Init, LockHeld
<1> QED BY <1>1, HolderType DEF Init, Lease!Init, Gates, SweepGate, WakeGate, NoWake

(* At most one replica is inside a fenced mutation, and the row names it:  *)
(* no successor holds the lease while its predecessor's patch may land.    *)
THEOREM OneFenceHolds == Spec => []OneFence
<1>1. Init => TypeOK /\ Gates BY InitTypeOK, InitGates
<1>2. (TypeOK /\ Gates) /\ [Next]_vars => (TypeOK /\ Gates)' BY TypeStep, GatesStep
<1>3. TypeOK /\ Gates => OneFence
  <2> Nobody \notin Holder
    BY HibernationAssumption DEF HibernationAssumption, Holder
  <2> QED BY DEF Gates, LockHeld, OneFence, Lease!OneFence
<1> QED BY <1>1, <1>2, <1>3, PTL DEF Spec

---------------------------------------------------------------------------
(* Demand *)

(* A step of the sweep touches neither calls nor wakes nor the usage row.  *)
LEMMA SweepFrame ==
    ASSUME NEW p \in Replica, SweepPick(p) \/ SweepStep(p)
    PROVE  UNCHANGED <<call, wake, fresh, refresh>>
BY DEF SweepPick, SweepStep, SweepAcquire, SweepRead, SweepCheck, SweepFence,
   SweepLook, SweepPatch, SweepCommit, SweepEnd

(* A step of a wake is a step of a wake in flight, and only its last one   *)
(* ends it and lets its calls go on.                                       *)
LEMMA WakeFrame ==
    ASSUME TypeOK, NEW p \in Replica, WakeAcquire(p) \/ WakeStep(p)
    PROVE  /\ wake[p].pc # "off"
           /\ UNCHANGED <<fresh, sweep, refresh>>
           /\ \A q \in Replica \ {p} : wake'[q] = wake[q]
           /\ \/ WakeSettle(p)
              \/ UNCHANGED call /\ wake'[p].pc # "off"
<1> wake \in [Replica -> Wakes] BY DEF TypeOK, Wakes
<1>1. wake[p].pc # "off"
  BY DEF WakeAcquire, WakeStep, WakeLook, WakeFence, WakeRead, WakePatch,
     WakeLands, WakeCommit, WakeReady, WakeAssert, WakeRelease, WakeSettle
<1>2. UNCHANGED <<fresh, sweep, refresh>>
  BY DEF WakeAcquire, WakeStep, WakeLook, WakeFence, WakeRead, WakePatch, WakeLands,
     WakeCommit, WakeReady, WakeAssert, WakeRelease, WakeSettle, cluster
<1>3. ASSUME NEW q \in Replica \ {p} PROVE wake'[q] = wake[q]
  BY WakeMoves DEF WakeAcquire, WakeStep, WakeLook, WakeFence, WakeRead,
     WakePatch, WakeCommit, WakeReady, WakeAssert, WakeRelease, WakeSettle,
     WakeTo, WakeWaits, NoWake, WakeDo, WakeEnds, Wakes
<1>4. ASSUME ~WakeSettle(p) PROVE UNCHANGED call /\ wake'[p].pc # "off"
  <2>1. UNCHANGED call
    BY <1>4 DEF WakeAcquire, WakeStep, WakeLook, WakeFence, WakeRead, WakePatch,
       WakeCommit, WakeReady, WakeAssert, WakeRelease
  <2>2. wake'[p].pc # "off"
    BY <1>4, WakeMoves DEF WakeAcquire, WakeStep, WakeLook, WakeFence, WakeRead,
       WakePatch, WakeCommit, WakeReady, WakeAssert, WakeRelease, WakeTo, WakeWaits,
       NoWake, WakeDo, WakeEnds, Wakes
  <2> QED BY <2>1, <2>2
<1> QED BY <1>1, <1>2, <1>3, <1>4

LEMMA DemandedStep == TypeOK /\ Demanded /\ [Next]_vars => Demanded'
<1> SUFFICES ASSUME TypeOK, Demanded, [Next]_vars PROVE Demanded' OBVIOUS
<1> wake \in [Replica -> Wakes] /\ call \in [Call -> Calls]
  BY DEF TypeOK, Wakes, Calls
<1>1. ASSUME UNCHANGED <<call, wake, fresh>> PROVE Demanded'
  BY <1>1 DEF Demanded, Demand, Waking
<1>2. ASSUME NEW p \in Replica, SweepPick(p) \/ SweepStep(p) PROVE Demanded'
  BY <1>1, <1>2, SweepFrame
<1>3. ASSUME NEW p \in Replica, WakeAcquire(p) \/ WakeStep(p) PROVE Demanded'
  <2>1. fresh' /\ (Demand' \/ Waking' => fresh')
    BY <1>3, WakeFrame DEF Demanded, Waking
  <2>2. CASE UNCHANGED call /\ wake'[p].pc # "off"
    BY <1>3, <2>1, <2>2, WakeFrame DEF Demanded
  <2>3. CASE WakeSettle(p)
    <3>1. ASSUME NEW c \in Call
          PROVE  /\ call'[c].pc \notin {"off", "again"} => call'[c].at \in Replica
                 /\ call'[c].pc = "join" => wake'[call'[c].at].pc # "off"
      <4>1. CASE call'[c] = call[c] /\ ~(call[c].pc = "join" /\ call[c].at = p)
        BY <1>3, <4>1, WakeFrame DEF Demanded
      <4>2. CASE /\ call[c].pc = "join" /\ call[c].at = p
                 /\ \/ call'[c].pc = "again"
                    \/ call'[c].pc \in {"enter", "connect"} /\ call'[c].at = p
        BY <4>2
      <4> QED BY <2>3, <4>1, <4>2, SettleMoves
    <3> QED BY <2>1, <3>1 DEF Demanded
  <2> QED BY <1>3, <2>2, <2>3, WakeFrame
<1>4. ASSUME NEW c \in Call, CallMove(c)
      PROVE  Demanded'
  <2>1. CASE EnsureAwake(c)
    <3>1. fresh' /\ call[c].at \in Replica
      BY <2>1 DEF EnsureAwake, Demanded, Demand
    <3>2. \A q \in Replica : wake[q].pc # "off" => wake'[q].pc # "off"
      BY <2>1, <3>1 DEF EnsureAwake, Wakes
    <3>3. wake'[call[c].at].pc # "off" BY <2>1, <3>1 DEF EnsureAwake, Wakes
    <3>4. /\ \A d \in Call \ {c} : call'[d] = call[d]
          /\ call'[c].at = call[c].at
      BY <2>1 DEF EnsureAwake, CallTo, Calls
    <3> QED BY <3>1, <3>2, <3>3, <3>4 DEF Demanded
  <2>2. CASE ~EnsureAwake(c)
    <3>1. /\ wake' = wake
          /\ \A d \in Call \ {c} : call'[d] = call[d]
      BY <1>4, <2>2 DEF CallMove, CallStep, Repeat, Abandon, Answered, Arrive,
         Stamp, Connect, GiveUp, Finish, CallTo, CallEnds, Calls
    <3>2. /\ call'[c].pc # "join"
          /\ call'[c].pc \notin {"off", "again"} => call'[c].at \in Replica
      BY <1>4, <2>2 DEF CallMove, CallStep, Repeat, Abandon, Answered, Arrive,
         Stamp, Connect, GiveUp, Finish, CallTo, CallEnds, NoCall, Calls, Demanded
    <3>3. fresh => fresh'
      BY <1>4, <2>2 DEF CallMove, CallStep, Repeat, Abandon, Answered, Arrive,
         Stamp, Connect, GiveUp, Finish
    <3>4. call'[c].pc \notin {"off", "stamp"} =>
              fresh' \/ call[c].pc \notin {"off", "stamp"}
      BY <1>4, <2>2 DEF CallMove, CallStep, Repeat, Abandon, Answered, Arrive,
         Stamp, Connect, GiveUp, Finish, CallTo, CallEnds, NoCall, Calls
    <3>5. Demand' => Demand \/ fresh' BY <3>1, <3>4 DEF Demand
    <3> QED BY <3>1, <3>2, <3>3, <3>5 DEF Demanded, Waking
  <2> QED BY <2>1, <2>2
<1>5. ASSUME NEW p \in Replica, Crash(p) PROVE Demanded'
  <2>1. \A c \in Call : \/ call'[c] = call[c] /\ call[c].at # p
                        \/ call'[c].pc = "off"
    BY <1>5 DEF Crash, NoCall
  <2>2. \A q \in Replica : \/ wake'[q] = wake[q]
                           \/ q = p /\ wake'[q].pc = "off"
    BY <1>5 DEF Crash, NoWake
  <2>3. fresh' = fresh BY <1>5 DEF Crash
  <2>4. Demand' \/ Waking' => fresh'
    BY <2>1, <2>2, <2>3 DEF Demanded, Demand, Waking
  <2> QED BY <2>1, <2>2, <2>4 DEF Demanded
<1>6. CASE GoIdle
  <2>1. ~Demand' /\ ~Waking' /\ UNCHANGED <<call, wake>>
    BY <1>6 DEF GoIdle, Demand, Waking
  <2> QED BY <2>1 DEF Demanded
<1>7. ASSUME \/ \E p \in Replica : Refresh(p) \/ RefreshPatch(p)
             \/ \E h \in Holder : Renewal(h)
             \/ BecomeReady \/ Expire \/ Operator \/ UNCHANGED vars
      PROVE  Demanded'
  BY <1>1, <1>7 DEF Refresh, RefreshPatch, Renewal, BecomeReady, Expire, Operator,
     vars
<1> QED BY <1>2, <1>3, <1>4, <1>5, <1>6, <1>7 DEF Next, CallMove

---------------------------------------------------------------------------
(* Sweeping quietly *)

(* Who holds the row after a step of a sweep or a wake. *)
LEMMA SweepHolder ==
    ASSUME TypeOK, NEW p \in Replica, SweepPick(p) \/ SweepStep(p)
    PROVE  \/ lease'.holder \in {lease.holder, Nobody}
           \/ lease'.holder = Sw(p) /\ sweep'[p] = "read"
<1> Sw(p) \in Holder /\ Lease!TypeOK BY HolderType DEF TypeOK
<1>1. CASE SweepAcquire(p)
  BY <1>1, LeaseMoves DEF SweepAcquire, SweepTo, LeaseStep, gate, TypeOK
<1>2. CASE ~SweepAcquire(p)
  <2>1. \/ UNCHANGED gate
        \/ LeaseStep(Sw(p)) /\ ~(guard[Sw(p)] = "none" /\ guard'[Sw(p)] = "owned")
    BY <1>2, LeaseMoves DEF SweepPick, SweepStep, SweepRead, SweepCheck, SweepFence,
       SweepLook, SweepPatch, SweepCommit, SweepEnd, LeaseStep
  <2> QED BY <2>1, LeaseMoves DEF gate
<1> QED BY <1>1, <1>2

LEMMA WakeHolder ==
    ASSUME TypeOK, NEW p \in Replica, WakeAcquire(p) \/ WakeStep(p)
    PROVE  lease'.holder \in {lease.holder, Nobody, Wk(p)}
<1> Wk(p) \in Holder /\ Lease!TypeOK BY HolderType DEF TypeOK
<1>1. UNCHANGED gate \/ LeaseStep(Wk(p))
  BY DEF WakeAcquire, WakeStep, WakeLook, WakeFence, WakeRead, WakePatch,
     WakeCommit, WakeReady, WakeAssert, WakeRelease, WakeSettle, LeaseStep
<1> QED BY <1>1, LeaseMoves DEF gate

(* A sweep decides on a reading that leaves no demand in flight.           *)
LEMMA SweepDecides ==
    ASSUME TypeOK, Demanded, NEW p \in Replica, SweepPick(p) \/ SweepStep(p)
    PROVE  /\ \A q \in Replica \ {p} : sweep'[q] = sweep[q]
           /\ sweep'[p] \in Decided => sweep[p] \in Decided \/ Quiet
<1> sweep \in [Replica -> SweepPC] BY DEF TypeOK
<1> USE DEF Decided, SweepTo
<1>1. \A q \in Replica \ {p} : sweep'[q] = sweep[q]
  BY DEF SweepPick, SweepStep, SweepAcquire, SweepRead, SweepCheck, SweepFence,
     SweepLook, SweepPatch, SweepCommit, SweepEnd
<1>2. CASE SweepPatch(p)
  BY <1>1, <1>2 DEF SweepPatch, SweepLands, Sleep, cluster
<1>3. CASE SweepRead(p)
  <2>1. ~fresh => Quiet BY DEF Demanded, Demand, Waking, Quiet
  <2> QED BY <1>1, <1>3, <2>1 DEF SweepRead, cluster
<1>4. CASE ~SweepPatch(p) /\ ~SweepRead(p)
  BY <1>1, <1>4 DEF SweepPick, SweepStep, SweepAcquire, SweepCheck, SweepFence,
     SweepLook, SweepCommit, SweepEnd, cluster
<1> QED BY <1>2, <1>3, <1>4

(* In a quiet state nobody but a holder of the lease ends the quiet. *)
LEMMA WakeQuiet ==
    ASSUME TypeOK, Quiet, NEW p \in Replica, WakeAcquire(p) \/ WakeStep(p),
           lease'.holder # Wk(p)
    PROVE  Quiet'
<1> wake \in [Replica -> Wakes] /\ call \in [Call -> Calls]
  BY DEF TypeOK, Wakes, Calls
<1> Wk(p) \in Holder /\ Lease!TypeOK BY HolderType DEF TypeOK
<1>1. \A q \in Replica \ {p} : wake'[q] = wake[q] BY WakeFrame
<1>2. CASE WakeAcquire(p)
  <2>1. wake'[p].pc = "settle" /\ wake'[p].end = "retry" /\ call' = call
    BY <1>2, LeaseMoves DEF WakeAcquire, LeaseStep, Wakes
  <2> QED BY <1>1, <2>1 DEF Quiet
<1>3. CASE WakeSettle(p)
  <2>1. wake[p].end # "ok" BY <1>3 DEF WakeSettle, Quiet
  <2>2. \A c \in Call : \/ call'[c] = call[c]
                        \/ call'[c].pc \in {"enter", "again"}
    BY <1>3, <2>1, SettleMoves
  <2>3. wake'[p].pc = "off" BY <1>3 DEF WakeSettle, NoWake
  <2> QED BY <1>1, <2>2, <2>3 DEF Quiet
<1>4. CASE WakeStep(p) /\ ~WakeSettle(p)
  <2>1. wake[p].pc \notin {"off", "wait", "settle"}
    BY <1>4 DEF WakeStep, WakeLook, WakeFence, WakeRead, WakePatch, WakeLands,
       WakeCommit, WakeReady, WakeAssert, WakeRelease
  <2> QED BY <2>1 DEF Quiet
<1> QED BY <1>2, <1>3, <1>4

LEMMA CallQuiet ==
    ASSUME TypeOK, Quiet, NEW c \in Call,
           CallMove(c)
    PROVE  Quiet'
<1> wake \in [Replica -> Wakes] /\ call \in [Call -> Calls]
  BY DEF TypeOK, Wakes, Calls
<1>1. ~Connect(c) BY DEF Connect, Quiet
<1>2. \A d \in Call \ {c} : call'[d] = call[d]
  BY <1>1 DEF CallMove, CallStep, Repeat, Abandon, Answered, Arrive, Stamp,
     EnsureAwake, GiveUp, Finish, CallTo, CallEnds, Calls, cluster
<1>3. call'[c].pc \notin {"connect", "flight"}
  BY <1>1 DEF CallMove, CallStep, Repeat, Abandon, Answered, Arrive, Stamp,
     EnsureAwake, GiveUp, Finish, CallTo, CallEnds, NoCall, Calls
<1>4. ASSUME NEW q \in Replica
      PROVE  \/ wake'[q] = wake[q]
             \/ wake'[q].pc = "wait"
  <2>1. \/ wake' = wake
        \/ wake' = [wake EXCEPT ![call[c].at].pc = "wait"]
    BY <1>1 DEF CallMove, CallStep, Repeat, Abandon, Answered, Arrive, Stamp,
       EnsureAwake, GiveUp, Finish
  <2>2. CASE q = call[c].at BY <2>1, <2>2 DEF Wakes
  <2>3. CASE q # call[c].at BY <2>1, <2>3
  <2> QED BY <2>2, <2>3
<1> QED BY <1>2, <1>3, <1>4 DEF Quiet

LEMMA SweptStep ==
    TypeOK /\ Demanded /\ SweptQuietly /\ [Next]_vars => SweptQuietly'
<1> SUFFICES ASSUME TypeOK, Demanded, SweptQuietly, [Next]_vars,
                    NEW p \in Replica, lease'.holder = Sw(p), sweep'[p] \in Decided
             PROVE  Quiet'
  BY DEF SweptQuietly
<1> Sw(p) # Nobody /\ Lease!TypeOK BY Distinct DEF TypeOK
<1>1. ASSUME NEW q \in Replica, SweepPick(q) \/ SweepStep(q)
      PROVE  Quiet'
  <2>1. Quiet => Quiet' BY <1>1, SweepFrame DEF Quiet
  <2>2. CASE lease.holder = Sw(p)
    <3>1. sweep[p] \in Decided \/ Quiet BY <1>1, SweepDecides
    <3> QED BY <2>1, <2>2, <3>1 DEF SweptQuietly
  <2>3. CASE lease.holder # Sw(p)
    <3>1. Sw(q) = Sw(p) /\ sweep'[q] = "read" BY <1>1, <2>3, SweepHolder
    <3>2. sweep'[p] = "read" BY <3>1, Distinct
    <3> QED BY <3>2 DEF Decided
  <2> QED BY <2>2, <2>3
<1>2. ASSUME NEW q \in Replica, WakeAcquire(q) \/ WakeStep(q)
      PROVE  Quiet'
  <2>1. lease'.holder # Wk(q) /\ lease.holder = Sw(p)
    BY <1>2, WakeHolder, Distinct
  <2>2. Quiet => Quiet' BY <1>2, <2>1, WakeQuiet
  <2>3. UNCHANGED sweep BY <1>2, WakeFrame
  <2> QED BY <2>1, <2>2, <2>3 DEF SweptQuietly
<1>3. ASSUME NEW c \in Call, CallMove(c)
      PROVE  Quiet'
  <2>1. UNCHANGED <<sweep, lease>>
    BY <1>3 DEF CallMove, CallStep, Repeat, Abandon, Answered, Arrive, Stamp,
       EnsureAwake, Connect, GiveUp, Finish, gate
  <2>2. Quiet => Quiet' BY <1>3, CallQuiet
  <2> QED BY <2>1, <2>2 DEF SweptQuietly
<1>4. ASSUME NEW q \in Replica, Crash(q)
      PROVE  Quiet'
  <2>1. UNCHANGED lease BY <1>4 DEF Crash, Lease!Die
  <2>2. sweep'[p] \in {sweep[p], "off"} BY <1>4 DEF Crash, TypeOK
  <2>3. Quiet => Quiet'
    <3>1. \A c \in Call : call'[c] = call[c] \/ call'[c].pc = "off"
      BY <1>4 DEF Crash, NoCall
    <3>2. \A r \in Replica : wake'[r] = wake[r] \/ wake'[r].pc = "off"
      BY <1>4 DEF Crash, NoWake
    <3> QED BY <3>1, <3>2 DEF Quiet
  <2> QED BY <2>1, <2>2, <2>3 DEF SweptQuietly, Decided
<1>5. ASSUME \/ \E q \in Replica : Refresh(q) \/ RefreshPatch(q)
             \/ \E h \in Holder : Renewal(h)
             \/ BecomeReady \/ GoIdle \/ Expire \/ Operator \/ UNCHANGED vars
      PROVE  Quiet'
  <2>1. UNCHANGED <<sweep, call, wake>> /\ lease'.holder = lease.holder
    BY <1>5 DEF Refresh, RefreshPatch, Renewal, BecomeReady, GoIdle, Expire,
       Operator, vars, gate, Lease!Assert, Lease!Expire, Lease!TypeOK
  <2> QED BY <2>1 DEF SweptQuietly, Quiet
<1> QED BY <1>1, <1>2, <1>3, <1>4, <1>5 DEF Next, CallMove

LEMMA ReadsHoldStep == TypeOK /\ ReadsHold /\ [Next]_vars => ReadsHold'
<1> SUFFICES ASSUME TypeOK, ReadsHold, [Next]_vars PROVE ReadsHold' OBVIOUS
<1> wake \in [Replica -> Wakes] BY DEF TypeOK, Wakes
<1> USE DEF Fits
(* Every write of the object, by whomever, invalidates all reads. *)
<1>1. ASSUME current' = {} PROVE ReadsHold' BY <1>1 DEF ReadsHold
<1>2. ASSUME obj' = obj, current' \subseteq current,
             \A p \in Replica : /\ wake'[p].pc = "patch" => wake'[p] = wake[p]
                                /\ refresh'[p] => refresh[p]
      PROVE  ReadsHold'
  BY <1>2 DEF ReadsHold
<1>3. ASSUME NEW p \in Replica, SweepPick(p) \/ SweepStep(p) PROVE ReadsHold'
  <2>1. CASE SweepLook(p)
    BY <2>1, Distinct DEF SweepLook, ReadsHold
  <2>2. CASE ~SweepLook(p)
    <3>1. current' = {} \/ UNCHANGED <<obj, current>>
      BY <1>3, <2>2 DEF SweepPick, SweepStep, SweepAcquire, SweepRead, SweepCheck,
         SweepFence, SweepPatch, SweepLands, Sleep, Put, SweepCommit, 
         SweepEnd, cluster
    <3> QED BY <1>1, <1>2, <1>3, <3>1, SweepFrame
  <2> QED BY <2>1, <2>2
<1>4. ASSUME NEW p \in Replica, WakeAcquire(p) \/ WakeStep(p) PROVE ReadsHold'
  <2>1. CASE WakeRead(p) /\ wake'[p].pc = "patch"
    <3>1. /\ obj' = obj /\ refresh' = refresh
          /\ current' = current \cup {Wk(p)}
          /\ Expected(wake[p].write)
          /\ wake' = [wake EXCEPT ![p].pc = "patch"]
      BY <2>1, WakeMoves DEF WakeRead, WakeTo
    <3>2. wake[p].write # "begin" => obj.up BY <3>1 DEF Expected, HalfAwake
    <3>3. wake'[p].write = wake[p].write BY <3>1 DEF Wakes
    <3> QED BY <1>4, <3>1, <3>2, <3>3, WakeFrame, Distinct DEF ReadsHold
  <2>2. CASE ~(WakeRead(p) /\ wake'[p].pc = "patch")
    <3>1. current' = {} \/ UNCHANGED <<obj, current>>
      BY <1>4, <2>2 DEF WakeAcquire, WakeStep, WakeLook, WakeFence, WakeRead,
         WakePatch, WakeLands, Put, WakeCommit, WakeReady, WakeAssert, WakeRelease,
         WakeSettle, WakeTo, Wakes, cluster
    <3>2. wake'[p].pc # "patch"
      BY <1>4, <2>2, WakeMoves, EndsMoves DEF WakeAcquire, WakeStep, WakeLook,
         WakeFence, WakeRead, WakePatch, WakeLands, WakeCommit, WakeReady,
         WakeAssert, WakeRelease, WakeSettle, NoWake, WakeTo, WakeWaits, WakeDo,
         Wakes
    <3> QED BY <1>1, <1>2, <1>4, <3>1, <3>2, WakeFrame
  <2> QED BY <2>1, <2>2
<1>5. ASSUME NEW c \in Call, CallMove(c)
      PROVE  ReadsHold'
  <2>1. UNCHANGED <<obj, current, refresh>>
    BY <1>5 DEF CallMove, CallStep, Repeat, Abandon, Answered, Arrive, Stamp,
       EnsureAwake, Connect, GiveUp, Finish, cluster
  <2>2. ASSUME NEW q \in Replica, wake'[q].pc = "patch" PROVE wake'[q] = wake[q]
    <3>1. \/ wake' = wake
          \/ wake' = [wake EXCEPT ![call[c].at].pc = "wait"]
      BY <1>5 DEF CallMove, CallStep, Repeat, Abandon, Answered, Arrive, Stamp,
         EnsureAwake, Connect, GiveUp, Finish
    <3>2. CASE q = call[c].at BY <2>2, <3>1, <3>2 DEF Wakes
    <3>3. CASE q # call[c].at BY <3>1, <3>3
    <3> QED BY <3>2, <3>3
  <2> QED BY <1>2, <2>1, <2>2
<1>6. ASSUME NEW p \in Replica, Refresh(p) PROVE ReadsHold'
  <2>1. CASE HalfAwake /\ obj.ready
    BY <1>6, <2>1, Distinct DEF Refresh, ReadsHold, HalfAwake
  <2>2. CASE ~(HalfAwake /\ obj.ready) BY <1>2, <1>6, <2>2 DEF Refresh
  <2> QED BY <2>1, <2>2
<1>7. ASSUME NEW p \in Replica, RefreshPatch(p) PROVE ReadsHold'
  <2>1. current' = {} \/ UNCHANGED <<obj, current>>
    BY <1>7 DEF RefreshPatch, Put, cluster
  <2>2. wake' = wake /\ \A q \in Replica : refresh'[q] => refresh[q]
    BY <1>7 DEF RefreshPatch, TypeOK
  <2> QED BY <1>1, <1>2, <2>1, <2>2
<1>8. ASSUME NEW p \in Replica, Crash(p) PROVE ReadsHold'
  <2>1. obj' = obj /\ current' \subseteq current BY <1>8 DEF Crash
  <2>2. ASSUME NEW q \in Replica
        PROVE  /\ wake'[q].pc = "patch" => wake'[q] = wake[q]
               /\ refresh'[q] => refresh[q]
    BY <1>8 DEF Crash, NoWake, TypeOK
  <2> QED BY <1>2, <2>1, <2>2
<1>9. ASSUME \/ \E h \in Holder : Renewal(h)
             \/ GoIdle \/ Expire \/ UNCHANGED vars
      PROVE  ReadsHold'
  BY <1>2, <1>9 DEF Renewal, GoIdle, Expire, vars, cluster
<1>10. ASSUME BecomeReady \/ Operator PROVE ReadsHold'
  BY <1>1, <1>10 DEF BecomeReady, Operator, Put
<1> QED BY <1>3, <1>4, <1>5, <1>6, <1>7, <1>8, <1>9, <1>10
       DEF Next, CallMove
---------------------------------------------------------------------------
(* The invariant, and what follows from it *)

LEMMA InitInv == Init => IInv
<1> SUFFICES ASSUME Init PROVE IInv OBVIOUS
<1>1. Demanded BY DEF Init, Demanded, Demand, Waking, NoCall, NoWake
<1>2. SweptQuietly BY DEF Init, SweptQuietly, Decided
<1>3. ReadsHold BY DEF Init, ReadsHold, Fits
<1> QED BY <1>1, <1>2, <1>3, InitTypeOK, InitGates DEF IInv

LEMMA InvStep == IInv /\ [Next]_vars => IInv'
BY TypeStep, GatesStep, DemandedStep, SweptStep, ReadsHoldStep DEF IInv

(* A sweep about to patch holds the lock, so the row still names it, and   *)
(* the quiet it found when it read the demand has lasted.                  *)
LEMMA LandsQuietly == ASSUME IInv, NEW p \in Replica, SweepLands(p) PROVE Quiet
<1>1. sweep[p] = "patch" BY DEF SweepLands
<1>2. guard[Sw(p)] = "fenced" BY <1>1 DEF IInv, Gates, SweepGate
<1>3. lease.holder = Sw(p)
  BY <1>2, HolderType, Distinct DEF IInv, Gates, LockHeld
<1> QED BY <1>1, <1>3 DEF IInv, SweptQuietly, Decided

(* However many replicas, calls and faults of any sort: no patch of a      *)
(* sweep scales a deployment to zero under a call that was let through.    *)
THEOREM NeverUnderCallHolds == Spec => NeverUnderCall
<1>1. IInv /\ [Next]_vars =>
          [\A p \in Replica : SweepLands(p) =>
              \A c \in Call : call[c].pc \notin {"connect", "flight"}]_vars
  BY LandsQuietly DEF Quiet
<1> QED BY <1>1, InitInv, InvStep, PTL DEF Spec, NeverUnderCall

(* No write of ours leaves a deployment that is down and that no wake      *)
(* would touch, because it does not carry our annotation.                  *)
THEOREM NoOrphanHolds == Spec => NoOrphan
<1>1. ASSUME IInv, NEW p \in Replica, SweepLands(p) PROVE obj'.marked
  BY <1>1 DEF SweepLands, Sleep, Put
<1>2. ASSUME IInv, NEW p \in Replica, WakeLands(p) PROVE obj'.up
  <2>1. obj \in [up : BOOLEAN, marked : BOOLEAN, ready : BOOLEAN]
    BY <1>2 DEF IInv, TypeOK
  <2>2. CASE wake[p].write = "begin" BY <1>2, <2>1, <2>2 DEF WakeLands, Put
  <2>3. CASE wake[p].write # "begin"
    <3>1. obj.up BY <1>2, <2>3 DEF WakeLands, IInv, ReadsHold
    <3> QED BY <1>2, <2>1, <2>3, <3>1 DEF WakeLands, Put
  <2> QED BY <2>2, <2>3
<1>3. ASSUME IInv, NEW p \in Replica, RefreshPatch(p) PROVE obj' = obj \/ obj'.up
  <2>1. obj \in [up : BOOLEAN, marked : BOOLEAN, ready : BOOLEAN]
    BY <1>3 DEF IInv, TypeOK
  <2>2. Fits(Rf(p)) => obj.up BY <1>3 DEF RefreshPatch, IInv, ReadsHold
  <2> QED BY <1>3, <2>1, <2>2 DEF RefreshPatch, Put, cluster
<1>4. IInv /\ [Next]_vars =>
          [\A p \in Replica : SweepLands(p) \/ WakeLands(p) \/ RefreshPatch(p) =>
              obj' = obj \/ obj'.up \/ obj'.marked]_vars
  BY <1>1, <1>2, <1>3
<1> QED BY <1>4, InitInv, InvStep, PTL DEF Spec, NoOrphan
=============================================================================
