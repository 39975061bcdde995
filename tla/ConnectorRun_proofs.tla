------------------------ MODULE ConnectorRun_proofs ------------------------
(***************************************************************************)
(* Proofs about ConnectorRun, for any syncs, handlers, bounds and length   *)
(* of the source, and any sorts and number of faults.                      *)
(***************************************************************************)
EXTENDS ConnectorRun, FiniteSetTheorems, TLAPS

(* The states of a sync past its claim; of one that has not published its  *)
(* totals; of one with a batch of the source before it.  The states of a   *)
(* handler that writes, or has written, on the run of its task.            *)
PastClaim == SyncPC \ {"claim"}
Publishing == PastClaim \ {"check", "failing"}
Looping == {"renew", "ingest", "enqueue", "flush", "checkpoint"}
Booking == {"record", "bury", "finalize", "mirror", "trigger", "queue"}

Recorded(k) == {b \in BatchesOf(k) : batch[b].recorded}
CountedStatus == {"running", "partial"} \cup Drained

(* Position q is not lost: stored, or an error of a run. *)
Accounted(q) == \/ doc[q] # "missing"
                \/ \E k \in Run : q \in missed[k] /\ run[k].errors

(* What a row r of run k says: if it is unused, of its epoch, of the count *)
(* of its outcomes, once its totals are published, and at its end.         *)
RowFits(k, r) ==
    /\ r.status = "absent" => r = NoRun /\ missed[k] = {}
    /\ r.status \in {"absent", "running"} => r.epoch = 0
    /\ r.status \in CountedStatus =>
         /\ r.completed = Cardinality(Recorded(k))
         /\ \A b \in BatchesOf(k) : batch[b].failed => r.errors
    /\ r.total > 0 => /\ r.total = Cardinality(BatchesOf(k))
                      /\ missed[k] # {} => r.errors
    /\ r.status \in Drained => Recorded(k) = BatchesOf(k)
    /\ r.family = "content" /\ r.status = "success" =>
         missed[k] = {} /\ ~r.errors

RowsOK == \A k \in Run : RowFits(k, run[k])

(* The run of an embedding task is a documents sync that was started. *)
BatchOK(b) == batch[b].status # "absent" =>
                /\ batch[b].pos \in Position
                /\ batch[b].run # 0 => Content(batch[b].run)

BatchesOK == \A b \in Batch : BatchOK(b)

(* What a sync r knows of its own run, and of the positions it has read. *)
SyncFits(r) ==
    /\ r.pc \in SyncPC \cup SharedPC
    /\ r.epoch = 0
    /\ r.pc = "claim" => r.batches = 0 /\ ~r.errs
    /\ r.pc = "mirror" => r.out \in Terminal
    /\ r.pc \in PastClaim =>
         /\ r.run \in Run
         /\ Content(r.run)
         /\ r.batches = Cardinality(BatchesOf(r.run))
         /\ missed[r.run] # {} => run[r.run].errors \/ r.errs
    /\ r.pc \in Publishing =>
         run[r.run].total = 0 /\ run[r.run].status \notin Drained
    /\ r.pc \in Looping => r.pos < SourceLen
    /\ \A q \in 1..r.pos : Accounted(q)
    /\ r.pc = "enqueue" => doc[r.pos + 1] # "missing"
    /\ r.pc = "flush" => \/ doc[r.pos + 1] # "missing"
                         \/ r.pos + 1 \in missed[r.run] /\ r.errs
    /\ r.pc = "checkpoint" => Accounted(r.pos + 1)

SyncsOK == \A p \in Sync : SyncFits(proc[p])

(* Two syncs never work on one run. *)
OwnRuns == \A p, q \in Sync :
    p # q /\ proc[p].pc \in PastClaim /\ proc[q].pc \in PastClaim =>
        proc[p].run # proc[q].run

(* A handler r holds a task that exists, and knows the task's run. *)
JobFits(r) ==
    /\ r.pc \in JobPC \cup SharedPC
    /\ r.pc # "idle" => /\ r.batch \in Batch
                        /\ batch[r.batch].status # "absent"
                        /\ batch[r.batch].run = r.run
                        /\ r.pos \in Position
    /\ r.pc \in Booking => r.run \in Run
    /\ r.pc \in {"finalize", "mirror"} => r.out \in Terminal

JobsOK == \A p \in Job : JobFits(proc[p])

SweepOK == sweep.pc = "requeue" => sweep.at \in Position

IInv == /\ TypeOK
        /\ RowsOK
        /\ BatchesOK
        /\ SyncsOK
        /\ OwnRuns
        /\ JobsOK
        /\ SweepOK
        /\ NoSilentLoss

---------------------------------------------------------------------------
(* Finite sets of batches, and least elements *)

LEMMA Bounds == MaxRuns \in Nat /\ MaxBatch \in Nat /\ SourceLen \in Nat
                /\ MaxFaults \in Nat
BY BoundAssumption DEF BoundAssumption

LEMMA BatchesFinite ==
    ASSUME NEW k
    PROVE  /\ IsFiniteSet(BatchesOf(k))
           /\ IsFiniteSet(Recorded(k))
           /\ Cardinality(BatchesOf(k)) \in Nat
           /\ Cardinality(Recorded(k)) \in Nat
<1>1. IsFiniteSet(Batch) BY Bounds, FS_Interval DEF Batch
<1>2. BatchesOf(k) \subseteq Batch BY DEF BatchesOf
<1>3. Recorded(k) \subseteq BatchesOf(k) BY DEF Recorded
<1>4. IsFiniteSet(BatchesOf(k)) BY <1>1, <1>2, FS_Subset
<1>5. IsFiniteSet(Recorded(k)) BY <1>3, <1>4, FS_Subset
<1> QED BY <1>4, <1>5, FS_CardinalityType

(* A run that has as many outcomes as batches has them all. *)
LEMMA AllIn ==
    ASSUME NEW k, Cardinality(Recorded(k)) >= Cardinality(BatchesOf(k))
    PROVE  Recorded(k) = BatchesOf(k)
<1>1. Recorded(k) \subseteq BatchesOf(k) BY DEF Recorded
<1>2. Cardinality(Recorded(k)) <= Cardinality(BatchesOf(k))
  BY <1>1, BatchesFinite, FS_Subset
<1>3. Cardinality(Recorded(k)) = Cardinality(BatchesOf(k))
  BY <1>2, BatchesFinite
<1> QED BY <1>1, <1>3, BatchesFinite, FS_Subset

(* The strict order of the naturals is well founded, so that a set of them *)
(* that is not empty has a least element.                                  *)
LEMMA LeastIn == ASSUME NEW S, S \subseteq Nat, S # {}
                 PROVE  Least(S) \in S
<1> DEFINE R == OpToRel(<, Nat)
<1>1. IsWellFoundedOn(R, Nat) BY NatLessThanWellFounded, Zenon
<1> HIDE DEF R
<1>2. PICK i \in S : \A j \in S : ~(<<j, i>> \in R) BY <1>1, WFMin
<1>3. \A j \in S : i <= j
  <2> TAKE j \in S
  <2>1. i \in Nat /\ j \in Nat OBVIOUS
  <2>2. ~(j < i) BY <1>2, <2>1 DEF R, OpToRel
  <2> QED BY <2>1, <2>2
<1> QED BY <1>3 DEF Least

---------------------------------------------------------------------------
(* Frames: what a change of one row, or of one invocation, leaves alone *)

(* An unused row has no batches. *)
LEMMA UnusedEmpty ==
    ASSUME RowsOK, BatchesOK, NEW k \in Run, run[k].status = "absent"
    PROVE  /\ run[k] = NoRun /\ missed[k] = {}
           /\ BatchesOf(k) = {} /\ Recorded(k) = {}
           /\ ~Content(k)
<1>1. run[k] = NoRun /\ missed[k] = {} BY DEF RowsOK, RowFits
<1>2. ~Content(k) BY <1>1 DEF Content, NoRun
<1>3. k # 0 BY Bounds DEF Run
<1>4. BatchesOf(k) = {}
  <2> SUFFICES ASSUME NEW b \in BatchesOf(k) PROVE FALSE OBVIOUS
  <2>1. b \in Batch /\ batch[b].run = k /\ batch[b].status # "absent" BY DEF BatchesOf
  <2> QED BY <1>2, <1>3, <2>1 DEF BatchesOK, BatchOK
<1> QED BY <1>1, <1>2, <1>4 DEF Recorded

(* Positions stay accounted for: no document is removed, and neither an    *)
(* error nor a failed item of a run is forgotten.                          *)
LEMMA AccountedStays ==
    ASSUME \A q \in Position : doc[q] # "missing" => doc'[q] # "missing",
           \A k \in Run : /\ missed[k] \subseteq missed'[k]
                          /\ run[k].errors => run'[k].errors
    PROVE  \A q \in Position : Accounted(q) => Accounted(q)'
BY DEF Accounted

LEMMA PrefixInPosition == ASSUME NEW n \in 0..SourceLen
                          PROVE  1..n \subseteq Position
BY Bounds DEF Position

LEMMA LossStays ==
    ASSUME TypeOK, NoSilentLoss, connector'.checkpoint = connector.checkpoint,
           \A q \in Position : Accounted(q) => Accounted(q)'
    PROVE  NoSilentLoss'
<1>1. connector.checkpoint \in 0..SourceLen BY DEF TypeOK, Connector
<1>2. \A q \in 1..connector.checkpoint : Accounted(q) BY DEF NoSilentLoss, Accounted
<1>3. \A q \in 1..connector.checkpoint : Accounted(q)' BY <1>1, <1>2, PrefixInPosition
<1> QED BY <1>3 DEF NoSilentLoss, Accounted

(* The rows, when neither a row nor a batch changes. *)
SameBatches == \A k : BatchesOf(k)' = BatchesOf(k) /\ Recorded(k)' = Recorded(k)

LEMMA BatchesSame == ASSUME batch' = batch PROVE SameBatches
BY DEF SameBatches, BatchesOf, Recorded

(* One row changes: the others, the batches, and the invocations that know *)
(* nothing of it, or only what is still so, fit as before.                 *)
LEMMA RowChanges ==
    ASSUME IInv, NEW k \in Run, NEW row \in RunRow,
           run' = [run EXCEPT ![k] = row], UNCHANGED <<batch, doc, missed>>,
           RowFits(k, row), run[k].errors => row.errors,
           run[k].status # "absent" => row.family = run[k].family
    PROVE  /\ run' \in [Run -> RunRow]
           /\ RowsOK'
           /\ BatchesOK'
           /\ \A q \in Position : Accounted(q) => Accounted(q)'
           /\ \A q \in Job : proc'[q] = proc[q] => JobFits(proc[q])'
           /\ \A q \in Sync :
                 /\ proc'[q] = proc[q]
                 /\ proc[q].pc \in Publishing /\ proc[q].run = k =>
                      row.total = 0 /\ row.status \notin Drained
                 => SyncFits(proc[q])'
<1> USE DEF IInv
<1>1. run \in [Run -> RunRow] BY DEF TypeOK
<1>2. run' \in [Run -> RunRow] BY <1>1
<1>3. run'[k] = row /\ \A j \in Run : j # k => run'[j] = run[j] BY <1>1
<1>4. \A j \in Run : run[j].errors => run'[j].errors BY <1>3
<1>5. \A j : BatchesOf(j)' = BatchesOf(j) /\ Recorded(j)' = Recorded(j)
  BY BatchesSame DEF SameBatches
<1>6. RowsOK'
  <2> SUFFICES ASSUME NEW j \in Run PROVE RowFits(j, run[j])' BY DEF RowsOK
  <2>1. RowFits(j, run'[j]) BY <1>3 DEF RowsOK
  <2> QED BY <2>1, <1>5 DEF RowFits
<1>7. \A j \in Run : Content(j) => Content(j)'
  BY <1>3, UnusedEmpty DEF Content
<1>8. BatchesOK'
  <2> SUFFICES ASSUME NEW b \in Batch PROVE BatchOK(b)' BY DEF BatchesOK
  <2>1. BatchOK(b) BY DEF BatchesOK
  <2>2. batch[b].run \in 0..MaxRuns BY DEF TypeOK, BatchRow
  <2>3. batch[b].run # 0 => batch[b].run \in Run BY <2>2, Bounds DEF Run
  <2> QED BY <1>7, <2>1, <2>3 DEF BatchOK
<1>9. \A q \in Position : Accounted(q) => Accounted(q)'
  BY <1>4, AccountedStays
<1>10. ASSUME NEW q \in Job, proc'[q] = proc[q] PROVE JobFits(proc[q])'
  BY <1>10 DEF JobFits, JobsOK
<1>11. ASSUME NEW q \in Sync, proc'[q] = proc[q],
              proc[q].pc \in Publishing /\ proc[q].run = k =>
                      row.total = 0 /\ row.status \notin Drained
       PROVE  SyncFits(proc[q])'
  <2> DEFINE r == proc[q]
  <2>0. r \in Process /\ SyncFits(r) BY DEF TypeOK, Proc, SyncsOK
  <2>1. r.pos \in 0..SourceLen BY <2>0 DEF Process
  <2>2. \A o \in 1..r.pos : Accounted(o)'
    BY <1>9, <2>0, <2>1, PrefixInPosition DEF SyncFits
  <2>3. r.pc = "checkpoint" => Accounted(r.pos + 1)'
    <3> SUFFICES ASSUME r.pc = "checkpoint" PROVE Accounted(r.pos + 1)' OBVIOUS
    <3>1. r.pos < SourceLen BY <2>0 DEF SyncFits, Looping
    <3>2. r.pos + 1 \in Position BY <2>1, <3>1, Bounds DEF Position
    <3>3. Accounted(r.pos + 1) BY <2>0 DEF SyncFits
    <3> QED BY <1>9, <1>11, <3>2, <3>3
  <2>4. r.pc \in PastClaim =>
         /\ r.run \in Run
         /\ Content(r.run)'
         /\ r.batches = Cardinality(BatchesOf(r.run))'
         /\ missed'[r.run] # {} => run'[r.run].errors \/ r.errs
    <3> SUFFICES ASSUME r.pc \in PastClaim
                 PROVE  /\ r.run \in Run
                        /\ Content(r.run)'
                        /\ r.batches = Cardinality(BatchesOf(r.run))'
                        /\ missed'[r.run] # {} => run'[r.run].errors \/ r.errs
      OBVIOUS
    <3>1. r.run \in Run /\ Content(r.run) /\ r.batches = Cardinality(BatchesOf(r.run))
      BY <2>0 DEF SyncFits
    <3>2. Content(r.run)' BY <1>7, <1>11, <3>1 DEF Content
    <3>3. BatchesOf(r.run)' = BatchesOf(r.run) BY <1>11 DEF BatchesOf
    <3> QED BY <1>4, <2>0, <3>1, <3>2, <3>3 DEF SyncFits
  <2>5. r.pc \in Publishing =>
         run'[r.run].total = 0 /\ run'[r.run].status \notin Drained
    BY <1>3, <1>11, <2>0 DEF SyncFits, Publishing
  <2> QED BY <1>11, <2>0, <2>2, <2>3, <2>4, <2>5 DEF SyncFits
<1> QED BY <1>2, <1>6, <1>8, <1>9, <1>10, <1>11

LEMMA IdleFits == /\ Idle \in Process
                  /\ Idle.pc = "idle" /\ Idle.pos = 0 /\ Idle.epoch = 0
                  /\ SyncFits(Idle)
                  /\ JobFits(Idle)
<1>1. Idle \in Process BY Bounds DEF Idle, Process, SharedPC
<1>2. 1..0 = {} OBVIOUS
<1>3. SyncFits(Idle)
  BY <1>2 DEF Idle, SyncFits, SharedPC, PastClaim, SyncPC, Publishing, Looping
<1>4. JobFits(Idle) BY DEF Idle, JobFits, SharedPC, Booking
<1> QED BY <1>1, <1>3, <1>4 DEF Idle

(* The invocations when only p moves: who owns which run stays apart. *)
LEMMA OneMoves ==
    ASSUME IInv, NEW p \in Proc, NEW r \in Process, Set(p, r),
           p \in Sync /\ r.pc \in PastClaim =>
               proc[p].pc \in PastClaim /\ r.run = proc[p].run
    PROVE  /\ proc' \in [Proc -> Process]
           /\ proc'[p] = r
           /\ \A q \in Proc : q # p => proc'[q] = proc[q]
           /\ OwnRuns'
<1>1. proc \in [Proc -> Process] BY DEF IInv, TypeOK
<1>2. proc' \in [Proc -> Process] BY <1>1 DEF Set
<1>3. proc'[p] = r /\ \A q \in Proc : q # p => proc'[q] = proc[q]
  BY <1>1 DEF Set
<1>4. OwnRuns'
  <2> SUFFICES ASSUME NEW a \in Sync, NEW b \in Sync, a # b,
                      proc'[a].pc \in PastClaim, proc'[b].pc \in PastClaim
               PROVE  proc'[a].run # proc'[b].run
    BY DEF OwnRuns
  <2>1. a \in Proc /\ b \in Proc BY DEF Proc
  <2>2. proc[a].pc \in PastClaim /\ proc[a].run = proc'[a].run BY <1>3, <2>1
  <2>3. proc[b].pc \in PastClaim /\ proc[b].run = proc'[b].run BY <1>3, <2>1
  <2> QED BY <2>2, <2>3 DEF OwnRuns, IInv
<1> QED BY <1>2, <1>3, <1>4

(* An invocation moves and touches neither rows, batches nor documents. *)
LEMMA Moves ==
    ASSUME IInv, NEW p \in Proc, NEW r \in Process, Set(p, r),
           UNCHANGED <<run, doc, batch, sweep, route, missed>>,
           permission' \in Nat, faults' \in Nat, connector' \in Connector,
           \/ connector'.checkpoint = connector.checkpoint
           \/ \A q \in 1..connector'.checkpoint : Accounted(q),
           p \in Sync => /\ SyncFits(r)
                         /\ r.pc \in PastClaim =>
                              proc[p].pc \in PastClaim /\ r.run = proc[p].run,
           p \in Job => JobFits(r)
    PROVE  IInv'
<1>1. /\ proc' \in [Proc -> Process]
      /\ proc'[p] = r
      /\ \A q \in Proc : q # p => proc'[q] = proc[q]
      /\ OwnRuns'
  BY OneMoves
<1>2. TypeOK' BY <1>1 DEF TypeOK, IInv
<1>3. RowsOK'
  <2> SUFFICES ASSUME NEW k \in Run PROVE RowFits(k, run[k])' BY DEF RowsOK
  <2>1. RowFits(k, run[k]) BY DEF IInv, RowsOK
  <2>2. BatchesOf(k)' = BatchesOf(k) /\ Recorded(k)' = Recorded(k)
    BY BatchesSame DEF SameBatches
  <2> QED BY <2>1, <2>2 DEF RowFits
<1>4. BatchesOK' BY DEF IInv, BatchesOK, BatchOK, Content
<1>5. SyncsOK'
  <2> SUFFICES ASSUME NEW q \in Sync PROVE SyncFits(proc[q])' BY DEF SyncsOK
  <2>1. q \in Proc BY DEF Proc
  <2>2. SyncFits(proc'[q]) BY <1>1, <2>1 DEF IInv, SyncsOK
  <2> QED BY <2>2 DEF SyncFits, Accounted, Content, BatchesOf
<1>6. JobsOK'
  <2> SUFFICES ASSUME NEW q \in Job PROVE JobFits(proc[q])' BY DEF JobsOK
  <2>1. q \in Proc BY DEF Proc
  <2>2. JobFits(proc'[q]) BY <1>1, <2>1 DEF IInv, JobsOK
  <2> QED BY <2>2 DEF JobFits
<1>7. SweepOK' BY DEF IInv, SweepOK
<1>8. NoSilentLoss' BY DEF IInv, NoSilentLoss, Accounted
<1> QED BY <1>1, <1>2, <1>3, <1>4, <1>5, <1>6, <1>7, <1>8 DEF IInv

(* A sync writes on the row of its own run, and goes on or to its end. *)
LEMMA OwnRowChanges ==
    ASSUME IInv, NEW p \in Sync, proc[p].pc \in PastClaim,
           NEW k \in Run, k = proc[p].run, NEW row \in RunRow,
           run' = [run EXCEPT ![k] = row],
           RowFits(k, row), row.family = "content", run[k].errors => row.errors,
           NEW r \in Process, Set(p, r),
           r.pc \in {"ingest", "checkpoint", "check", "mirror"},
           r.run = k, r.pos = proc[p].pos, r.epoch = proc[p].epoch,
           r.batches = proc[p].batches, r.pc = "mirror" => r.out \in Terminal,
           r.pc = "mirror" \/ missed[k] = {} \/ row.errors \/ r.errs,
           r.pc \in Looping => /\ row.total = 0 /\ row.status \notin Drained
                               /\ r.pos < SourceLen,
           r.pc = "checkpoint" => \/ doc[r.pos + 1] # "missing"
                                  \/ r.pos + 1 \in missed[k] /\ row.errors,
           UNCHANGED <<connector, doc, batch, sweep, route, missed>>,
           permission' \in Nat, faults' \in Nat
    PROVE  IInv'
<1>0. p \in Proc /\ Content(k) /\ SyncFits(proc[p])
  BY DEF Proc, IInv, SyncsOK, SyncFits
<1>1. /\ proc' \in [Proc -> Process]
      /\ proc'[p] = r
      /\ \A q \in Proc : q # p => proc'[q] = proc[q]
      /\ OwnRuns'
  BY <1>0, OneMoves
<1>2. /\ run' \in [Run -> RunRow]
      /\ RowsOK'
      /\ BatchesOK'
      /\ \A q \in Position : Accounted(q) => Accounted(q)'
      /\ \A q \in Job : proc'[q] = proc[q] => JobFits(proc[q])'
      /\ \A q \in Sync :
            /\ proc'[q] = proc[q]
            /\ proc[q].pc \in Publishing /\ proc[q].run = k =>
                      row.total = 0 /\ row.status \notin Drained
            => SyncFits(proc[q])'
  <2>1. run[k].status # "absent" => row.family = run[k].family BY <1>0 DEF Content
  <2> QED BY <2>1, RowChanges
<1>3. TypeOK' BY <1>1, <1>2 DEF TypeOK, IInv
<1>4. SyncFits(proc[p])'
  <2>1. run'[k] = row BY DEF IInv, TypeOK
  <2>2. Content(k)' BY <2>1 DEF Content
  <2>3. BatchesOf(k)' = BatchesOf(k) BY DEF BatchesOf
  <2>4. r.batches = Cardinality(BatchesOf(k)) BY <1>0 DEF SyncFits
  <2>5. r.pos \in 0..SourceLen BY DEF Process
  <2>6. \A q \in 1..r.pos : Accounted(q)'
    BY <1>0, <1>2, <2>5, PrefixInPosition DEF SyncFits
  <2>7. r.pc = "checkpoint" => Accounted(r.pos + 1)'
    BY <2>1 DEF Accounted
  <2>8. r.epoch = 0 BY <1>0 DEF SyncFits
  <2>9. r.pc \notin {"claim", "enqueue", "flush"} OBVIOUS
  <2>10. r.pc \in SyncPC \cup SharedPC BY DEF SyncPC, SharedPC
  <2>11. r.pc \in PastClaim => r.pc # "mirror" BY DEF PastClaim, SyncPC
  <2>12. r.pc \in Publishing => r.pc \in Looping
    BY DEF PastClaim, SyncPC, Looping, Publishing
  <2>13. r.pc \in PastClaim =>
           /\ r.run \in Run
           /\ Content(r.run)'
           /\ r.batches = Cardinality(BatchesOf(r.run))'
           /\ missed'[r.run] # {} => run'[r.run].errors \/ r.errs
    BY <2>1, <2>2, <2>3, <2>4, <2>11
  <2>14. r.pc \in Publishing =>
         run'[r.run].total = 0 /\ run'[r.run].status \notin Drained
    BY <2>1, <2>12
  <2> QED
    BY <1>1, <2>6, <2>7, <2>8, <2>9, <2>10, <2>13, <2>14 DEF SyncFits
<1>5. SyncsOK'
  <2> SUFFICES ASSUME NEW q \in Sync PROVE SyncFits(proc[q])' BY DEF SyncsOK
  <2>1. q \in Proc BY DEF Proc
  <2>2. CASE q = p
    BY <1>4, <2>2
  <2>3. CASE q # p
    <3>1. ~(proc[q].pc \in Publishing /\ proc[q].run = k)
      BY <2>3 DEF IInv, OwnRuns, Publishing
    <3> QED BY <1>1, <1>2, <2>1, <2>3, <3>1
  <2> QED BY <2>2, <2>3
<1>6. JobsOK'
  <2> SUFFICES ASSUME NEW q \in Job PROVE JobFits(proc[q])' BY DEF JobsOK
  <2> QED BY <1>1, <1>2, ProcAssumption DEF Proc, ProcAssumption
<1>7. SweepOK' BY DEF IInv, SweepOK
<1>8. NoSilentLoss' BY <1>2, LossStays DEF IInv
<1> QED BY <1>1, <1>2, <1>3, <1>5, <1>6, <1>7, <1>8 DEF IInv

(* Somebody writes on a row, and no invocation moves. *)
LEMMA RowAlone ==
    ASSUME IInv, NEW k \in Run, NEW row \in RunRow,
           run' = [run EXCEPT ![k] = row], RowFits(k, row),
           run[k].errors => row.errors,
           run[k].status # "absent" => row.family = run[k].family,
           Content(k) /\ run[k].total = 0 /\ run[k].status \notin Drained =>
               row.total = 0 /\ row.status \notin Drained,
           UNCHANGED <<connector, doc, batch, proc, missed>>,
           sweep' \in [pc : {"idle", "mark", "requeue"}, at : Nat], SweepOK',
           route' \in [run : 0..MaxRuns, todo : SUBSET {"purge", "mark"}],
           permission' \in Nat, faults' \in Nat
    PROVE  IInv'
<1>1. /\ run' \in [Run -> RunRow]
      /\ RowsOK'
      /\ BatchesOK'
      /\ \A q \in Position : Accounted(q) => Accounted(q)'
      /\ \A q \in Job : proc'[q] = proc[q] => JobFits(proc[q])'
      /\ \A q \in Sync :
            /\ proc'[q] = proc[q]
            /\ proc[q].pc \in Publishing /\ proc[q].run = k =>
                      row.total = 0 /\ row.status \notin Drained
            => SyncFits(proc[q])'
  BY RowChanges
<1>2. TypeOK' BY <1>1 DEF TypeOK, IInv
<1>3. SyncsOK'
  <2> SUFFICES ASSUME NEW q \in Sync PROVE SyncFits(proc[q])' BY DEF SyncsOK
  <2>1. SyncFits(proc[q]) BY DEF IInv, SyncsOK
  <2>2. proc[q].pc \in Publishing /\ proc[q].run = k =>
          row.total = 0 /\ row.status \notin Drained
    BY <2>1 DEF SyncFits, Publishing
  <2> QED BY <1>1, <2>2
<1>4. JobsOK' BY <1>1 DEF JobsOK
<1>5. OwnRuns' BY DEF IInv, OwnRuns
<1>6. NoSilentLoss' BY <1>1, LossStays DEF IInv
<1> QED BY <1>1, <1>2, <1>3, <1>4, <1>5, <1>6 DEF IInv

---------------------------------------------------------------------------
(* The steps of a sync that write on no row *)

LEMMA SpendType == ASSUME TypeOK, NEW f, Spend(f) PROVE faults' \in Nat
BY DEF Spend, TypeOK

LEMMA SyncHas == ASSUME IInv, NEW p \in Sync
                 PROVE  p \in Proc /\ p \notin Job /\ proc[p] \in Process /\ SyncFits(proc[p])
BY ProcAssumption DEF IInv, TypeOK, SyncsOK, Proc, ProcAssumption

LEMMA JobHas == ASSUME IInv, NEW p \in Job
                PROVE  p \in Proc /\ p \notin Sync /\ proc[p] \in Process /\ JobFits(proc[p])
BY ProcAssumption DEF IInv, TypeOK, JobsOK, Proc, ProcAssumption

LEMMA Leaves ==
    ASSUME IInv, NEW p \in Proc, Leave(p), faults' \in Nat,
           UNCHANGED <<run, connector, doc, batch, sweep, route, permission, missed>>
    PROVE  IInv'
<1>1. Set(p, Idle) BY DEF Leave
<1>2. Idle.pc \notin PastClaim BY DEF Idle, PastClaim, SyncPC
<1>3. connector' \in Connector /\ permission' \in Nat BY DEF IInv, TypeOK
<1> QED BY <1>1, <1>2, <1>3, IdleFits, Moves

LEMMA Quitting ==
    ASSUME IInv, NEW p \in Proc, ClaimBusy(p) \/ LateThrow(p) \/ Crash(p)
    PROVE  IInv'
<1>1. faults' \in Nat BY SpendType DEF ClaimBusy, LateThrow, Crash, IInv, TypeOK
<1> QED BY <1>1, Leaves DEF ClaimBusy, LateThrow, Crash

LEMMA Reading == ASSUME IInv, NEW p \in Sync, Read(p) PROVE IInv'
<1> DEFINE r == [Idle EXCEPT !.pc = "claim", !.pos = connector.checkpoint]
<1>0. p \in Proc /\ p \notin Job BY SyncHas
<1>1. connector.checkpoint \in 0..SourceLen BY DEF IInv, TypeOK, Connector
<1>2. r \in Process
  BY <1>1, IdleFits DEF Process, SyncPC
<1>3. r.pc = "claim" /\ r.pos = connector.checkpoint /\ r.epoch = 0
      /\ r.batches = 0 /\ r.errs = FALSE
  BY DEF Idle
<1>4. \A q \in 1..r.pos : Accounted(q) BY <1>3 DEF IInv, NoSilentLoss, Accounted
<1>5. SyncFits(r)
  BY <1>3, <1>4 DEF SyncFits, SyncPC, PastClaim, Publishing, Looping
<1>6. r.pc \notin PastClaim BY <1>3 DEF PastClaim
<1>7. Set(p, r) BY DEF Read
<1>8. connector' \in Connector /\ permission' \in Nat /\ faults' \in Nat
  BY DEF Read, IInv, TypeOK
<1> HIDE DEF r
<1> QED BY <1>0, <1>2, <1>5, <1>6, <1>7, <1>8, Moves DEF Read

LEMMA Announcing == ASSUME IInv, NEW p \in Sync, Announce(p) PROVE IInv'
<1> DEFINE pc == IF proc[p].pos < SourceLen THEN "renew" ELSE "finish"
           r == [proc[p] EXCEPT !.pc = pc]
<1>0. p \in Proc /\ p \notin Job /\ proc[p] \in Process /\ SyncFits(proc[p]) BY SyncHas
<1>1. proc[p].pc = "announce" BY DEF Announce, At
<1>2. r \in Process BY <1>0 DEF Process, SyncPC
<1>3. /\ r.pc = pc /\ r.run = proc[p].run /\ r.pos = proc[p].pos
      /\ r.epoch = proc[p].epoch /\ r.batches = proc[p].batches
      /\ r.errs = proc[p].errs
  BY <1>0 DEF Process
<1>4. proc[p].pc \in PastClaim /\ proc[p].pc \in Publishing
  BY <1>1 DEF PastClaim, SyncPC, Publishing
<1>5. SyncFits(r)
  BY <1>0, <1>3, <1>4 DEF SyncFits, SyncPC, PastClaim, Publishing, Looping
<1>6. Set(p, r) BY DEF Announce, Goto
<1>7. connector' \in Connector /\ connector'.checkpoint = connector.checkpoint
  BY <1>0 DEF Announce, IInv, TypeOK, Connector, Process
<1>8. permission' \in Nat /\ faults' \in Nat BY DEF Announce, IInv, TypeOK
<1> HIDE DEF r
<1> QED BY <1>0, <1>2, <1>3, <1>4, <1>5, <1>6, <1>7, <1>8, Moves DEF Announce

LEMMA Throwing == ASSUME IInv, NEW p \in Sync, Throw(p) PROVE IInv'
<1> DEFINE r == [proc[p] EXCEPT !.pc = "failing"]
<1>0. p \in Proc /\ p \notin Job /\ proc[p] \in Process /\ SyncFits(proc[p]) BY SyncHas
<1>1. proc[p].pc \in PastClaim BY DEF Throw, PastClaim
<1>2. r \in Process BY <1>0 DEF Process, SyncPC
<1>3. /\ r.pc = "failing" /\ r.run = proc[p].run /\ r.pos = proc[p].pos
      /\ r.epoch = proc[p].epoch /\ r.batches = proc[p].batches
      /\ r.errs = proc[p].errs
  BY <1>0 DEF Process
<1>4. SyncFits(r)
  BY <1>0, <1>1, <1>3 DEF SyncFits, SyncPC, Publishing, Looping
<1>5. Set(p, r) BY DEF Throw, Goto
<1>6. connector' \in Connector /\ permission' \in Nat BY DEF Throw, IInv, TypeOK
<1>7. faults' \in Nat BY SpendType DEF Throw, IInv
<1> HIDE DEF r
<1> QED BY <1>0, <1>1, <1>2, <1>3, <1>4, <1>5, <1>6, <1>7, Moves DEF Throw

(* The checkpoint moves past a batch that was stored, or whose error is    *)
(* on the run.                                                             *)
LEMMA Checkpointing == ASSUME IInv, NEW p \in Sync, Checkpoint(p) PROVE IInv'
<1>0. p \in Proc /\ p \notin Job /\ proc[p] \in Process /\ SyncFits(proc[p]) BY SyncHas
<1>1. proc[p].pc = "checkpoint" BY DEF Checkpoint, At
<1>2. proc[p].pc \in PastClaim /\ proc[p].pc \in Publishing /\ proc[p].pc \in Looping
  BY <1>1 DEF PastClaim, SyncPC, Publishing, Looping
<1>3. /\ proc[p].pos \in 0..SourceLen /\ proc[p].pos < SourceLen
      /\ proc[p].pos + 1 \in 0..SourceLen
  BY <1>0, <1>2, Bounds DEF SyncFits, Process
<1>4. \A q \in 1..(proc[p].pos + 1) : Accounted(q)
  <2>1. \A q \in 1..proc[p].pos : Accounted(q) BY <1>0 DEF SyncFits
  <2>2. Accounted(proc[p].pos + 1) BY <1>0, <1>1 DEF SyncFits
  <2>3. \A q \in 1..(proc[p].pos + 1) : q \in 1..proc[p].pos \/ q = proc[p].pos + 1
    BY <1>3
  <2> QED BY <2>1, <2>2, <2>3
<1>5. PICK pc \in {"renew", "finish", "stop"} :
         /\ Set(p, [proc[p] EXCEPT !.pos = @ + 1, !.pc = pc])
         /\ pc = "renew" => proc[p].pos + 1 < SourceLen
  BY DEF Checkpoint, Here
<1>6. faults' \in Nat BY SpendType DEF Checkpoint, IInv, TypeOK
<1> DEFINE r == [proc[p] EXCEPT !.pos = @ + 1, !.pc = pc]
<1>7. r \in Process BY <1>0, <1>3 DEF Process, SyncPC
<1>8. /\ r.pc = pc /\ r.run = proc[p].run /\ r.pos = proc[p].pos + 1
      /\ r.epoch = proc[p].epoch /\ r.batches = proc[p].batches
      /\ r.errs = proc[p].errs
  BY <1>0 DEF Process
<1>9. SyncFits(r)
  BY <1>0, <1>2, <1>4, <1>5, <1>8 DEF SyncFits, SyncPC, PastClaim, Publishing, Looping
<1>10. Set(p, r) BY <1>5
<1>11. connector \in Connector BY DEF IInv, TypeOK
<1>12. connector' \in Connector BY <1>3, <1>11 DEF Checkpoint, Here, Connector
<1>13. \/ connector'.checkpoint = connector.checkpoint
       \/ \A q \in 1..connector'.checkpoint : Accounted(q)
  BY <1>4, <1>11 DEF Checkpoint, Here, Connector
<1>14. permission' \in Nat BY DEF Checkpoint, IInv, TypeOK
<1> HIDE DEF r
<1> QED BY <1>0, <1>2, <1>6, <1>7, <1>8, <1>9, <1>10, <1>12, <1>13, <1>14, Moves
        DEF Checkpoint

(* The mirror on the connector and the permission pass, by either side. *)
LEMMA Following ==
    ASSUME IInv, NEW p \in Proc, Mirror(p) \/ Trigger(p) \/ QueuePass(p)
    PROVE  IInv'
<1>0. proc[p] \in Process BY DEF IInv, TypeOK
<1>1. proc[p].pc \in {"mirror", "trigger", "queue"}
  BY DEF Mirror, Trigger, QueuePass, At
<1>2. /\ p \in Sync => p \notin Job /\ SyncFits(proc[p])
      /\ p \in Job => p \notin Sync /\ JobFits(proc[p])
  BY SyncHas, JobHas
<1>3. connector' \in Connector /\ connector'.checkpoint = connector.checkpoint
  <2>1. connector \in Connector BY DEF IInv, TypeOK
  <2>2. Mirror(p) => proc[p].out \in Terminal
    BY <1>2 DEF Mirror, At, SyncFits, JobFits, Proc
  <2>3. CASE Mirror(p)
    <3>1. connector' = [connector EXCEPT !.status = proc[p].out,
                        !.at = IF proc[p].out = "partial" THEN @ ELSE 0]
      BY <2>3 DEF Mirror
    <3>2. 0 \in 0..MaxRuns BY Bounds
    <3> QED BY <2>1, <2>2, <2>3, <3>1, <3>2 DEF Connector
  <2>4. CASE Trigger(p) \/ QueuePass(p) BY <2>1, <2>4 DEF Trigger, QueuePass
  <2> QED BY <2>3, <2>4
<1>4. permission' \in Nat /\ faults' \in Nat
  BY DEF IInv, TypeOK, Mirror, Trigger, QueuePass
<1>5. PICK pc \in {"leave", "trigger", "queue", "done"} :
         /\ pc = "leave" => Set(p, Idle)
         /\ pc # "leave" => Set(p, [proc[p] EXCEPT !.pc = pc])
         /\ pc = "done" => p \in Job
  BY DEF Mirror, Trigger, QueuePass, Return, Goto, Leave
<1>6. UNCHANGED <<run, doc, batch, sweep, route, missed>>
  BY DEF Mirror, Trigger, QueuePass
<1>7. CASE pc = "leave"
  <2>1. Idle.pc \notin PastClaim BY DEF Idle, PastClaim, SyncPC
  <2> QED BY <1>3, <1>4, <1>5, <1>6, <1>7, <2>1, IdleFits, Moves
<1>8. CASE pc # "leave"
  <2> DEFINE r == [proc[p] EXCEPT !.pc = pc]
  <2>1. r \in Process BY <1>0, <1>8 DEF Process, SharedPC, JobPC
  <2>2. /\ r.pc = pc /\ r.run = proc[p].run /\ r.pos = proc[p].pos
        /\ r.epoch = proc[p].epoch /\ r.batch = proc[p].batch
    BY <1>0 DEF Process
  <2>3. p \in Sync => SyncFits(r) /\ r.pc \notin PastClaim
    BY <1>2, <1>5, <1>8, <2>2
    DEF SyncFits, SyncPC, SharedPC, PastClaim, Publishing, Looping
  <2>4. p \in Job => JobFits(r)
    BY <1>1, <1>2, <1>8, <2>2 DEF JobFits, JobPC, SharedPC, Booking
  <2>5. Set(p, r) BY <1>5, <1>8
  <2> HIDE DEF r
  <2> QED BY <1>3, <1>4, <1>6, <2>1, <2>3, <2>4, <2>5, Moves
<1> QED BY <1>7, <1>8

---------------------------------------------------------------------------
(* The steps of a sync on its row *)

(* What a write on a running row must establish. *)
LEMMA RowFrom ==
    ASSUME IInv, NEW k \in Run, Running(k), NEW row \in RunRow,
           row.status # "absent", row.completed = run[k].completed,
           run[k].errors => row.errors,
           row.status = "running" => row.epoch = run[k].epoch,
           \/ row.total = run[k].total
           \/ /\ row.total = Cardinality(BatchesOf(k))
              /\ missed[k] # {} => row.errors,
           row.status \in Drained => Recorded(k) = BatchesOf(k),
           row.family = "content" /\ row.status = "success" =>
               missed[k] = {} /\ ~row.errors
    PROVE  RowFits(k, row)
<1>1. RowFits(k, run[k]) BY DEF IInv, RowsOK
<1>2. run[k].status = "running" BY DEF Running
<1>3. run[k].status \in CountedStatus BY <1>2 DEF CountedStatus
<1> QED BY <1>1, <1>2, <1>3 DEF RowFits

(* A drained row has all its outcomes, and is green only if it is clean. *)
LEMMA DrainFits ==
    ASSUME IInv, NEW k \in Run, Running(k), DrainStatus(run[k]) \in Drained
    PROVE  /\ Recorded(k) = BatchesOf(k)
           /\ DrainStatus(run[k]) = "success" => missed[k] = {} /\ ~run[k].errors
<1>1. RowFits(k, run[k]) /\ run[k] \in RunRow BY DEF IInv, RowsOK, TypeOK
<1>2. run[k].status = "running" BY DEF Running
<1>3. run[k].total > 0 /\ run[k].completed >= run[k].total
  BY <1>2 DEF DrainStatus, Drained
<1>4. run[k].completed = Cardinality(Recorded(k))
  BY <1>1, <1>2 DEF RowFits, CountedStatus
<1>5. run[k].total = Cardinality(BatchesOf(k)) BY <1>1, <1>3 DEF RowFits
<1>6. Recorded(k) = BatchesOf(k) BY <1>3, <1>4, <1>5, AllIn
<1>7. DrainStatus(run[k]) = "success" => ~run[k].errors BY <1>3 DEF DrainStatus
<1> QED BY <1>1, <1>3, <1>6, <1>7 DEF RowFits

(* The facts about a sync and its row that the steps below start from. *)
LEMMA OwnRow ==
    ASSUME IInv, NEW p \in Sync, proc[p].pc \in PastClaim
    PROVE  /\ p \in Proc /\ p \notin Job
           /\ proc[p] \in Process /\ SyncFits(proc[p])
           /\ proc[p].run \in Run /\ Content(proc[p].run)
           /\ run[proc[p].run] \in RunRow
           /\ run[proc[p].run].family = "content"
           /\ RowFits(proc[p].run, run[proc[p].run])
           /\ proc[p].batches = Cardinality(BatchesOf(proc[p].run))
           /\ proc[p].batches \in Nat
           /\ proc[p].errs \in BOOLEAN /\ run[proc[p].run].errors \in BOOLEAN
           /\ missed[proc[p].run] # {} => run[proc[p].run].errors \/ proc[p].errs
<1>1. p \in Proc /\ p \notin Job /\ proc[p] \in Process /\ SyncFits(proc[p]) BY SyncHas
<1>2. proc[p].run \in Run /\ Content(proc[p].run) BY <1>1 DEF SyncFits
<1>3. run[proc[p].run] \in RunRow BY <1>2 DEF IInv, TypeOK
<1>4. RowFits(proc[p].run, run[proc[p].run]) BY <1>2 DEF IInv, RowsOK
<1> QED BY <1>1, <1>2, <1>3, <1>4 DEF SyncFits, Content, Process, RunRow

LEMMA Refusing == ASSUME IInv, NEW p \in Sync, Refuse(p) PROVE IInv'
<1>1. proc[p].pc = "announce" BY DEF Refuse, At
<1>2. proc[p].pc \in PastClaim BY <1>1 DEF PastClaim, SyncPC
<1> DEFINE k == proc[p].run
           r == [proc[p] EXCEPT !.pc = "mirror", !.out = "failed"]
           row == Ended(k, "failed")
<1>3. /\ p \in Proc /\ p \notin Job
      /\ proc[p] \in Process /\ SyncFits(proc[p])
      /\ k \in Run /\ run[k] \in RunRow /\ run[k].family = "content"
  BY <1>2, OwnRow
<1>4. r \in Process BY <1>3 DEF Process, SharedPC, Terminal
<1>5. /\ r.pc = "mirror" /\ r.out = "failed" /\ r.run = k /\ r.pos = proc[p].pos
      /\ r.epoch = proc[p].epoch /\ r.batches = proc[p].batches
  BY <1>3 DEF Process
<1>6. Set(p, r) BY DEF Refuse
<1>7. permission' \in Nat /\ faults' \in Nat
  BY SpendType DEF Refuse, IInv, TypeOK
<1>8. "failed" \in Terminal BY DEF Terminal
<1>9. r.pc \notin Looping /\ r.pc \notin PastClaim
  BY <1>5 DEF Looping, PastClaim, SyncPC
<1>10. CASE Owned(p)
  <2>1. Running(k) BY <1>10 DEF Owned
  <2>2. /\ row \in RunRow /\ row.status = "failed" /\ row.family = "content"
        /\ row.completed = run[k].completed /\ row.errors = run[k].errors
        /\ row.total = run[k].total
    BY <1>3 DEF Ended, RunRow, Terminal
  <2>3. row.status \notin Drained BY <2>2 DEF Drained
  <2>4. RowFits(k, row) BY <1>3, <2>1, <2>2, <2>3, RowFrom
  <2>5. run' = [run EXCEPT ![k] = row] BY <1>10 DEF Refuse
  <2>6. UNCHANGED <<connector, doc, batch, sweep, route, missed>> BY DEF Refuse
  <2> HIDE DEF r, row
  <2> QED BY <1>2, <1>3, <1>4, <1>5, <1>6, <1>7, <1>8, <1>9, <2>2, <2>4, <2>5,
             <2>6, OwnRowChanges
<1>11. CASE ~Owned(p)
  <2>1. UNCHANGED <<run, connector, doc, batch, sweep, route, missed>>
    BY <1>11 DEF Refuse
  <2>2. SyncFits(r)
    BY <1>3, <1>5, <1>8 DEF SyncFits, SharedPC, SyncPC, PastClaim, Publishing, Looping
  <2>3. connector' \in Connector BY <2>1 DEF IInv, TypeOK
  <2> HIDE DEF r
  <2> QED BY <1>3, <1>4, <1>6, <1>7, <1>9, <2>1, <2>2, <2>3, Moves
<1> QED BY <1>10, <1>11

LEMMA Renewing == ASSUME IInv, NEW p \in Sync, Renew(p) PROVE IInv'
<1>1. proc[p].pc = "renew" BY DEF Renew, At
<1>2. proc[p].pc \in PastClaim /\ proc[p].pc \in Publishing /\ proc[p].pc \in Looping
  BY <1>1 DEF PastClaim, SyncPC, Publishing, Looping
<1>3. permission' \in Nat /\ faults' \in Nat BY DEF Renew, IInv, TypeOK
<1>4. CASE ~Owned(p)
  <2>1. p \in Proc BY SyncHas
  <2> QED BY <1>3, <1>4, <2>1, Leaves DEF Renew
<1>5. CASE Owned(p)
  <2> DEFINE k == proc[p].run
             r == [proc[p] EXCEPT !.pc = "ingest"]
             row == [run[k] EXCEPT !.leased = TRUE]
  <2>1. /\ proc[p] \in Process /\ SyncFits(proc[p])
        /\ k \in Run /\ run[k] \in RunRow /\ run[k].family = "content"
        /\ missed[k] # {} => run[k].errors \/ proc[p].errs
    BY <1>2, OwnRow
  <2>2. r \in Process BY <2>1 DEF Process, SyncPC
  <2>3. /\ r.pc = "ingest" /\ r.run = k /\ r.pos = proc[p].pos
        /\ r.epoch = proc[p].epoch /\ r.batches = proc[p].batches
        /\ r.errs = proc[p].errs
    BY <2>1 DEF Process
  <2>4. Running(k) BY <1>5 DEF Owned
  <2>5. /\ row \in RunRow /\ row.status = "running" /\ row.family = "content"
        /\ row.completed = run[k].completed /\ row.errors = run[k].errors
        /\ row.total = run[k].total /\ row.epoch = run[k].epoch
    BY <2>1, <2>4 DEF RunRow, Running
  <2>6. row.status \notin Drained BY <2>5 DEF Drained
  <2>7. RowFits(k, row) BY <2>1, <2>4, <2>5, <2>6, RowFrom
  <2>8. run' = [run EXCEPT ![k] = row]
    BY <1>5, <2>1 DEF Renew, IInv, TypeOK
  <2>9. Set(p, r) BY <1>5 DEF Renew, Goto
  <2>10. UNCHANGED <<connector, doc, batch, sweep, route, missed>> BY DEF Renew
  <2>11. row.total = 0 /\ r.pos < SourceLen BY <1>2, <2>1, <2>3, <2>5 DEF SyncFits
  <2> HIDE DEF r, row
  <2> QED BY <1>2, <1>3, <2>1, <2>2, <2>3, <2>5, <2>6, <2>7, <2>8, <2>9, <2>10,
             <2>11, OwnRowChanges
<1> QED BY <1>4, <1>5

(* The item counters reach the run before the checkpoint moves. *)
LEMMA Flushing == ASSUME IInv, NEW p \in Sync, Flush(p) PROVE IInv'
<1>1. proc[p].pc = "flush" BY DEF Flush, At
<1>2. proc[p].pc \in PastClaim /\ proc[p].pc \in Publishing /\ proc[p].pc \in Looping
  BY <1>1 DEF PastClaim, SyncPC, Publishing, Looping
<1>3. permission' \in Nat /\ faults' \in Nat BY DEF Flush, IInv, TypeOK
<1>4. CASE ~Owned(p)
  <2>1. p \in Proc BY SyncHas
  <2> QED BY <1>3, <1>4, <2>1, Leaves DEF Flush
<1>5. CASE Owned(p)
  <2> DEFINE k == proc[p].run
             r == [proc[p] EXCEPT !.pc = "checkpoint", !.errs = FALSE]
             row == Counted(p, run[k])
  <2>1. /\ proc[p] \in Process /\ SyncFits(proc[p])
        /\ k \in Run /\ run[k] \in RunRow /\ run[k].family = "content"
        /\ proc[p].errs \in BOOLEAN /\ run[k].errors \in BOOLEAN
        /\ missed[k] # {} => run[k].errors \/ proc[p].errs
    BY <1>2, OwnRow
  <2>2. r \in Process BY <2>1 DEF Process, SyncPC
  <2>3. /\ r.pc = "checkpoint" /\ r.run = k /\ r.pos = proc[p].pos
        /\ r.epoch = proc[p].epoch /\ r.batches = proc[p].batches
    BY <2>1 DEF Process
  <2>4. Running(k) BY <1>5 DEF Owned
  <2>5. /\ row \in RunRow /\ row.status = "running" /\ row.family = "content"
        /\ row.completed = run[k].completed
        /\ row.errors = (run[k].errors \/ proc[p].errs)
        /\ row.total = run[k].total /\ row.epoch = run[k].epoch
    BY <2>1, <2>4 DEF Counted, RunRow, Running
  <2>6. row.status \notin Drained BY <2>5 DEF Drained
  <2>7. RowFits(k, row) BY <2>1, <2>4, <2>5, <2>6, RowFrom
  <2>8. run' = [run EXCEPT ![k] = row]
    BY <1>5, <2>1 DEF Flush, Counted, IInv, TypeOK
  <2>9. Set(p, r) BY <1>5 DEF Flush
  <2>10. UNCHANGED <<connector, doc, batch, sweep, route, missed>> BY DEF Flush
  <2>11. row.total = 0 /\ r.pos < SourceLen BY <1>2, <2>1, <2>3, <2>5 DEF SyncFits
  <2>12. \/ doc[r.pos + 1] # "missing"
         \/ r.pos + 1 \in missed[k] /\ row.errors
    BY <1>1, <2>1, <2>3, <2>5 DEF SyncFits
  <2>13. missed[k] = {} \/ row.errors BY <2>1, <2>5
  <2> HIDE DEF r, row
  <2> QED BY <1>2, <1>3, <2>1, <2>2, <2>3, <2>5, <2>6, <2>7, <2>8, <2>9, <2>10,
             <2>11, <2>12, <2>13, OwnRowChanges
<1> QED BY <1>4, <1>5

(* The totals are published with the end of the run, or before the check   *)
(* that it is drained.                                                     *)
LEMMA PublishingTotals ==
    ASSUME IInv, NEW p \in Sync, proc[p].pc \in PastClaim,
           NEW k \in Run, k = proc[p].run, NEW base \in RunRow,
           base.family = "content", base.status # "absent",
           base.completed = run[k].completed, base.errors = run[k].errors,
           base.status = "running" => base.epoch = run[k].epoch,
           base.status \in Drained => proc[p].batches = 0,
           base.status = "success" => ~(run[k].errors \/ proc[p].errs),
           NEW pc \in {"check", "mirror"}, NEW out \in {"none"} \cup Terminal,
           pc = "mirror" => out \in Terminal,
           Publish(p, base, pc, out)
    PROVE  IInv'
<1> DEFINE r == [proc[p] EXCEPT !.pc = pc, !.out = out, !.errs = FALSE]
           row == [Counted(p, base) EXCEPT !.total = proc[p].batches]
<1>1. permission' \in Nat /\ faults' \in Nat BY DEF Publish, IInv, TypeOK
<1>2. CASE ~Owned(p)
  <2>1. p \in Proc BY SyncHas
  <2> QED BY <1>1, <1>2, <2>1, Leaves DEF Publish
<1>3. CASE Owned(p)
  <2>1. /\ proc[p] \in Process /\ SyncFits(proc[p])
        /\ run[k] \in RunRow /\ RowFits(k, run[k])
        /\ proc[p].batches = Cardinality(BatchesOf(k))
        /\ proc[p].batches \in Nat
        /\ proc[p].errs \in BOOLEAN /\ run[k].errors \in BOOLEAN
        /\ missed[k] # {} => run[k].errors \/ proc[p].errs
    BY OwnRow
  <2>2. r \in Process BY <2>1 DEF Process, SyncPC, SharedPC
  <2>3. /\ r.pc = pc /\ r.run = k /\ r.pos = proc[p].pos /\ r.out = out
        /\ r.epoch = proc[p].epoch /\ r.batches = proc[p].batches
    BY <2>1 DEF Process
  <2>4. Running(k) BY <1>3 DEF Owned
  <2>5. /\ row \in RunRow /\ row.status = base.status /\ row.family = "content"
        /\ row.completed = run[k].completed
        /\ row.errors = (run[k].errors \/ proc[p].errs)
        /\ row.total = proc[p].batches /\ row.epoch = base.epoch
    BY <2>1 DEF Counted, RunRow
  <2>6. row.status \in Drained => Recorded(k) = BatchesOf(k)
    <3> SUFFICES ASSUME row.status \in Drained PROVE Recorded(k) = BatchesOf(k)
      OBVIOUS
    <3>1. Cardinality(BatchesOf(k)) = 0 BY <2>1, <2>5
    <3> QED BY <3>1, BatchesFinite, AllIn
  <2>7. missed[k] = {} \/ row.errors BY <2>1, <2>5
  <2>8. row.status = "success" => missed[k] = {} /\ ~row.errors BY <2>1, <2>5
  <2>9. RowFits(k, row)
    <3> HIDE DEF row
    <3> QED BY <2>1, <2>4, <2>5, <2>6, <2>7, <2>8, RowFrom
  <2>10. run' = [run EXCEPT ![k] = row] BY <1>3 DEF Publish
  <2>11. Set(p, r) BY <1>3 DEF Publish
  <2>12. UNCHANGED <<connector, doc, batch, sweep, route, missed>> BY DEF Publish
  <2>13. r.pc \notin Looping BY <2>3 DEF Looping
  <2> HIDE DEF r, row
  <2> QED BY <1>1, <2>2, <2>3, <2>5, <2>7, <2>9, <2>10, <2>11, <2>12, <2>13,
             OwnRowChanges
<1> QED BY <1>2, <1>3

LEMMA Ending ==
    ASSUME IInv, NEW p \in Sync,
           StopEarly(p) \/ FinishEmpty(p) \/ FinishDraining(p)
    PROVE  IInv'
<1>1. proc[p].pc \in {"stop", "finish"}
  BY DEF StopEarly, FinishEmpty, FinishDraining, At
<1>2. proc[p].pc \in PastClaim BY <1>1 DEF PastClaim, SyncPC
<1> DEFINE k == proc[p].run
<1>3. /\ k \in Run /\ run[k] \in RunRow /\ run[k].family = "content"
      /\ proc[p].errs \in BOOLEAN /\ run[k].errors \in BOOLEAN
      /\ SyncFits(proc[p])
  BY <1>2, OwnRow
<1>4. ASSUME NEW status \in Terminal
      PROVE  /\ Ended(k, status) \in RunRow
             /\ Ended(k, status).status = status
             /\ Ended(k, status).family = "content"
             /\ Ended(k, status).completed = run[k].completed
             /\ Ended(k, status).errors = run[k].errors
             /\ Ended(k, status).epoch = run[k].epoch
  BY <1>3 DEF Ended, RunRow
<1>5. "running" \notin Terminal /\ "absent" \notin Terminal BY DEF Terminal, Drained
<1>6. CASE StopEarly(p)
  <2>1. "partial" \in Terminal /\ "partial" \notin Drained BY DEF Terminal, Drained
  <2> DEFINE base == Ended(k, "partial")
  <2>2. /\ base \in RunRow
        /\ base.status = "partial" /\ base.family = "content"
        /\ base.completed = run[k].completed /\ base.errors = run[k].errors
    BY <1>4, <2>1
  <2>3. Publish(p, base, "mirror", "partial") BY <1>6 DEF StopEarly
  <2> HIDE DEF base
  <2> QED BY <1>2, <1>3, <2>1, <2>2, <2>3, PublishingTotals
<1>7. CASE FinishEmpty(p)
  <2> DEFINE base == Ended(k, EmptyStatus(p))
  <2>1. EmptyStatus(p) \in {"completed_with_errors", "no_documents", "success"}
    BY DEF EmptyStatus
  <2>2. EmptyStatus(p) \in Terminal BY <2>1 DEF Terminal, Drained
  <2>3. EmptyStatus(p) = "success" => ~(run[k].errors \/ proc[p].errs)
    BY <1>3 DEF EmptyStatus
  <2>4. /\ base \in RunRow
        /\ base.status = EmptyStatus(p) /\ base.family = "content"
        /\ base.completed = run[k].completed /\ base.errors = run[k].errors
    BY <1>4, <2>2
  <2>5. Publish(p, base, "mirror", EmptyStatus(p)) BY <1>7 DEF FinishEmpty
  <2>6. proc[p].batches = 0 BY <1>7 DEF FinishEmpty
  <2>7. base.status # "absent" /\ base.status # "running" BY <2>1, <2>4
  <2> HIDE DEF base
  <2> QED BY <1>2, <1>3, <2>2, <2>3, <2>4, <2>5, <2>6, <2>7, PublishingTotals
<1>8. CASE FinishDraining(p)
  <2>1. Publish(p, run[k], "check", "none") BY <1>8 DEF FinishDraining
  <2>2. run[k].status \notin Drained
    BY <1>1, <1>3 DEF SyncFits, Publishing, PastClaim, SyncPC
  <2>3. run[k].status # "absent"
    <3>1. RowFits(k, run[k]) BY <1>2, OwnRow
    <3> QED BY <1>3, <3>1 DEF RowFits, NoRun
  <2>4. run[k].status # "success" BY <2>2 DEF Drained
  <2> QED BY <1>2, <1>3, <2>1, <2>2, <2>3, <2>4, PublishingTotals
<1> QED BY <1>6, <1>7, <1>8

(* The check after the totals: not fenced, but only a running row changes. *)
LEMMA Checking == ASSUME IInv, NEW p \in Sync, FinalizeIfComplete(p) PROVE IInv'
<1>1. proc[p].pc = "check" BY DEF FinalizeIfComplete, At
<1>2. proc[p].pc \in PastClaim BY <1>1 DEF PastClaim, SyncPC
<1> DEFINE k == proc[p].run
           status == IF run[k].status = "running" THEN DrainStatus(run[k])
                                                  ELSE run[k].status
           r == [proc[p] EXCEPT !.pc = "mirror", !.out = status]
           row == [run[k] EXCEPT !.status = status]
<1>3. /\ p \in Proc /\ p \notin Job
      /\ proc[p] \in Process /\ SyncFits(proc[p])
      /\ k \in Run /\ run[k] \in RunRow /\ run[k].family = "content"
  BY <1>2, OwnRow
<1>4. permission' \in Nat /\ faults' \in Nat BY DEF FinalizeIfComplete, IInv, TypeOK
<1>5. /\ run' = [run EXCEPT ![k] = row]
      /\ UNCHANGED <<connector, doc, batch, sweep, route, missed>>
      /\ IF status \in Drained THEN Set(p, r) ELSE Leave(p)
  BY <1>3 DEF FinalizeIfComplete, IInv, TypeOK
<1>6. run[k].status # "running" => run' = run
  BY <1>3, <1>5 DEF RunRow, IInv, TypeOK
<1>7. CASE status \notin Drained
  <2>1. status = run[k].status BY <1>7 DEF DrainStatus, Drained
  <2>2. run' = run BY <1>3, <1>5, <2>1 DEF RunRow, IInv, TypeOK
  <2> QED BY <1>3, <1>4, <1>5, <1>7, <2>2, Leaves DEF FinalizeIfComplete
<1>8. CASE status \in Drained
  <2>1. status \in Terminal BY <1>8 DEF Terminal
  <2>2. r \in Process BY <1>3, <2>1 DEF Process, SharedPC
  <2>3. /\ r.pc = "mirror" /\ r.out = status /\ r.run = k /\ r.pos = proc[p].pos
        /\ r.epoch = proc[p].epoch /\ r.batches = proc[p].batches
    BY <1>3 DEF Process
  <2>4. r.pc \notin Looping /\ r.pc \notin PastClaim
    BY <2>3 DEF Looping, PastClaim, SyncPC
  <2>5. Set(p, r) BY <1>5, <1>8
  <2>6. CASE run[k].status = "running"
    <3>1. Running(k) /\ DrainStatus(run[k]) \in Drained BY <1>8, <2>6 DEF Running
    <3>2. /\ Recorded(k) = BatchesOf(k)
          /\ status = "success" => missed[k] = {} /\ ~run[k].errors
      BY <1>3, <2>6, <3>1, DrainFits
    <3>3. /\ row \in RunRow /\ row.status = status /\ row.family = "content"
          /\ row.completed = run[k].completed /\ row.errors = run[k].errors
          /\ row.total = run[k].total
      BY <1>3, <2>1 DEF RunRow
    <3>4. status # "absent" /\ status # "running" BY <1>8 DEF Drained
    <3> HIDE DEF row, status
    <3>5. RowFits(k, row) BY <1>3, <3>1, <3>2, <3>3, <3>4, RowFrom
    <3> HIDE DEF r
    <3> QED BY <1>2, <1>3, <1>4, <1>5, <2>1, <2>2, <2>3, <2>4, <2>5, <3>3, <3>5,
               OwnRowChanges
  <2>7. CASE run[k].status # "running"
    <3>1. run' = run BY <1>6, <2>7
    <3> HIDE DEF status
    <3>2. SyncFits(r)
      BY <1>3, <2>1, <2>3 DEF SyncFits, SharedPC, SyncPC, PastClaim, Publishing, Looping
    <3>3. connector' \in Connector BY <1>5 DEF IInv, TypeOK
    <3> HIDE DEF r
    <3> QED BY <1>3, <1>4, <1>5, <2>2, <2>4, <2>5, <3>1, <3>2, <3>3, Moves
  <2> QED BY <2>6, <2>7
<1> QED BY <1>7, <1>8

LEMMA Failing == ASSUME IInv, NEW p \in Sync, Fail(p) PROVE IInv'
<1>1. proc[p].pc = "failing" BY DEF Fail, At
<1>2. proc[p].pc \in PastClaim BY <1>1 DEF PastClaim, SyncPC
<1>3. permission' \in Nat /\ faults' \in Nat BY DEF Fail, IInv, TypeOK
<1>4. CASE ~Owned(p)
  <2>1. p \in Proc BY SyncHas
  <2> QED BY <1>3, <1>4, <2>1, Leaves DEF Fail
<1>5. CASE Owned(p)
  <2> DEFINE k == proc[p].run
             r == [proc[p] EXCEPT !.pc = "mirror", !.out = "failed"]
             row == Counted(p, Ended(k, "failed"))
  <2>1. /\ proc[p] \in Process /\ SyncFits(proc[p])
        /\ k \in Run /\ run[k] \in RunRow /\ run[k].family = "content"
        /\ proc[p].errs \in BOOLEAN /\ run[k].errors \in BOOLEAN
    BY <1>2, OwnRow
  <2>2. "failed" \in Terminal BY DEF Terminal
  <2>3. r \in Process BY <2>1, <2>2 DEF Process, SharedPC
  <2>4. /\ r.pc = "mirror" /\ r.out = "failed" /\ r.run = k /\ r.pos = proc[p].pos
        /\ r.epoch = proc[p].epoch /\ r.batches = proc[p].batches
    BY <2>1 DEF Process
  <2>5. Running(k) BY <1>5 DEF Owned
  <2>6. /\ row \in RunRow /\ row.status = "failed" /\ row.family = "content"
        /\ row.completed = run[k].completed
        /\ row.errors = (run[k].errors \/ proc[p].errs)
        /\ row.total = run[k].total
    BY <2>1, <2>2 DEF Counted, Ended, RunRow
  <2>7. row.status \notin Drained BY <2>6 DEF Drained
  <2>8. RowFits(k, row) BY <2>1, <2>5, <2>6, <2>7, RowFrom
  <2>9. run' = [run EXCEPT ![k] = row] BY <1>5 DEF Fail
  <2>10. Set(p, r) BY <1>5 DEF Fail
  <2>11. UNCHANGED <<connector, doc, batch, sweep, route, missed>> BY DEF Fail
  <2>12. r.pc \notin Looping BY <2>4 DEF Looping
  <2> HIDE DEF r, row
  <2> QED BY <1>2, <1>3, <2>1, <2>2, <2>3, <2>4, <2>6, <2>8, <2>9, <2>10, <2>11,
             <2>12, OwnRowChanges
<1> QED BY <1>4, <1>5

---------------------------------------------------------------------------
(* The lease, the tick, cancellation and the passes *)

LEMMA Beats == ASSUME IInv, NEW p \in Sync, Beat(p) PROVE IInv'
<1> DEFINE k == proc[p].run
           row == [run[k] EXCEPT !.leased = TRUE]
<1>1. proc[p].pc \in PastClaim /\ Running(k) BY DEF Beat, PastClaim, Owned
<1>2. k \in Run /\ run[k] \in RunRow BY <1>1, OwnRow
<1>3. /\ row \in RunRow /\ row.status = run[k].status /\ row.family = run[k].family
      /\ row.completed = run[k].completed /\ row.errors = run[k].errors
      /\ row.total = run[k].total /\ row.epoch = run[k].epoch
  BY <1>2 DEF RunRow
<1>4. row.status = "running" BY <1>1, <1>3 DEF Running
<1>5. row.status # "absent" /\ row.status \notin Drained BY <1>4 DEF Drained
<1>6. run' = [run EXCEPT ![k] = row] BY <1>2 DEF Beat, IInv, TypeOK
<1>7. UNCHANGED <<connector, doc, batch, proc, sweep, route, permission, missed,
                  faults>>
  BY DEF Beat
<1>8. /\ sweep' \in [pc : {"idle", "mark", "requeue"}, at : Nat] /\ SweepOK'
      /\ route' \in [run : 0..MaxRuns, todo : SUBSET {"purge", "mark"}]
      /\ permission' \in Nat /\ faults' \in Nat
  BY <1>7 DEF IInv, TypeOK, SweepOK
<1> HIDE DEF row, k
<1>9. RowFits(k, row) BY <1>1, <1>2, <1>3, <1>4, <1>5, RowFrom
<1> QED BY <1>2, <1>3, <1>5, <1>6, <1>7, <1>8, <1>9, RowAlone

LEMMA Lapsing == ASSUME IInv, NEW k \in Run, LeaseLapses(k) PROVE IInv'
<1> DEFINE row == [run[k] EXCEPT !.leased = FALSE]
<1>1. Running(k) BY DEF LeaseLapses
<1>2. run[k] \in RunRow BY DEF IInv, TypeOK
<1>3. /\ row \in RunRow /\ row.status = run[k].status /\ row.family = run[k].family
      /\ row.completed = run[k].completed /\ row.errors = run[k].errors
      /\ row.total = run[k].total /\ row.epoch = run[k].epoch
  BY <1>2 DEF RunRow
<1>4. row.status = "running" BY <1>1, <1>3 DEF Running
<1>5. row.status # "absent" /\ row.status \notin Drained BY <1>4 DEF Drained
<1>6. run' = [run EXCEPT ![k] = row] BY DEF LeaseLapses, IInv, TypeOK
<1>7. UNCHANGED <<connector, doc, batch, proc, sweep, route, permission, missed>>
  BY DEF LeaseLapses
<1>8. faults' \in Nat BY SpendType DEF LeaseLapses, IInv, TypeOK
<1>9. /\ sweep' \in [pc : {"idle", "mark", "requeue"}, at : Nat] /\ SweepOK'
      /\ route' \in [run : 0..MaxRuns, todo : SUBSET {"purge", "mark"}]
      /\ permission' \in Nat
  BY <1>7 DEF IInv, TypeOK, SweepOK
<1> HIDE DEF row
<1>10. RowFits(k, row) BY <1>1, <1>2, <1>3, <1>4, <1>5, RowFrom
<1> QED BY <1>3, <1>5, <1>6, <1>7, <1>8, <1>9, <1>10, RowAlone

(* Ending a running row with a new epoch, as the reaper and the cancel     *)
(* route do.                                                               *)
LEMMA FencedFits ==
    ASSUME IInv, NEW k \in Run, Running(k), NEW status \in {"partial", "cancelled"},
           NEW row, row = Fenced(k, status) \/ row = [Fenced(k, status) EXCEPT !.leased = FALSE]
    PROVE  /\ row \in RunRow /\ RowFits(k, row)
           /\ row.status \notin Drained /\ row.total = run[k].total
           /\ row.family = run[k].family /\ row.errors = run[k].errors
<1>1. run[k] \in RunRow /\ RowFits(k, run[k]) BY DEF IInv, TypeOK, RowsOK
<1>2. run[k].epoch = 0 BY <1>1 DEF RowFits, Running
<1>3. status \in Terminal BY DEF Terminal
<1>4. Fenced(k, status) \in RunRow
  <2>1. Ended(k, status) \in RunRow /\ Ended(k, status).epoch = 0
    BY <1>1, <1>2, <1>3 DEF Ended, RunRow
  <2>2. Fenced(k, status) = [Ended(k, status) EXCEPT !.epoch = 1]
    BY <2>1 DEF Fenced
  <2>3. 1 \in 0..1 OBVIOUS
  <2> HIDE DEF Fenced
  <2> QED BY <2>1, <2>2, <2>3 DEF RunRow
<1>5. /\ row \in RunRow /\ row.status = status /\ row.family = run[k].family
      /\ row.completed = run[k].completed /\ row.errors = run[k].errors
      /\ row.total = run[k].total
  BY <1>1, <1>4 DEF Fenced, Ended, RunRow
<1>6. row.status \notin Drained BY <1>5 DEF Drained
<1>7. RowFits(k, row) BY <1>5, <1>6, RowFrom
<1> QED BY <1>5, <1>6, <1>7

LEMMA Reaping == ASSUME IInv, NEW k \in Run, Reap(k) PROVE IInv'
<1> DEFINE row == Fenced(k, "partial")
<1>1. Running(k) BY DEF Reap, Expired
<1>2. /\ row \in RunRow /\ RowFits(k, row)
      /\ row.status \notin Drained /\ row.total = run[k].total
      /\ row.family = run[k].family /\ row.errors = run[k].errors
  BY <1>1, FencedFits
<1>3. run' = [run EXCEPT ![k] = row] BY DEF Reap
<1>4. UNCHANGED <<connector, doc, batch, proc, route, permission, missed, faults>>
  BY DEF Reap
<1>5. sweep' = [pc |-> "mark", at |-> k] /\ k \in Nat
  BY Bounds DEF Reap, Run
<1>6. sweep' \in [pc : {"idle", "mark", "requeue"}, at : Nat] /\ SweepOK'
  BY <1>5 DEF SweepOK
<1>7. /\ route' \in [run : 0..MaxRuns, todo : SUBSET {"purge", "mark"}]
      /\ permission' \in Nat /\ faults' \in Nat
  BY <1>4 DEF IInv, TypeOK
<1> HIDE DEF row
<1> QED BY <1>2, <1>3, <1>4, <1>6, <1>7, RowAlone

LEMMA Cancelling == ASSUME IInv, NEW k \in Run, Cancel(k) PROVE IInv'
<1> DEFINE row == [Fenced(k, "cancelled") EXCEPT !.leased = FALSE]
<1>1. Running(k) BY DEF Cancel
<1>2. /\ row \in RunRow /\ RowFits(k, row)
      /\ row.status \notin Drained /\ row.total = run[k].total
      /\ row.family = run[k].family /\ row.errors = run[k].errors
  BY <1>1, FencedFits
<1>3. run' = [run EXCEPT ![k] = row] BY DEF Cancel
<1>4. UNCHANGED <<connector, doc, batch, proc, sweep, permission, missed>>
  BY DEF Cancel
<1>5. /\ sweep' \in [pc : {"idle", "mark", "requeue"}, at : Nat] /\ SweepOK'
      /\ permission' \in Nat
  BY <1>4 DEF IInv, TypeOK, SweepOK
<1>6. faults' \in Nat BY SpendType DEF Cancel, IInv
<1>7. route' \in [run : 0..MaxRuns, todo : SUBSET {"purge", "mark"}]
  BY Bounds DEF Cancel, Run
<1> HIDE DEF row
<1> QED BY <1>2, <1>3, <1>4, <1>5, <1>6, <1>7, RowAlone

(* A fresh row of either family fits a run that was not used. *)
LEMMA StartedFits ==
    ASSUME IInv, NEW family \in {"content", "permission"}, UnusedRun # {}
    PROVE  LET k == Least(UnusedRun)
           IN  /\ k \in Run /\ run[k] = NoRun /\ missed[k] = {} /\ ~Content(k)
               /\ run[k].status = "absent"
               /\ BatchesOf(k) = {}
               /\ Cardinality(BatchesOf(k)) = 0
               /\ Started(family) \in RunRow
               /\ RowFits(k, Started(family))
               /\ Started(family).total = 0
               /\ Started(family).status = "running"
               /\ Started(family).family = family
<1> DEFINE k == Least(UnusedRun)
<1>1. UnusedRun \subseteq Nat BY Bounds DEF UnusedRun, Run
<1>2. k \in UnusedRun BY <1>1, LeastIn
<1>3. k \in Run /\ run[k].status = "absent" BY <1>2 DEF UnusedRun
<1> HIDE DEF k
<1>4. /\ run[k] = NoRun /\ missed[k] = {} /\ ~Content(k)
      /\ BatchesOf(k) = {} /\ Recorded(k) = {}
  BY <1>3, UnusedEmpty DEF IInv
<1>5. Cardinality(BatchesOf(k)) = 0 /\ Cardinality(Recorded(k)) = 0
  BY <1>4, FS_EmptySet
<1>6. /\ Started(family).status = "running" /\ Started(family).family = family
      /\ Started(family).total = 0 /\ Started(family).completed = 0
      /\ Started(family).epoch = 0 /\ Started(family).errors = FALSE
      /\ Started(family) \in RunRow
  <2>1. NoRun \in RunRow BY DEF NoRun, RunRow, Family
  <2>2. NoRun.total = 0 /\ NoRun.completed = 0 /\ NoRun.epoch = 0 /\ NoRun.errors = FALSE
    BY DEF NoRun
  <2>3. family \in Family BY DEF Family
  <2> HIDE DEF NoRun
  <2> QED BY <2>1, <2>2, <2>3 DEF Started, RunRow
<1>7. RowFits(k, Started(family))
  BY <1>4, <1>5, <1>6 DEF RowFits, Drained
<1> QED BY <1>3, <1>4, <1>5, <1>6, <1>7 DEF k

LEMMA Passing == ASSUME IInv, StartPass \/ EndPass PROVE IInv'
<1>1. UNCHANGED <<connector, doc, batch, proc, sweep, route, missed, faults>>
  BY DEF StartPass, EndPass
<1>2. /\ sweep' \in [pc : {"idle", "mark", "requeue"}, at : Nat] /\ SweepOK'
      /\ route' \in [run : 0..MaxRuns, todo : SUBSET {"purge", "mark"}]
      /\ faults' \in Nat
  BY <1>1 DEF IInv, TypeOK, SweepOK
<1>3. permission' \in Nat BY DEF StartPass, EndPass, IInv, TypeOK
<1>4. CASE StartPass
  <2> DEFINE k == Least(UnusedRun)
             row == Started("permission")
  <2>1. UnusedRun # {} BY <1>4 DEF StartPass
  <2>2. /\ k \in Run /\ run[k] = NoRun /\ ~Content(k) /\ run[k].status = "absent"
        /\ row \in RunRow /\ RowFits(k, row)
    BY <2>1, StartedFits
  <2>3. run' = [run EXCEPT ![k] = row] BY <1>4 DEF StartPass
  <2>4. run[k].errors => row.errors BY <2>2 DEF NoRun
  <2> HIDE DEF k, row
  <2> QED BY <1>1, <1>2, <1>3, <2>2, <2>3, <2>4, RowAlone
<1>5. CASE EndPass
  <2>1. PICK k \in Run : /\ Running(k) /\ run[k].family = "permission"
                         /\ run' = [run EXCEPT ![k] = Ended(k, "success")]
    BY <1>5 DEF EndPass
  <2> DEFINE row == Ended(k, "success")
  <2>2. run[k] \in RunRow BY DEF IInv, TypeOK
  <2>3. /\ row \in RunRow /\ row.status = "success" /\ row.family = "permission"
        /\ row.completed = run[k].completed /\ row.errors = run[k].errors
        /\ row.total = run[k].total
    BY <2>1, <2>2 DEF Ended, RunRow, Terminal, Drained
  <2>4. ~Content(k) BY <2>1 DEF Content
  <2>5. BatchesOf(k) = {}
    <3> SUFFICES ASSUME NEW b \in BatchesOf(k) PROVE FALSE OBVIOUS
    <3>1. b \in Batch /\ batch[b].run = k /\ batch[b].status # "absent"
      BY DEF BatchesOf
    <3>2. k # 0 BY Bounds DEF Run
    <3> QED BY <2>4, <3>1, <3>2 DEF IInv, BatchesOK, BatchOK
  <2>6. Recorded(k) = BatchesOf(k) BY <2>5 DEF Recorded
  <2> HIDE DEF row
  <2>7. RowFits(k, row) BY <2>1, <2>3, <2>6, RowFrom
  <2>8. run' = [run EXCEPT ![k] = row] BY <2>1 DEF row
  <2> QED BY <1>1, <1>2, <1>3, <2>1, <2>3, <2>4, <2>7, <2>8, RowAlone
<1> QED BY <1>4, <1>5

(* Steps on the connector, the tick's and the route's place, and the tasks *)
(* of passes.                                                              *)
LEMMA Elsewhere ==
    ASSUME IInv, UNCHANGED <<run, doc, batch, proc, missed>>,
           connector' \in Connector, connector'.checkpoint = connector.checkpoint,
           sweep' \in [pc : {"idle", "mark", "requeue"}, at : Nat], SweepOK',
           route' \in [run : 0..MaxRuns, todo : SUBSET {"purge", "mark"}],
           permission' \in Nat, faults' \in Nat
    PROVE  IInv'
<1>1. TypeOK' BY DEF IInv, TypeOK
<1>2. RowsOK'
  <2> SUFFICES ASSUME NEW k \in Run PROVE RowFits(k, run[k])' BY DEF RowsOK
  <2>1. RowFits(k, run[k]) BY DEF IInv, RowsOK
  <2>2. BatchesOf(k)' = BatchesOf(k) /\ Recorded(k)' = Recorded(k)
    BY BatchesSame DEF SameBatches
  <2> QED BY <2>1, <2>2 DEF RowFits
<1>3. BatchesOK' BY DEF IInv, BatchesOK, BatchOK, Content
<1>4. SyncsOK'
  <2> SUFFICES ASSUME NEW q \in Sync PROVE SyncFits(proc[q])' BY DEF SyncsOK
  <2>1. SyncFits(proc[q]) BY DEF IInv, SyncsOK
  <2> QED BY <2>1 DEF SyncFits, Accounted, Content, BatchesOf
<1>5. JobsOK' BY DEF IInv, JobsOK, JobFits
<1>6. OwnRuns' BY DEF IInv, OwnRuns
<1>7. NoSilentLoss' BY DEF IInv, NoSilentLoss
<1> QED BY <1>1, <1>2, <1>3, <1>4, <1>5, <1>6, <1>7 DEF IInv

LEMMA Settling ==
    ASSUME IInv,
           MarkReaped \/ Reconcile \/ CrashSweep \/ MarkCancelled \/ RequestPass
    PROVE  IInv'
<1>1. UNCHANGED <<run, doc, batch, proc, missed>>
  BY DEF MarkReaped, Reconcile, CrashSweep, MarkCancelled, RequestPass
<1>2. permission' \in Nat /\ faults' \in Nat
  BY SpendType DEF MarkReaped, Reconcile, CrashSweep, MarkCancelled, RequestPass,
                   IInv, TypeOK
<1>3. route' \in [run : 0..MaxRuns, todo : SUBSET {"purge", "mark"}]
  BY DEF MarkReaped, Reconcile, CrashSweep, MarkCancelled, RequestPass, IInv, TypeOK
<1>4. sweep' \in [pc : {"idle", "mark", "requeue"}, at : Nat] /\ SweepOK'
  BY DEF MarkReaped, Reconcile, CrashSweep, MarkCancelled, RequestPass, IInv, TypeOK,
         SweepOK
<1>5. connector' \in Connector /\ connector'.checkpoint = connector.checkpoint
  <2>1. connector \in Connector BY DEF IInv, TypeOK
  <2>2. "partial" \in Terminal /\ "cancelled" \in Terminal BY DEF Terminal
  <2>3. CASE MarkReaped BY <2>1, <2>2, <2>3 DEF MarkReaped, Connector
  <2>4. CASE MarkCancelled BY <2>1, <2>2, <2>4 DEF MarkCancelled, Connector
  <2>5. CASE Reconcile
    <3>1. PICK k \in LatestContent :
            /\ ~Running(k)
            /\ connector' = [connector EXCEPT !.status = run[k].status]
      BY <2>5 DEF Reconcile
    <3>2. k \in Run /\ Content(k) BY DEF LatestContent
    <3>3. run[k].status # "absent" BY <3>2, UnusedEmpty DEF IInv
    <3>4. run[k].status \in {"absent", "running"} \cup Terminal
      BY <3>2 DEF IInv, TypeOK, RunRow
    <3>5. run[k].status \in Terminal BY <3>1, <3>3, <3>4 DEF Running
    <3> QED BY <2>1, <3>1, <3>5 DEF Connector
  <2>6. CASE CrashSweep \/ RequestPass BY <2>1, <2>6 DEF CrashSweep, RequestPass
  <2> QED BY <2>3, <2>4, <2>5, <2>6
<1> QED BY <1>1, <1>2, <1>3, <1>4, <1>5, Elsewhere

---------------------------------------------------------------------------
(* Steps on documents, failed items and batches *)

LEMMA RowStays ==
    ASSUME IInv, NEW k \in Run, run'[k] = run[k], missed'[k] = missed[k],
           BatchesOf(k)' = BatchesOf(k), Recorded(k)' = Recorded(k),
           \A b \in BatchesOf(k) : batch'[b].failed = batch[b].failed
    PROVE  RowFits(k, run[k])'
<1>1. RowFits(k, run[k]) BY DEF IInv, RowsOK
<1> QED BY <1>1 DEF RowFits

LEMMA SyncStays ==
    ASSUME IInv, NEW q \in Sync, proc'[q] = proc[q],
           \A o \in Position : doc[o] # "missing" => doc'[o] # "missing",
           \A o \in Position : Accounted(o) => Accounted(o)',
           NEW k, k = proc[q].run,
           proc[q].pc \in PastClaim =>
               /\ run'[k].family = run[k].family
               /\ run[k].errors => run'[k].errors
               /\ missed'[k] = missed[k]
               /\ BatchesOf(k)' = BatchesOf(k)
               /\ run[k].total = 0 /\ run[k].status \notin Drained =>
                    run'[k].total = 0 /\ run'[k].status \notin Drained
    PROVE  SyncFits(proc[q])'
<1> DEFINE r == proc[q]
<1>1. r \in Process /\ SyncFits(r) BY SyncHas
<1>2. r.pos \in 0..SourceLen BY <1>1 DEF Process
<1>3. \A o \in 1..r.pos : Accounted(o)'
  BY <1>1, <1>2, PrefixInPosition DEF SyncFits
<1>4. r.pc \in Looping => r.pos + 1 \in Position
  BY <1>1, <1>2, Bounds DEF SyncFits, Position
<1>5. r.pc = "checkpoint" => Accounted(r.pos + 1)'
  BY <1>1, <1>4 DEF SyncFits, Looping
<1>6. r.pc = "enqueue" => doc'[r.pos + 1] # "missing"
  BY <1>1, <1>4 DEF SyncFits, Looping
<1>7. r.pc = "flush" => \/ doc'[r.pos + 1] # "missing"
                        \/ r.pos + 1 \in missed'[k] /\ r.errs
  BY <1>1, <1>4 DEF SyncFits, Looping, PastClaim, SyncPC
<1>8. r.pc \in PastClaim =>
         /\ k \in Run
         /\ Content(k)'
         /\ r.batches = Cardinality(BatchesOf(k)')
         /\ missed'[k] # {} => run'[k].errors \/ r.errs
  BY <1>1 DEF SyncFits, Content
<1>9. r.pc \in Publishing =>
         run'[k].total = 0 /\ run'[k].status \notin Drained
  BY <1>1 DEF SyncFits, Publishing
<1> QED BY <1>1, <1>3, <1>5, <1>6, <1>7, <1>8, <1>9 DEF SyncFits

LEMMA JobStays ==
    ASSUME IInv, NEW q \in Job, proc'[q] = proc[q],
           proc[q].pc # "idle" =>
             /\ batch'[proc[q].batch].status # "absent"
             /\ batch'[proc[q].batch].run = batch[proc[q].batch].run
    PROVE  JobFits(proc[q])'
BY DEF IInv, JobsOK, JobFits

(* A claim takes a row that no batch and no other sync knows. *)
LEMMA Claiming == ASSUME IInv, NEW p \in Sync, Claim(p) PROVE IInv'
<1> DEFINE row == Started("content")
<1>0. p \in Proc /\ p \notin Job /\ proc[p] \in Process /\ SyncFits(proc[p]) BY SyncHas
<1>1. proc[p].pc = "claim" /\ UnusedRun # {} BY DEF Claim, At
<1>2. PICK k \in Run :
      /\ k = Least(UnusedRun)
      /\ run[k] = NoRun /\ missed[k] = {} /\ ~Content(k)
      /\ run[k].status = "absent"
      /\ Cardinality(BatchesOf(k)) = 0
      /\ row \in RunRow /\ RowFits(k, row)
      /\ row.total = 0 /\ row.status = "running" /\ row.family = "content"
  BY <1>1, StartedFits
<1> DEFINE r == [proc[p] EXCEPT !.pc = "announce", !.run = k]
<1>3. run' = [run EXCEPT ![k] = row] BY <1>2 DEF Claim
<1>4. Set(p, r) BY <1>2 DEF Claim
<1>5. UNCHANGED <<connector, doc, batch, sweep, route, permission, missed, faults>>
  BY DEF Claim
<1> HIDE DEF row
<1>6. k \in 0..MaxRuns BY <1>2, Bounds DEF Run
<1>7. r \in Process BY <1>0, <1>6 DEF Process, SyncPC
<1>8. /\ r.pc = "announce" /\ r.run = k /\ r.pos = proc[p].pos
      /\ r.epoch = proc[p].epoch /\ r.batches = proc[p].batches
  BY <1>0 DEF Process
<1> HIDE DEF r
<1>9. proc \in [Proc -> Process] BY DEF IInv, TypeOK
<1>10. /\ proc' \in [Proc -> Process] /\ proc'[p] = r
       /\ \A q \in Proc : q # p => proc'[q] = proc[q]
  BY <1>0, <1>4, <1>7, <1>9 DEF Set
<1>11. row.status \notin Drained BY <1>2 DEF Drained
<1>12. run[k].errors => row.errors BY <1>2 DEF NoRun
<1>13. /\ run' \in [Run -> RunRow]
       /\ RowsOK'
       /\ BatchesOK'
       /\ \A q \in Position : Accounted(q) => Accounted(q)'
       /\ \A q \in Job : proc'[q] = proc[q] => JobFits(proc[q])'
       /\ \A q \in Sync :
            /\ proc'[q] = proc[q]
            /\ proc[q].pc \in Publishing /\ proc[q].run = k =>
                      row.total = 0 /\ row.status \notin Drained
            => SyncFits(proc[q])'
  BY <1>2, <1>3, <1>5, <1>12, RowChanges
<1>14. TypeOK' BY <1>5, <1>10, <1>13 DEF IInv, TypeOK
<1>15. SyncFits(proc[p])'
  <2>1. run'[k] = row BY <1>2, <1>3 DEF IInv, TypeOK
  <2>2. Content(k)' BY <1>2, <2>1 DEF Content
  <2>3. BatchesOf(k)' = BatchesOf(k) BY <1>5 DEF BatchesOf
  <2>4. r.batches = 0 /\ r.epoch = 0 BY <1>0, <1>1, <1>8 DEF SyncFits
  <2>5. r.pos \in 0..SourceLen BY <1>7 DEF Process
  <2>6. \A q \in 1..r.pos : Accounted(q)'
    BY <1>0, <1>8, <1>13, <2>5, PrefixInPosition DEF SyncFits
  <2>7. r.pc \in SyncPC /\ r.pc \notin Looping /\ r.pc # "mirror"
    BY <1>8 DEF SyncPC, Looping
  <2>8. missed'[k] = {} BY <1>2, <1>5
  <2> QED BY <1>2, <1>8, <1>10, <1>11, <2>1, <2>2, <2>3, <2>4, <2>6, <2>7, <2>8
          DEF SyncFits
<1>16. SyncsOK'
  <2> SUFFICES ASSUME NEW q \in Sync PROVE SyncFits(proc[q])' BY DEF SyncsOK
  <2>1. q \in Proc BY DEF Proc
  <2> QED BY <1>2, <1>10, <1>11, <1>13, <1>15, <2>1
<1>17. JobsOK'
  <2> SUFFICES ASSUME NEW q \in Job PROVE JobFits(proc[q])' BY DEF JobsOK
  <2> QED BY <1>0, <1>10, <1>13 DEF Proc
<1>18. OwnRuns'
  <2>1. \A q \in Sync : proc[q].pc \in PastClaim => proc[q].run # k
    BY <1>2 DEF IInv, SyncsOK, SyncFits
  <2> SUFFICES ASSUME NEW a \in Sync, NEW b \in Sync, a # b,
                      proc'[a].pc \in PastClaim, proc'[b].pc \in PastClaim
               PROVE  proc'[a].run # proc'[b].run
    BY DEF OwnRuns
  <2>2. a \in Proc /\ b \in Proc BY DEF Proc
  <2>3. CASE a = p BY <1>8, <1>10, <2>1, <2>2, <2>3
  <2>4. CASE b = p BY <1>8, <1>10, <2>1, <2>2, <2>4
  <2>5. CASE a # p /\ b # p BY <1>10, <2>2, <2>5 DEF IInv, OwnRuns
  <2> QED BY <2>3, <2>4, <2>5
<1>19. SweepOK' BY <1>5 DEF IInv, SweepOK
<1>20. NoSilentLoss' BY <1>5, <1>13, LossStays DEF IInv
<1> QED BY <1>13, <1>14, <1>16, <1>17, <1>18, <1>19, <1>20 DEF IInv

(* A document is written by a sync, an embedder or the recovery, and an    *)
(* invocation may move.                                                    *)
LEMMA DocChanges ==
    ASSUME IInv, UNCHANGED <<run, batch, missed, connector, route, permission>>,
           doc' \in [Position -> DocStatus], faults' \in Nat,
           \A o \in Position : doc[o] # "missing" => doc'[o] # "missing",
           sweep' \in [pc : {"idle", "mark", "requeue"}, at : Nat], SweepOK',
           proc' \in [Proc -> Process], OwnRuns',
           \A q \in Sync : proc'[q] = proc[q] \/ SyncFits(proc[q])',
           \A q \in Job : proc'[q] = proc[q] \/ JobFits(proc[q])'
    PROVE  IInv'
<1>1. TypeOK' BY DEF IInv, TypeOK
<1>2. \A o \in Position : Accounted(o) => Accounted(o)' BY AccountedStays
<1>3. RowsOK'
  <2> SUFFICES ASSUME NEW k \in Run PROVE RowFits(k, run[k])' BY DEF RowsOK
  <2>1. BatchesOf(k)' = BatchesOf(k) /\ Recorded(k)' = Recorded(k)
    BY BatchesSame DEF SameBatches
  <2> QED BY <2>1, RowStays
<1>4. BatchesOK' BY DEF IInv, BatchesOK, BatchOK, Content
<1>5. SyncsOK'
  <2> SUFFICES ASSUME NEW q \in Sync, proc'[q] = proc[q] PROVE SyncFits(proc[q])'
    BY DEF SyncsOK
  <2>1. proc[q].run \in 0..MaxRuns BY SyncHas DEF Process
  <2>2. PICK k \in 0..MaxRuns : k = proc[q].run BY <2>1
  <2>3. BatchesOf(k)' = BatchesOf(k) BY DEF BatchesOf
  <2> QED BY <1>2, <2>2, <2>3, SyncStays
<1>6. JobsOK'
  <2> SUFFICES ASSUME NEW q \in Job, proc'[q] = proc[q] PROVE JobFits(proc[q])'
    BY DEF JobsOK
  <2>1. JobFits(proc[q]) BY JobHas
  <2>2. proc[q].pc # "idle" => batch[proc[q].batch].status # "absent"
    BY <2>1 DEF JobFits
  <2> QED BY <2>2, JobStays
<1>7. NoSilentLoss' BY <1>2, LossStays DEF IInv
<1> QED BY <1>1, <1>3, <1>4, <1>5, <1>6, <1>7 DEF IInv

LEMMA Ingesting == ASSUME IInv, NEW p \in Sync, Ingest(p) PROVE IInv'
<1> DEFINE fresh == doc[proc[p].pos + 1] \in {"missing", "failed"}
           r == [proc[p] EXCEPT !.pc = IF fresh THEN "enqueue" ELSE "flush"]
<1>0. p \in Proc /\ p \notin Job /\ proc[p] \in Process /\ SyncFits(proc[p]) BY SyncHas
<1>1. proc[p].pc = "ingest" BY DEF Ingest, At
<1>2. proc[p].pc \in PastClaim /\ proc[p].pc \in Publishing /\ proc[p].pc \in Looping
  BY <1>1 DEF PastClaim, SyncPC, Publishing, Looping
<1>3. r \in Process BY <1>0 DEF Process, SyncPC
<1>4. Set(p, r) BY DEF Ingest, Goto, Here
<1>5. /\ r.pc = (IF fresh THEN "enqueue" ELSE "flush") /\ r.run = proc[p].run
      /\ r.pos = proc[p].pos /\ r.epoch = proc[p].epoch
      /\ r.batches = proc[p].batches /\ r.errs = proc[p].errs
  BY <1>0 DEF Process
<1> HIDE DEF r
<1>6. /\ proc' \in [Proc -> Process] /\ proc'[p] = r
      /\ \A q \in Proc : q # p => proc'[q] = proc[q]
      /\ OwnRuns'
  BY <1>0, <1>2, <1>3, <1>4, <1>5, OneMoves
<1>7. /\ UNCHANGED <<run, batch, missed, connector, route, permission, sweep, faults>>
      /\ doc' = IF fresh THEN [doc EXCEPT ![proc[p].pos + 1] = "pending"] ELSE doc
  BY DEF Ingest, Here
<1>8. proc[p].pos + 1 \in Position
  BY <1>0, <1>2, Bounds DEF SyncFits, Process, Position
<1>9. /\ doc' \in [Position -> DocStatus]
      /\ \A o \in Position : doc[o] # "missing" => doc'[o] # "missing"
      /\ doc'[proc[p].pos + 1] # "missing"
  BY <1>7, <1>8 DEF IInv, TypeOK, DocStatus
<1>10. \A o \in Position : Accounted(o) => Accounted(o)' BY <1>7, <1>9, AccountedStays
<1>11. SyncFits(proc[p])'
  <2>1. PICK k \in Run : k = proc[p].run BY <1>0, <1>2 DEF SyncFits
  <2>2. BatchesOf(k)' = BatchesOf(k) BY <1>7 DEF BatchesOf
  <2>3. r.pos \in 0..SourceLen BY <1>3 DEF Process
  <2>4. \A o \in 1..r.pos : Accounted(o)'
    BY <1>0, <1>5, <1>10, <2>3, PrefixInPosition DEF SyncFits
  <2>5. /\ Content(k) /\ run[k].total = 0 /\ run[k].status \notin Drained
        /\ proc[p].batches = Cardinality(BatchesOf(k)) /\ proc[p].epoch = 0
        /\ missed[k] # {} => run[k].errors \/ proc[p].errs
        /\ proc[p].pos < SourceLen
    BY <1>0, <1>2, <2>1 DEF SyncFits
  <2>6. Content(k)' BY <1>7, <2>5 DEF Content
  <2>7. r.pc \in {"enqueue", "flush"} BY <1>5
  <2>8. r.pc \in SyncPC BY <2>7 DEF SyncPC
  <2> QED BY <1>5, <1>6, <1>7, <1>9, <2>1, <2>2, <2>4, <2>5, <2>6, <2>7, <2>8 DEF SyncFits
<1>12. \A q \in Sync : proc'[q] = proc[q] \/ SyncFits(proc[q])'
  BY <1>6, <1>11 DEF Proc
<1>13. \A q \in Job : proc'[q] = proc[q] BY <1>0, <1>6 DEF Proc
<1>14. /\ sweep' \in [pc : {"idle", "mark", "requeue"}, at : Nat] /\ SweepOK'
       /\ faults' \in Nat
  BY <1>7 DEF IInv, TypeOK, SweepOK
<1> QED BY <1>6, <1>7, <1>9, <1>12, <1>13, <1>14, DocChanges

(* A failed item is a debt of the sync until it is written on the run. *)
LEMMA FailingItem == ASSUME IInv, NEW p \in Sync, IngestFails(p) PROVE IInv'
<1> DEFINE r == [proc[p] EXCEPT !.pc = "flush", !.errs = TRUE]
<1>0. p \in Proc /\ p \notin Job /\ proc[p] \in Process /\ SyncFits(proc[p]) BY SyncHas
<1>1. proc[p].pc = "ingest" BY DEF IngestFails, At
<1>2. proc[p].pc \in PastClaim /\ proc[p].pc \in Publishing /\ proc[p].pc \in Looping
  BY <1>1 DEF PastClaim, SyncPC, Publishing, Looping
<1>3. r \in Process BY <1>0 DEF Process, SyncPC
<1>4. Set(p, r) BY DEF IngestFails
<1>5. /\ r.pc = "flush" /\ r.run = proc[p].run
      /\ r.pos = proc[p].pos /\ r.epoch = proc[p].epoch
      /\ r.batches = proc[p].batches /\ r.errs = TRUE
  BY <1>0 DEF Process
<1> HIDE DEF r
<1>6. /\ proc' \in [Proc -> Process] /\ proc'[p] = r
      /\ \A q \in Proc : q # p => proc'[q] = proc[q]
      /\ OwnRuns'
  BY <1>0, <1>2, <1>3, <1>4, <1>5, OneMoves
<1>7. PICK k \in Run : k = proc[p].run BY <1>0, <1>2 DEF SyncFits
<1>8. /\ UNCHANGED <<run, batch, doc, connector, route, permission, sweep>>
      /\ missed' = [missed EXCEPT ![k] = @ \cup {proc[p].pos + 1}]
  BY <1>7 DEF IngestFails, Here
<1>9. faults' \in Nat BY SpendType DEF IngestFails, IInv
<1>10. proc[p].pos + 1 \in Position
  BY <1>0, <1>2, Bounds DEF SyncFits, Process, Position
<1>11. /\ missed' \in [Run -> SUBSET Position]
       /\ missed'[k] = missed[k] \cup {proc[p].pos + 1}
       /\ \A j \in Run : j # k => missed'[j] = missed[j]
  BY <1>8, <1>10 DEF IInv, TypeOK
<1>12. TypeOK' BY <1>6, <1>8, <1>9, <1>11 DEF IInv, TypeOK
<1>13. \A o \in Position : Accounted(o) => Accounted(o)'
  BY <1>8, <1>11, AccountedStays
<1>14. /\ Content(k) /\ run[k].total = 0 /\ run[k].status \notin Drained
       /\ proc[p].batches = Cardinality(BatchesOf(k)) /\ proc[p].epoch = 0
       /\ proc[p].pos < SourceLen
  BY <1>0, <1>2, <1>7 DEF SyncFits
<1>15. \A j : BatchesOf(j)' = BatchesOf(j) /\ Recorded(j)' = Recorded(j)
  BY <1>8, BatchesSame DEF SameBatches
<1>16. RowsOK'
  <2> SUFFICES ASSUME NEW j \in Run PROVE RowFits(j, run[j])' BY DEF RowsOK
  <2>1. RowFits(j, run[j]) BY DEF IInv, RowsOK
  <2>2. BatchesOf(j)' = BatchesOf(j) /\ Recorded(j)' = Recorded(j) BY <1>15
  <2>3. CASE j # k BY <1>8, <1>11, <2>2, <2>3, RowStays
  <2>4. CASE j = k
    <3>1. run[j].status # "absent" BY <1>14, <2>1, <2>4 DEF RowFits, Content, NoRun
    <3>2. run[j].status # "success" BY <1>14, <2>4 DEF Drained
    <3> QED BY <1>8, <1>14, <2>1, <2>2, <2>4, <3>1, <3>2 DEF RowFits
  <2> QED BY <2>3, <2>4
<1>17. BatchesOK' BY <1>8 DEF IInv, BatchesOK, BatchOK, Content
<1>18. SyncsOK'
  <2> SUFFICES ASSUME NEW q \in Sync PROVE SyncFits(proc[q])' BY DEF SyncsOK
  <2>0. q \in Proc BY DEF Proc
  <2>1. CASE q # p
    <3>1. proc[q].run \in 0..MaxRuns BY SyncHas DEF Process
    <3>2. PICK j \in 0..MaxRuns : j = proc[q].run BY <3>1
    <3>3. proc[q].pc \in PastClaim => j \in Run /\ j # k
      BY <1>2, <1>7, <2>1, <3>2 DEF IInv, OwnRuns, SyncsOK, SyncFits
    <3>4. proc[q].pc \in PastClaim => missed'[j] = missed[j] BY <1>11, <3>3
    <3>5. BatchesOf(j)' = BatchesOf(j) BY <1>15
    <3>6. proc'[q] = proc[q] BY <1>6, <2>0, <2>1
    <3> QED BY <1>8, <1>13, <3>2, <3>4, <3>5, <3>6, SyncStays
  <2>2. CASE q = p
    <3>1. BatchesOf(k)' = BatchesOf(k) BY <1>15
    <3>2. r.pos \in 0..SourceLen BY <1>3 DEF Process
    <3>3. \A o \in 1..r.pos : Accounted(o)'
      BY <1>0, <1>5, <1>13, <3>2, PrefixInPosition DEF SyncFits
    <3>4. Content(k)' BY <1>8, <1>14 DEF Content
    <3>5. r.pc \in SyncPC BY <1>5 DEF SyncPC
    <3>6. SyncFits(proc[p])'
      BY <1>5, <1>6, <1>7, <1>8, <1>11, <1>14, <3>1, <3>3, <3>4, <3>5 DEF SyncFits
    <3> QED BY <2>2, <3>6
  <2> QED BY <2>1, <2>2
<1>19. JobsOK'
  <2> SUFFICES ASSUME NEW q \in Job PROVE JobFits(proc[q])' BY DEF JobsOK
  <2>1. q \in Proc /\ q # p BY <1>0 DEF Proc
  <2>2. JobFits(proc[q]) BY JobHas
  <2>3. proc[q].pc # "idle" => batch[proc[q].batch].status # "absent"
    BY <2>2 DEF JobFits
  <2> QED BY <1>6, <1>8, <2>1, <2>3, JobStays
<1>20. SweepOK' BY <1>8 DEF IInv, SweepOK
<1>21. NoSilentLoss' BY <1>8, <1>13, LossStays DEF IInv
<1> QED BY <1>6, <1>12, <1>16, <1>17, <1>18, <1>19, <1>20, <1>21 DEF IInv

(* A new task takes a place that no run counts and no handler holds. *)
LEMMA NewBatchEffect ==
    ASSUME IInv, NEW k \in 0..MaxRuns, NEW pos \in Position, NewBatch(k, pos)
    PROVE  \E b \in Batch :
             /\ batch' \in [Batch -> BatchRow]
             /\ batch'[b].status = "active" /\ batch'[b].run = k
             /\ batch'[b].pos = pos
             /\ ~batch'[b].recorded /\ ~batch'[b].failed
             /\ \A c \in Batch : c # b => batch'[c] = batch[c]
             /\ \A j \in Run : b \notin BatchesOf(j)
             /\ \A q \in Job : proc[q].pc # "idle" => proc[q].batch # b
<1> DEFINE b == Least(UnusedBatch)
           row == [NoBatch EXCEPT !.status = "active", !.run = k, !.pos = pos]
<1>1. UnusedBatch \subseteq Nat /\ UnusedBatch # {}
  BY Bounds DEF UnusedBatch, Batch, NewBatch
<1>2. b \in UnusedBatch BY <1>1, LeastIn
<1>3. batch' = [batch EXCEPT ![b] = row] BY DEF NewBatch
<1> HIDE DEF b
<1>4. b \in Batch BY <1>2 DEF UnusedBatch
<1>5. /\ row \in BatchRow /\ row.status = "active" /\ row.run = k /\ row.pos = pos
      /\ row.recorded = FALSE /\ row.failed = FALSE
  <2>1. NoBatch \in BatchRow /\ NoBatch.recorded = FALSE /\ NoBatch.failed = FALSE
    BY Bounds DEF NoBatch, BatchRow
  <2>2. pos \in 0..SourceLen BY Bounds DEF Position
  <2> HIDE DEF NoBatch
  <2> QED BY <2>1, <2>2 DEF BatchRow
<1> HIDE DEF row
<1>6. batch \in [Batch -> BatchRow] BY DEF IInv, TypeOK
<1>7. /\ batch' \in [Batch -> BatchRow] /\ batch'[b] = row
      /\ \A c \in Batch : c # b => batch'[c] = batch[c]
  BY <1>3, <1>4, <1>5, <1>6
<1>8. \A j \in Run : b \notin BatchesOf(j)
  BY <1>2, Bounds DEF UnusedBatch, BatchesOf, Run
<1>9. \A q \in Job : proc[q].pc # "idle" => proc[q].batch # b
  BY <1>2 DEF UnusedBatch, IInv, JobsOK, JobFits
<1> QED BY <1>4, <1>5, <1>7, <1>8, <1>9

LEMMA NewBatchKeeps ==
    ASSUME IInv, NEW k \in 0..MaxRuns, NEW pos \in Position, NewBatch(k, pos),
           UNCHANGED <<run, missed>>,
           k # 0 => /\ Content(k) /\ run[k].total = 0
                    /\ run[k].status \notin Drained
    PROVE  /\ batch' \in [Batch -> BatchRow]
           /\ RowsOK'
           /\ BatchesOK'
           /\ \A j \in Run : j # k => BatchesOf(j)' = BatchesOf(j)
           /\ k # 0 => Cardinality(BatchesOf(k)') = Cardinality(BatchesOf(k)) + 1
           /\ \A q \in Job : proc'[q] = proc[q] => JobFits(proc[q])'
<1>1. PICK b \in Batch :
             /\ batch' \in [Batch -> BatchRow]
             /\ batch'[b].status = "active" /\ batch'[b].run = k
             /\ batch'[b].pos = pos
             /\ ~batch'[b].recorded /\ ~batch'[b].failed
             /\ \A c \in Batch : c # b => batch'[c] = batch[c]
             /\ \A j \in Run : b \notin BatchesOf(j)
             /\ \A q \in Job : proc[q].pc # "idle" => proc[q].batch # b
  BY NewBatchEffect
<1>2. \A j \in Run : j # k => BatchesOf(j)' = BatchesOf(j)
  BY <1>1 DEF BatchesOf
<1>3. k # 0 => BatchesOf(k)' = BatchesOf(k) \cup {b}
  BY <1>1, Bounds DEF BatchesOf, Run
<1>4. k # 0 => b \notin BatchesOf(k) BY <1>1, Bounds DEF Run
<1>5. k # 0 => Cardinality(BatchesOf(k)') = Cardinality(BatchesOf(k)) + 1
  BY <1>3, <1>4, BatchesFinite, FS_AddElement
<1>6. \A j \in Run : Recorded(j)' = Recorded(j)
  BY <1>1, <1>2, <1>3 DEF Recorded, BatchesOf
<1>7. RowsOK'
  <2> SUFFICES ASSUME NEW j \in Run PROVE RowFits(j, run[j])' BY DEF RowsOK
  <2>1. RowFits(j, run[j]) BY DEF IInv, RowsOK
  <2>2. Recorded(j)' = Recorded(j) BY <1>6
  <2>3. \A c \in BatchesOf(j) : batch'[c].failed = batch[c].failed
    BY <1>1 DEF BatchesOf
  <2>4. CASE j # k
    <3>1. BatchesOf(j)' = BatchesOf(j) BY <1>2, <2>4
    <3> QED BY <2>2, <2>3, <3>1, RowStays
  <2>5. CASE j = k
    <3>1. k # 0 BY <2>5, Bounds DEF Run
    <3>2. BatchesOf(j)' = BatchesOf(j) \cup {b} BY <1>3, <2>5, <3>1
    <3>3. \A c \in BatchesOf(j)' : batch'[c].failed =>
             c \in BatchesOf(j) /\ batch[c].failed
      BY <1>1, <2>3, <3>2
    <3> QED BY <2>1, <2>2, <2>5, <3>1, <3>3 DEF RowFits
  <2> QED BY <2>4, <2>5
<1>8. BatchesOK'
  <2> SUFFICES ASSUME NEW c \in Batch PROVE BatchOK(c)' BY DEF BatchesOK
  <2>1. CASE c = b BY <1>1, <2>1 DEF BatchOK, Content
  <2>2. CASE c # b BY <1>1, <2>2 DEF IInv, BatchesOK, BatchOK, Content
  <2> QED BY <2>1, <2>2
<1>9. ASSUME NEW q \in Job, proc'[q] = proc[q] PROVE JobFits(proc[q])'
  <2>1. JobFits(proc[q]) BY JobHas
  <2>2. proc[q].pc # "idle" => /\ proc[q].batch \in Batch /\ proc[q].batch # b
                               /\ batch[proc[q].batch].status # "absent"
    BY <1>1, <2>1 DEF JobFits
  <2>3. proc[q].pc # "idle" => batch'[proc[q].batch] = batch[proc[q].batch]
    BY <1>1, <2>2
  <2> QED BY <1>9, <2>2, <2>3, JobStays
<1> QED BY <1>1, <1>2, <1>5, <1>7, <1>8, <1>9

(* What remains to be seen when tasks, a row and invocations change. *)
LEMMA BatchChanges ==
    ASSUME IInv, UNCHANGED <<doc, missed, connector, permission>>,
           run' \in [Run -> RunRow], batch' \in [Batch -> BatchRow],
           proc' \in [Proc -> Process], faults' \in Nat,
           sweep' \in [pc : {"idle", "mark", "requeue"}, at : Nat], SweepOK',
           route' \in [run : 0..MaxRuns, todo : SUBSET {"purge", "mark"}],
           \A k \in Run : run[k].errors => run'[k].errors,
           RowsOK', BatchesOK', SyncsOK', JobsOK', OwnRuns'
    PROVE  IInv'
<1>1. TypeOK' BY DEF IInv, TypeOK
<1>2. \A o \in Position : Accounted(o) => Accounted(o)' BY AccountedStays
<1>3. NoSilentLoss' BY <1>2, LossStays DEF IInv
<1> QED BY <1>1, <1>3 DEF IInv

LEMMA Enqueueing == ASSUME IInv, NEW p \in Sync, EnqueueBatch(p) PROVE IInv'
<1> DEFINE r == [proc[p] EXCEPT !.pc = "flush", !.batches = @ + 1]
<1>0. p \in Proc /\ p \notin Job /\ proc[p] \in Process /\ SyncFits(proc[p]) BY SyncHas
<1>1. proc[p].pc = "enqueue" BY DEF EnqueueBatch, At
<1>2. proc[p].pc \in PastClaim /\ proc[p].pc \in Publishing /\ proc[p].pc \in Looping
  BY <1>1 DEF PastClaim, SyncPC, Publishing, Looping
<1>3. r \in Process
  <2>1. proc[p].batches + 1 \in Nat BY <1>0 DEF Process
  <2> QED BY <1>0, <2>1 DEF Process, SyncPC
<1>4. Set(p, r) BY DEF EnqueueBatch
<1>5. /\ r.pc = "flush" /\ r.run = proc[p].run
      /\ r.pos = proc[p].pos /\ r.epoch = proc[p].epoch
      /\ r.batches = proc[p].batches + 1 /\ r.errs = proc[p].errs
  BY <1>0 DEF Process
<1> HIDE DEF r
<1>6. /\ proc' \in [Proc -> Process] /\ proc'[p] = r
      /\ \A q \in Proc : q # p => proc'[q] = proc[q]
      /\ OwnRuns'
  BY <1>0, <1>2, <1>3, <1>4, <1>5, OneMoves
<1>7. PICK k \in Run : k = proc[p].run BY <1>0, <1>2 DEF SyncFits
<1>8. k \in 0..MaxRuns /\ k # 0 BY Bounds DEF Run
<1>9. PICK pos \in Position : pos = proc[p].pos + 1
  BY <1>0, <1>2, Bounds DEF SyncFits, Process, Position
<1>10. /\ Content(k) /\ run[k].total = 0 /\ run[k].status \notin Drained
       /\ proc[p].batches = Cardinality(BatchesOf(k)) /\ proc[p].epoch = 0
       /\ missed[k] # {} => run[k].errors \/ proc[p].errs
       /\ proc[p].pos < SourceLen /\ doc[proc[p].pos + 1] # "missing"
  BY <1>0, <1>1, <1>2, <1>7 DEF SyncFits
<1>11. /\ NewBatch(k, pos)
       /\ UNCHANGED <<run, connector, doc, sweep, route, permission, missed, faults>>
  BY <1>7, <1>9 DEF EnqueueBatch, Here
<1>12. /\ batch' \in [Batch -> BatchRow]
       /\ RowsOK'
       /\ BatchesOK'
       /\ \A j \in Run : j # k => BatchesOf(j)' = BatchesOf(j)
       /\ Cardinality(BatchesOf(k)') = Cardinality(BatchesOf(k)) + 1
       /\ \A q \in Job : proc'[q] = proc[q] => JobFits(proc[q])'
  BY <1>8, <1>10, <1>11, NewBatchKeeps
<1>13. \A o \in Position : Accounted(o) => Accounted(o)' BY <1>11, AccountedStays
<1>14. SyncsOK'
  <2> SUFFICES ASSUME NEW q \in Sync PROVE SyncFits(proc[q])' BY DEF SyncsOK
  <2>0. q \in Proc BY DEF Proc
  <2>1. CASE q # p
    <3>1. proc[q].run \in 0..MaxRuns BY SyncHas DEF Process
    <3>2. PICK j \in 0..MaxRuns : j = proc[q].run BY <3>1
    <3>3. proc[q].pc \in PastClaim => j \in Run /\ j # k
      BY <1>2, <1>7, <2>1, <3>2 DEF IInv, OwnRuns, SyncsOK, SyncFits
    <3>4. proc[q].pc \in PastClaim => BatchesOf(j)' = BatchesOf(j) BY <1>12, <3>3
    <3>5. proc'[q] = proc[q] BY <1>6, <2>0, <2>1
    <3> QED BY <1>11, <1>13, <3>2, <3>4, <3>5, SyncStays
  <2>2. CASE q = p
    <3>1. r.pos \in 0..SourceLen BY <1>3 DEF Process
    <3>2. \A o \in 1..r.pos : Accounted(o)'
      BY <1>0, <1>5, <1>13, <3>1, PrefixInPosition DEF SyncFits
    <3>3. Content(k)' BY <1>10, <1>11 DEF Content
    <3>4. r.pc \in SyncPC BY <1>5 DEF SyncPC
    <3>5. r.batches = Cardinality(BatchesOf(k)') BY <1>5, <1>10, <1>12
    <3>6. SyncFits(proc[p])'
      BY <1>5, <1>6, <1>7, <1>10, <1>11, <3>2, <3>3, <3>4, <3>5 DEF SyncFits
    <3> QED BY <2>2, <3>6
  <2> QED BY <2>1, <2>2
<1>15. JobsOK'
  <2> SUFFICES ASSUME NEW q \in Job PROVE JobFits(proc[q])' BY DEF JobsOK
  <2>1. q \in Proc /\ q # p BY <1>0 DEF Proc
  <2> QED BY <1>6, <1>12, <2>1
<1>16. /\ sweep' \in [pc : {"idle", "mark", "requeue"}, at : Nat] /\ SweepOK'
       /\ route' \in [run : 0..MaxRuns, todo : SUBSET {"purge", "mark"}]
       /\ run' \in [Run -> RunRow] /\ faults' \in Nat
  BY <1>11 DEF IInv, TypeOK, SweepOK
<1> QED BY <1>6, <1>11, <1>12, <1>14, <1>15, <1>16, BatchChanges

(* The recovery enqueues a task without a run. *)
LEMMA Requeueing == ASSUME IInv, Requeue PROVE IInv'
<1>1. PICK pos \in Position : pos = sweep.at BY DEF IInv, SweepOK, Requeue
<1>2. /\ NewBatch(0, pos)
      /\ sweep' = [pc |-> "idle", at |-> 0]
      /\ UNCHANGED <<run, connector, doc, proc, route, permission, missed, faults>>
  BY <1>1 DEF Requeue
<1>3. 0 \in 0..MaxRuns BY Bounds
<1>4. /\ batch' \in [Batch -> BatchRow]
      /\ RowsOK'
      /\ BatchesOK'
      /\ \A j \in Run : BatchesOf(j)' = BatchesOf(j)
      /\ \A q \in Job : proc'[q] = proc[q] => JobFits(proc[q])'
  BY <1>2, <1>3, NewBatchKeeps, Bounds DEF Run
<1>5. \A o \in Position : Accounted(o) => Accounted(o)' BY <1>2, AccountedStays
<1>6. SyncsOK'
  <2> SUFFICES ASSUME NEW q \in Sync PROVE SyncFits(proc[q])' BY DEF SyncsOK
  <2>1. proc[q] \in Process /\ SyncFits(proc[q]) BY SyncHas
  <2>2. PICK j \in 0..MaxRuns : j = proc[q].run BY <2>1 DEF Process
  <2>3. proc[q].pc \in PastClaim => BatchesOf(j)' = BatchesOf(j)
    BY <1>4, <2>1, <2>2 DEF SyncFits
  <2> QED BY <1>2, <1>5, <2>2, <2>3, SyncStays
<1>7. JobsOK' BY <1>2, <1>4 DEF JobsOK
<1>8. OwnRuns' BY <1>2 DEF IInv, OwnRuns
<1>9. /\ sweep' \in [pc : {"idle", "mark", "requeue"}, at : Nat] /\ SweepOK'
      /\ route' \in [run : 0..MaxRuns, todo : SUBSET {"purge", "mark"}]
      /\ run' \in [Run -> RunRow] /\ faults' \in Nat /\ proc' \in [Proc -> Process]
  BY <1>2 DEF IInv, TypeOK, SweepOK
<1> QED BY <1>2, <1>4, <1>6, <1>7, <1>8, <1>9, BatchChanges

(* Tasks that end, or are deleted, keep their run, stamp and outcome. *)
LEMMA TasksEnd ==
    ASSUME IInv, UNCHANGED <<run, doc, missed, connector, permission, faults, sweep>>,
           route' \in [run : 0..MaxRuns, todo : SUBSET {"purge", "mark"}],
           batch' \in [Batch -> BatchRow],
           \A b \in Batch : \/ batch'[b] = batch[b]
                            \/ /\ batch[b].status = "active"
                               /\ batch'[b].status # "absent"
                               /\ batch'[b].run = batch[b].run
                               /\ batch'[b].pos = batch[b].pos
                               /\ batch'[b].recorded = batch[b].recorded
                               /\ batch'[b].failed = batch[b].failed,
           proc' \in [Proc -> Process],
           \A p \in Proc : proc'[p] = proc[p] \/ (p \in Job /\ proc'[p] = Idle)
    PROVE  IInv'
<1>1. \A b \in Batch : /\ batch'[b].status = "absent" <=> batch[b].status = "absent"
                       /\ batch'[b].run = batch[b].run
                       /\ batch'[b].pos = batch[b].pos
                       /\ batch'[b].recorded = batch[b].recorded
                       /\ batch'[b].failed = batch[b].failed
  OBVIOUS
<1>2. \A k : BatchesOf(k)' = BatchesOf(k) /\ Recorded(k)' = Recorded(k)
  BY <1>1 DEF BatchesOf, Recorded
<1>3. RowsOK'
  <2> SUFFICES ASSUME NEW j \in Run PROVE RowFits(j, run[j])' BY DEF RowsOK
  <2>1. BatchesOf(j)' = BatchesOf(j) /\ Recorded(j)' = Recorded(j) BY <1>2
  <2>2. \A c \in BatchesOf(j) : batch'[c].failed = batch[c].failed
    BY <1>1 DEF BatchesOf
  <2> QED BY <2>1, <2>2, RowStays
<1>4. BatchesOK' BY <1>1 DEF IInv, BatchesOK, BatchOK, Content
<1>5. \A o \in Position : Accounted(o) => Accounted(o)' BY AccountedStays
<1>6. SyncsOK'
  <2> SUFFICES ASSUME NEW q \in Sync PROVE SyncFits(proc[q])' BY DEF SyncsOK
  <2>1. proc[q] \in Process /\ q \in Proc /\ q \notin Job BY SyncHas
  <2>2. PICK j \in 0..MaxRuns : j = proc[q].run BY <2>1 DEF Process
  <2>3. BatchesOf(j)' = BatchesOf(j) BY <1>2
  <2> QED BY <1>5, <2>1, <2>2, <2>3, SyncStays
<1>7. JobsOK'
  <2> SUFFICES ASSUME NEW q \in Job PROVE JobFits(proc[q])' BY DEF JobsOK
  <2>1. q \in Proc /\ JobFits(proc[q]) BY JobHas
  <2>2. CASE proc'[q] = proc[q]
    <3>1. proc[q].pc # "idle" => /\ proc[q].batch \in Batch
                                 /\ batch[proc[q].batch].status # "absent"
      BY <2>1 DEF JobFits
    <3> QED BY <1>1, <2>2, <3>1, JobStays
  <2>3. CASE proc'[q] = Idle BY <2>3 DEF JobFits, Idle, SharedPC, Booking
  <2> QED BY <2>1, <2>2, <2>3
<1>8. OwnRuns'
  <2>1. \A q \in Sync : proc'[q] = proc[q] BY SyncHas
  <2> QED BY <2>1 DEF IInv, OwnRuns
<1>9. SweepOK' BY DEF IInv, SweepOK
<1>10. sweep \in [pc : {"idle", "mark", "requeue"}, at : Nat] /\ faults \in Nat
       /\ run \in [Run -> RunRow]
  BY DEF IInv, TypeOK
<1> QED BY <1>3, <1>4, <1>6, <1>7, <1>8, <1>9, <1>10, BatchChanges

LEMMA Purging == ASSUME IInv, Purge PROVE IInv'
<1>1. /\ batch' = [b \in Batch |->
                     IF batch[b].run = route.run /\ ActiveTask(b)
                     THEN [batch[b] EXCEPT !.status = "deleted"] ELSE batch[b]]
      /\ route' = [route EXCEPT !.todo = @ \ {"purge"}]
      /\ UNCHANGED <<run, connector, doc, proc, sweep, permission, missed, faults>>
  BY DEF Purge
<1>2. batch \in [Batch -> BatchRow] BY DEF IInv, TypeOK
<1>3. batch' \in [Batch -> BatchRow] BY <1>1, <1>2 DEF BatchRow
<1>4. \A b \in Batch : \/ batch'[b] = batch[b]
                       \/ /\ batch[b].status = "active"
                          /\ batch'[b].status # "absent"
                          /\ batch'[b].run = batch[b].run
                          /\ batch'[b].pos = batch[b].pos
                          /\ batch'[b].recorded = batch[b].recorded
                          /\ batch'[b].failed = batch[b].failed
  BY <1>1, <1>2 DEF ActiveTask, BatchRow
<1>5. route' \in [run : 0..MaxRuns, todo : SUBSET {"purge", "mark"}]
  <2>1. route \in [run : 0..MaxRuns, todo : SUBSET {"purge", "mark"}]
    BY DEF IInv, TypeOK
  <2>2. route.todo \ {"purge"} \in SUBSET {"purge", "mark"} BY <2>1
  <2> QED BY <1>1, <2>1, <2>2
<1>6. /\ proc' \in [Proc -> Process]
      /\ \A p \in Proc : proc'[p] = proc[p]
  BY <1>1 DEF IInv, TypeOK
<1> QED BY <1>1, <1>3, <1>4, <1>5, <1>6, TasksEnd

LEMMA Completing == ASSUME IInv, NEW p \in Job, Done(p) PROVE IInv'
<1>0. p \in Proc /\ proc[p] \in Process /\ JobFits(proc[p]) BY JobHas
<1>1. /\ batch' = IF ActiveTask(proc[p].batch)
                  THEN [batch EXCEPT ![proc[p].batch].status = "done"] ELSE batch
      /\ Set(p, Idle)
      /\ UNCHANGED <<run, connector, doc, sweep, route, permission, missed, faults>>
  BY DEF Done, Leave
<1>2. PICK b \in Batch : b = proc[p].batch BY <1>0 DEF Done, At, JobFits
<1>3. batch \in [Batch -> BatchRow] /\ proc \in [Proc -> Process] BY DEF IInv, TypeOK
<1>4. batch' \in [Batch -> BatchRow] BY <1>1, <1>2, <1>3 DEF BatchRow
<1>5. \A c \in Batch : \/ batch'[c] = batch[c]
                       \/ /\ batch[c].status = "active"
                          /\ batch'[c].status # "absent"
                          /\ batch'[c].run = batch[c].run
                          /\ batch'[c].pos = batch[c].pos
                          /\ batch'[c].recorded = batch[c].recorded
                          /\ batch'[c].failed = batch[c].failed
  BY <1>1, <1>2, <1>3 DEF ActiveTask, BatchRow
<1>6. /\ proc' \in [Proc -> Process]
      /\ \A q \in Proc : proc'[q] = proc[q] \/ (q \in Job /\ proc'[q] = Idle)
  <2>1. Idle \in Process BY IdleFits
  <2> HIDE DEF Idle
  <2> QED BY <1>0, <1>1, <1>3, <2>1 DEF Set
<1>7. route' \in [run : 0..MaxRuns, todo : SUBSET {"purge", "mark"}]
  BY <1>1 DEF IInv, TypeOK
<1> QED BY <1>1, <1>4, <1>5, <1>6, <1>7, TasksEnd

---------------------------------------------------------------------------
(* The steps of a handler *)

LEMMA AfterFits ==
    ASSUME IInv, NEW p \in Job, proc[p].pc # "idle"
    PROVE  /\ proc[p].run = 0 \/ proc[p].run \in Run
           /\ AfterEmbedding(p) \in {"done", "record"}
           /\ AfterEmbedding(p) = "record" => proc[p].run \in Run
BY JobHas, Bounds DEF Process, Run, AfterEmbedding

(* A handler that moves keeps its task and its run. *)
LEMMA JobGoes ==
    ASSUME IInv, NEW p \in Job, proc[p].pc # "idle", NEW r \in Process,
           r.pc \in JobPC \cup SharedPC, r.pc # "idle",
           r.run = proc[p].run, r.batch = proc[p].batch, r.pos = proc[p].pos,
           r.pc \in Booking => proc[p].run \in Run,
           r.pc \in {"finalize", "mirror"} => r.out \in Terminal
    PROVE  JobFits(r)
BY JobHas DEF JobFits

LEMMA Delivering == ASSUME IInv, NEW p \in Job, NEW b \in Batch, Deliver(p, b)
                    PROVE  IInv'
<1> DEFINE r == [Idle EXCEPT !.pc = "load", !.run = batch[b].run,
                             !.pos = batch[b].pos, !.batch = b]
<1>0. p \in Proc /\ p \notin Sync BY JobHas
<1>1. batch[b] \in BatchRow /\ batch[b].status = "active"
  BY DEF Deliver, ActiveTask, IInv, TypeOK
<1>2. batch[b].pos \in Position BY <1>1 DEF IInv, BatchesOK, BatchOK
<1>3. b \in 0..MaxBatch BY Bounds DEF Batch
<1>4. r \in Process
  <2>1. Idle \in Process BY IdleFits
  <2> HIDE DEF Idle
  <2> QED BY <1>1, <1>3, <2>1 DEF Process, BatchRow, JobPC
<1>5. /\ r.pc = "load" /\ r.run = batch[b].run /\ r.pos = batch[b].pos
      /\ r.batch = b
  BY DEF Idle
<1>6. Set(p, r) BY DEF Deliver
<1> HIDE DEF r
<1>7. JobFits(r) BY <1>1, <1>2, <1>5 DEF JobFits, JobPC, Booking
<1>8. faults' \in Nat BY SpendType DEF Deliver, IInv, TypeOK
<1>9. connector' \in Connector /\ permission' \in Nat BY DEF Deliver, IInv, TypeOK
<1> QED BY <1>0, <1>4, <1>6, <1>7, <1>8, <1>9, Moves DEF Deliver

LEMMA Handling ==
    ASSUME IInv, NEW p \in Job, Load(p) \/ Finalize(p) \/ HandlerThrows(p)
    PROVE  IInv'
<1>0. p \in Proc /\ p \notin Sync /\ proc[p] \in Process /\ JobFits(proc[p]) BY JobHas
<1>1. proc[p].pc # "idle" BY DEF Load, Finalize, HandlerThrows, At
<1>2. faults' \in Nat BY SpendType DEF Load, Finalize, HandlerThrows, IInv, TypeOK
<1>3. UNCHANGED <<run, connector, doc, batch, sweep, route, permission, missed>>
  BY DEF Load, Finalize, HandlerThrows
<1>4. connector' \in Connector /\ permission' \in Nat BY <1>3 DEF IInv, TypeOK
<1>5. CASE Leave(p) BY <1>0, <1>2, <1>3, <1>5, Leaves
<1>6. CASE \E pc \in JobPC \cup SharedPC :
             /\ Goto(p, pc) /\ pc # "idle"
             /\ pc \in Booking => proc[p].run \in Run
             /\ pc \in {"finalize", "mirror"} => proc[p].out \in Terminal
  <2>1. PICK pc \in JobPC \cup SharedPC :
             /\ Goto(p, pc) /\ pc # "idle"
             /\ pc \in Booking => proc[p].run \in Run
             /\ pc \in {"finalize", "mirror"} => proc[p].out \in Terminal
    BY <1>6
  <2> DEFINE r == [proc[p] EXCEPT !.pc = pc]
  <2>2. r \in Process BY <1>0 DEF Process
  <2>3. /\ r.pc = pc /\ r.run = proc[p].run /\ r.batch = proc[p].batch
        /\ r.pos = proc[p].pos /\ r.out = proc[p].out
    BY <1>0 DEF Process
  <2>4. Set(p, r) BY <2>1 DEF Goto
  <2> HIDE DEF r
  <2>5. JobFits(r) BY <1>1, <2>1, <2>2, <2>3, JobGoes
  <2> QED BY <1>0, <1>2, <1>3, <1>4, <2>2, <2>4, <2>5, Moves
<1>7. CASE Load(p)
  <2>1. PICK pc \in {"embed", "done", "record"} :
          Goto(p, pc) /\ (pc = "record" => proc[p].run \in Run)
    BY <1>1, <1>7, AfterFits DEF Load
  <2>2. pc \in JobPC \cup SharedPC /\ pc # "idle" /\ (pc \in Booking => pc = "record")
        /\ pc \notin {"finalize", "mirror"}
    BY DEF JobPC, Booking
  <2> QED BY <1>6, <2>1, <2>2
<1>8. CASE Finalize(p)
  <2>1. proc[p].run \in Run /\ proc[p].out \in Terminal
    BY <1>0, <1>8 DEF Finalize, At, JobFits, Booking
  <2>2. PICK pc \in {"done", "mirror"} : Goto(p, pc) BY <1>8 DEF Finalize
  <2>3. pc \in JobPC \cup SharedPC /\ pc # "idle" BY DEF JobPC, SharedPC
  <2> QED BY <1>6, <2>1, <2>2, <2>3
<1>9. CASE HandlerThrows(p)
  <2>1. CASE Goto(p, IF proc[p].run = 0 THEN "done" ELSE "bury")
    <3>1. PICK pc \in {"done", "bury"} :
            Goto(p, pc) /\ (pc = "bury" => proc[p].run \in Run)
      BY <1>1, <2>1, AfterFits
    <3>2. pc \in JobPC \cup SharedPC /\ pc # "idle" /\ (pc \in Booking => pc = "bury")
          /\ pc \notin {"finalize", "mirror"}
      BY DEF JobPC, Booking
    <3> QED BY <1>6, <3>1, <3>2
  <2> QED BY <1>5, <1>9, <2>1 DEF HandlerThrows
<1> QED BY <1>7, <1>8, <1>9

(* Marking a document, storing its embedding, or the provider's refusal. *)
LEMMA Embedding == ASSUME IInv, NEW p \in Job, Embed(p) \/ Store(p) PROVE IInv'
<1>0. p \in Proc /\ p \notin Sync /\ proc[p] \in Process /\ JobFits(proc[p]) BY JobHas
<1>1. proc[p].pc # "idle" BY DEF Embed, Store, At
<1>2. faults' \in Nat BY SpendType DEF Embed, Store, IInv, TypeOK
<1>3. UNCHANGED <<run, connector, batch, sweep, route, permission, missed>>
  BY DEF Embed, Store
<1>4. PICK pc \in {"store", "done", "record"}, status \in {"processing", "completed", "failed"},
           errs \in BOOLEAN :
        /\ doc' = [doc EXCEPT ![proc[p].pos] = status]
        /\ Set(p, [proc[p] EXCEPT !.pc = pc, !.errs = errs])
        /\ pc = "record" => proc[p].run \in Run
  <2>1. proc[p].errs \in BOOLEAN
        /\ \A pc : [proc[p] EXCEPT !.pc = pc]
                     = [proc[p] EXCEPT !.pc = pc, !.errs = proc[p].errs]
    BY <1>0 DEF Process
  <2>2. CASE Embed(p) BY <2>1, <2>2 DEF Embed, Goto
  <2>3. CASE Store(p) BY <1>1, <2>1, <2>3, AfterFits DEF Store, Goto
  <2> QED BY <2>2, <2>3
<1> DEFINE r == [proc[p] EXCEPT !.pc = pc, !.errs = errs]
<1>5. r \in Process BY <1>0 DEF Process, JobPC
<1>6. /\ r.pc = pc /\ r.run = proc[p].run /\ r.batch = proc[p].batch
      /\ r.pos = proc[p].pos
  BY <1>0 DEF Process
<1>7. Set(p, r) BY <1>4
<1> HIDE DEF r
<1>8. JobFits(r)
  <2>1. r.pc \in JobPC \cup SharedPC /\ r.pc # "idle" /\ r.pc \notin {"finalize", "mirror"}
        /\ (r.pc \in Booking => r.pc = "record")
    BY <1>6 DEF JobPC, Booking
  <2> QED BY <1>1, <1>4, <1>5, <1>6, <2>1, JobGoes
<1>9. /\ proc' \in [Proc -> Process] /\ proc'[p] = r
      /\ \A q \in Proc : q # p => proc'[q] = proc[q]
      /\ OwnRuns'
  BY <1>0, <1>5, <1>7, OneMoves
<1>10. JobFits(proc[p])' BY <1>3, <1>8, <1>9 DEF JobFits
<1>11. /\ doc' \in [Position -> DocStatus]
       /\ \A o \in Position : doc[o] # "missing" => doc'[o] # "missing"
  BY <1>4 DEF IInv, TypeOK, DocStatus
<1>12. /\ \A q \in Sync : proc'[q] = proc[q]
       /\ \A q \in Job : proc'[q] = proc[q] \/ JobFits(proc[q])'
  BY <1>0, <1>9, <1>10 DEF Proc
<1>13. sweep' \in [pc : {"idle", "mark", "requeue"}, at : Nat] /\ SweepOK'
  BY <1>3 DEF IInv, TypeOK, SweepOK
<1> QED BY <1>2, <1>3, <1>9, <1>11, <1>12, <1>13, DocChanges

LEMMA Recovering == ASSUME IInv, NEW pos \in Position, Recover(pos) PROVE IInv'
<1>1. /\ doc' = [doc EXCEPT ![pos] = "pending"]
      /\ sweep' = [pc |-> "requeue", at |-> pos]
      /\ UNCHANGED <<run, connector, batch, proc, route, permission, missed, faults>>
  BY DEF Recover
<1>2. pos \in Nat BY Bounds DEF Position
<1>3. sweep' \in [pc : {"idle", "mark", "requeue"}, at : Nat] /\ SweepOK'
  BY <1>1, <1>2 DEF SweepOK
<1>4. /\ doc' \in [Position -> DocStatus] /\ faults' \in Nat
      /\ proc' \in [Proc -> Process]
      /\ \A o \in Position : doc[o] # "missing" => doc'[o] # "missing"
  BY <1>1 DEF IInv, TypeOK, DocStatus
<1>5. OwnRuns' BY <1>1 DEF IInv, OwnRuns
<1> QED BY <1>1, <1>3, <1>4, <1>5, DocChanges

---------------------------------------------------------------------------
(* The outcome of a batch *)

(* Stamping a task adds it to the outcomes of its run, and to no other's. *)
LEMMA Stamping ==
    ASSUME IInv, NEW k \in Run, NEW b \in Batch, batch[b].run = k, Claimable(b),
           NEW failed \in BOOLEAN,
           batch' = [batch EXCEPT ![b].recorded = TRUE, ![b].failed = failed]
    PROVE  /\ batch' \in [Batch -> BatchRow]
           /\ \A c \in Batch : c # b => batch'[c] = batch[c]
           /\ \A c \in Batch : /\ batch'[c].status = batch[c].status
                               /\ batch'[c].run = batch[c].run
                               /\ batch'[c].pos = batch[c].pos
           /\ batch'[b].failed = failed
           /\ b \in BatchesOf(k) /\ b \notin Recorded(k)
           /\ \A j : BatchesOf(j)' = BatchesOf(j)
           /\ Recorded(k)' = Recorded(k) \cup {b}
           /\ \A j \in Run : j # k => Recorded(j)' = Recorded(j)
           /\ Cardinality(Recorded(k)') = Cardinality(Recorded(k)) + 1
<1>1. batch \in [Batch -> BatchRow] BY DEF IInv, TypeOK
<1>2. batch[b].status # "absent" /\ ~batch[b].recorded BY DEF Claimable
<1>3. batch' \in [Batch -> BatchRow] BY <1>1 DEF BatchRow
<1>4. \A c \in Batch : c # b => batch'[c] = batch[c] BY <1>1
<1>5. \A c \in Batch : /\ batch'[c].status = batch[c].status
                       /\ batch'[c].run = batch[c].run
                       /\ batch'[c].pos = batch[c].pos
  BY <1>1 DEF BatchRow
<1>6. batch'[b].failed = failed /\ batch'[b].recorded BY <1>1 DEF BatchRow
<1>7. b \in BatchesOf(k) /\ b \notin Recorded(k) BY <1>2 DEF BatchesOf, Recorded
<1>8. \A j : BatchesOf(j)' = BatchesOf(j) BY <1>5 DEF BatchesOf
<1>9. Recorded(k)' = Recorded(k) \cup {b}
  <2>1. BatchesOf(k)' = BatchesOf(k) BY <1>8
  <2>2. \A c \in BatchesOf(k) : c # b => batch'[c] = batch[c]
    BY <1>4 DEF BatchesOf
  <2> QED BY <1>6, <1>7, <2>1, <2>2 DEF Recorded
<1>10. ASSUME NEW j \in Run, j # k PROVE Recorded(j)' = Recorded(j)
  <2>1. b \notin BatchesOf(j) BY <1>10 DEF BatchesOf
  <2> QED BY <1>4, <1>8, <2>1 DEF Recorded, BatchesOf
<1>11. Cardinality(Recorded(k)') = Cardinality(Recorded(k)) + 1
  BY <1>7, <1>9, BatchesFinite, FS_AddElement
<1> QED BY <1>3, <1>4, <1>5, <1>6, <1>7, <1>8, <1>9, <1>10, <1>11

(* The row with one more outcome: it is drained only by its last batch.    *)
LEMMA OutcomeFits ==
    ASSUME IInv, NEW k \in Run, AcceptsOutcomes(run[k]), NEW failed \in BOOLEAN,
           NEW b \in BatchesOf(k), b \notin Recorded(k),
           NEW row, row = WithOutcome(run[k], failed)
    PROVE  /\ row \in RunRow
           /\ row.family = run[k].family /\ row.epoch = run[k].epoch
           /\ row.total = run[k].total
           /\ row.completed = Cardinality(Recorded(k)) + 1
           /\ row.errors = (run[k].errors \/ failed)
           /\ row.status = run[k].status \/ row.status \in Drained
           /\ run[k].status = "partial" => row.status = "partial"
           /\ run[k].total = 0 => row.status = run[k].status
           /\ row.status \in Drained => Recorded(k) \cup {b} = BatchesOf(k)
           /\ row.status = "success" => missed[k] = {} /\ ~row.errors
<1>1. RowFits(k, run[k]) /\ run[k] \in RunRow BY DEF IInv, RowsOK, TypeOK
<1>2. run[k].status \in {"running", "partial"} BY DEF AcceptsOutcomes
<1>3. run[k].completed = Cardinality(Recorded(k))
  BY <1>1, <1>2 DEF RowFits, CountedStatus
<1> DEFINE c == [run[k] EXCEPT !.completed = @ + 1, !.errors = @ \/ failed]
<1>4. c \in RunRow
  <2>1. run[k].completed + 1 \in Nat BY <1>1 DEF RunRow
  <2>2. (run[k].errors \/ failed) \in BOOLEAN OBVIOUS
  <2> QED BY <1>1, <2>1, <2>2 DEF RunRow
<1>5. /\ c.family = run[k].family /\ c.epoch = run[k].epoch
      /\ c.total = run[k].total /\ c.status = run[k].status
      /\ c.completed = run[k].completed + 1
      /\ c.errors = (run[k].errors \/ failed)
  BY <1>1 DEF RunRow
<1>6. row = IF run[k].status = "partial" THEN c
            ELSE [c EXCEPT !.status = DrainStatus(c)]
  BY DEF WithOutcome
<1> HIDE DEF c
<1>7. DrainStatus(c) = run[k].status \/ DrainStatus(c) \in Drained
  BY <1>5 DEF DrainStatus, Drained
<1>8. row \in RunRow /\ row.family = c.family /\ row.epoch = c.epoch
      /\ row.total = c.total /\ row.completed = c.completed /\ row.errors = c.errors
      /\ row.status = IF run[k].status = "partial" THEN "partial" ELSE DrainStatus(c)
  <2>1. CASE run[k].status = "partial" BY <1>4, <1>5, <1>6, <2>1
  <2>2. CASE run[k].status # "partial"
    <3>1. DrainStatus(c) \in {"absent", "running"} \cup Terminal
      BY <1>2, <1>7 DEF Terminal
    <3>2. row = [c EXCEPT !.status = DrainStatus(c)] BY <1>6, <2>2
    <3> HIDE DEF DrainStatus
    <3> QED BY <1>4, <2>2, <3>1, <3>2 DEF RunRow
  <2> QED BY <2>1, <2>2
<1>9. run[k].total = 0 => row.status = run[k].status
  BY <1>2, <1>5, <1>8 DEF DrainStatus
<1>10. row.status \in Drained => /\ run[k].total > 0
                                 /\ row.completed >= run[k].total
  BY <1>2, <1>5, <1>8 DEF DrainStatus, Drained
<1>11. ASSUME row.status \in Drained PROVE Recorded(k) \cup {b} = BatchesOf(k)
  <2>1. run[k].total = Cardinality(BatchesOf(k)) BY <1>1, <1>10, <1>11 DEF RowFits
  <2>2. Recorded(k) \cup {b} \subseteq BatchesOf(k) BY DEF Recorded
  <2>3. /\ IsFiniteSet(Recorded(k) \cup {b})
        /\ Cardinality(Recorded(k) \cup {b}) = Cardinality(Recorded(k)) + 1
    BY BatchesFinite, FS_AddElement
  <2>4. Cardinality(Recorded(k) \cup {b}) >= Cardinality(BatchesOf(k))
    BY <1>3, <1>5, <1>8, <1>10, <1>11, <2>1, <2>3
  <2>5. Cardinality(Recorded(k) \cup {b}) <= Cardinality(BatchesOf(k))
    BY <2>2, BatchesFinite, FS_Subset
  <2>6. Cardinality(Recorded(k) \cup {b}) = Cardinality(BatchesOf(k))
    BY <2>3, <2>4, <2>5, BatchesFinite
  <2> QED BY <2>2, <2>6, BatchesFinite, FS_Subset
<1>12. ASSUME row.status = "success" PROVE missed[k] = {} /\ ~row.errors
  <2>1. ~c.errors BY <1>2, <1>5, <1>8, <1>12 DEF DrainStatus
  <2>2. run[k].total > 0 BY <1>10, <1>12 DEF Drained
  <2> QED BY <1>1, <1>5, <1>8, <2>1, <2>2 DEF RowFits
<1>13. row.status = run[k].status \/ row.status \in Drained BY <1>2, <1>7, <1>8
<1> QED BY <1>3, <1>5, <1>8, <1>9, <1>11, <1>12, <1>13

(* Batches and rows after an outcome, on a run that takes it or does not.  *)
LEMMA OutcomeKeeps ==
    ASSUME IInv, NEW k \in Run, NEW b \in Batch, batch[b].run = k, Claimable(b),
           NEW failed \in BOOLEAN,
           batch' = [batch EXCEPT ![b].recorded = TRUE, ![b].failed = failed],
           UNCHANGED missed, NEW row,
           row = IF AcceptsOutcomes(run[k]) THEN WithOutcome(run[k], failed)
                                            ELSE run[k],
           run' = [run EXCEPT ![k] = row]
    PROVE  /\ run' \in [Run -> RunRow]
           /\ RowsOK'
           /\ BatchesOK'
           /\ \A j \in Run : /\ run'[j].family = run[j].family
                             /\ run[j].errors => run'[j].errors
                             /\ run[j].total = 0 =>
                                  run'[j].total = 0 /\ run'[j].status = run[j].status
<1>1. /\ \A c \in Batch : c # b => batch'[c] = batch[c]
      /\ \A c \in Batch : /\ batch'[c].status = batch[c].status
                          /\ batch'[c].run = batch[c].run
                          /\ batch'[c].pos = batch[c].pos
      /\ batch'[b].failed = failed
      /\ b \in BatchesOf(k) /\ b \notin Recorded(k)
      /\ \A j : BatchesOf(j)' = BatchesOf(j)
      /\ Recorded(k)' = Recorded(k) \cup {b}
      /\ \A j \in Run : j # k => Recorded(j)' = Recorded(j)
      /\ Cardinality(Recorded(k)') = Cardinality(Recorded(k)) + 1
  BY Stamping
<1>2. RowFits(k, run[k]) /\ run \in [Run -> RunRow] BY DEF IInv, RowsOK, TypeOK
<1>3. run[k] \in RunRow BY <1>2
<1>4. BatchesOf(k)' = BatchesOf(k) BY <1>1
<1>5. \A c \in BatchesOf(k) : batch'[c].failed => batch[c].failed \/ (c = b /\ failed)
  BY <1>1 DEF BatchesOf
<1>6. run[k].status # "absent"
  BY <1>1, UnusedEmpty DEF IInv
<1>7. row \in RunRow /\ row.family = run[k].family
      /\ (run[k].errors => row.errors)
      /\ (run[k].total = 0 => row.total = 0 /\ row.status = run[k].status)
      /\ RowFits(k, row)'
  <2>1. CASE AcceptsOutcomes(run[k])
    <3>1. row = WithOutcome(run[k], failed) BY <2>1
    <3>2. /\ row \in RunRow
          /\ row.family = run[k].family /\ row.epoch = run[k].epoch
          /\ row.total = run[k].total
          /\ row.completed = Cardinality(Recorded(k)) + 1
          /\ row.errors = (run[k].errors \/ failed)
          /\ row.status = run[k].status \/ row.status \in Drained
          /\ run[k].status = "partial" => row.status = "partial"
          /\ run[k].total = 0 => row.status = run[k].status
          /\ row.status \in Drained => Recorded(k) \cup {b} = BatchesOf(k)
          /\ row.status = "success" => missed[k] = {} /\ ~row.errors
      BY <1>1, <2>1, <3>1, OutcomeFits
    <3>3. run[k].status \in {"running", "partial"} BY <2>1 DEF AcceptsOutcomes
    <3>4. row.status # "absent" BY <1>6, <3>2 DEF Drained
    <3>5. row.status \in {"absent", "running"} => row.epoch = 0
      BY <1>2, <3>2, <3>3, <3>4 DEF RowFits, Drained
    <3>6. row.completed = Cardinality(Recorded(k)') BY <1>1, <3>2
    <3>7. \A c \in BatchesOf(k)' : batch'[c].failed => row.errors
      BY <1>2, <1>4, <1>5, <3>2, <3>3 DEF RowFits, CountedStatus
    <3>8. row.total > 0 => /\ row.total = Cardinality(BatchesOf(k)')
                           /\ missed'[k] # {} => row.errors
      BY <1>2, <1>4, <3>2 DEF RowFits
    <3>9. row.status \in Drained => Recorded(k)' = BatchesOf(k)' BY <1>1, <1>4, <3>2
    <3>10. RowFits(k, row)'
      BY <3>2, <3>4, <3>5, <3>6, <3>7, <3>8, <3>9 DEF RowFits
    <3> QED BY <3>2, <3>10
  <2>2. CASE ~AcceptsOutcomes(run[k])
    <3>1. row = run[k] BY <2>2
    <3>2. row.status \notin Drained BY <1>1, <1>2, <3>1 DEF RowFits
    <3>3. row.status \notin CountedStatus
      BY <2>2, <3>1, <3>2 DEF AcceptsOutcomes, CountedStatus
    <3>4. row.status # "success" BY <3>2 DEF Drained
    <3>5. RowFits(k, row)'
      BY <1>2, <1>4, <1>6, <3>1, <3>2, <3>3, <3>4 DEF RowFits
    <3> QED BY <1>3, <3>1, <3>5
  <2> QED BY <2>1, <2>2
<1>8. run'[k] = row /\ \A j \in Run : j # k => run'[j] = run[j] BY <1>2
<1>9. run' \in [Run -> RunRow] BY <1>2, <1>7
<1>10. RowsOK'
  <2> SUFFICES ASSUME NEW j \in Run PROVE RowFits(j, run[j])' BY DEF RowsOK
  <2>1. CASE j = k BY <1>7, <1>8, <2>1 DEF RowFits
  <2>2. CASE j # k
    <3>1. Recorded(j)' = Recorded(j) /\ BatchesOf(j)' = BatchesOf(j) BY <1>1, <2>2
    <3>2. \A c \in BatchesOf(j) : batch'[c].failed = batch[c].failed
      BY <1>1, <2>2 DEF BatchesOf
    <3> QED BY <1>8, <2>2, <3>1, <3>2, RowStays
  <2> QED BY <2>1, <2>2
<1>11. BatchesOK'
  <2> SUFFICES ASSUME NEW c \in Batch PROVE BatchOK(c)' BY DEF BatchesOK
  <2>1. BatchOK(c) /\ batch[c] \in BatchRow BY DEF IInv, BatchesOK, TypeOK
  <2>2. batch[c].run # 0 => batch[c].run \in Run BY <2>1, Bounds DEF BatchRow, Run
  <2>3. batch[c].status # "absent" /\ batch[c].run # 0 =>
           run'[batch[c].run].family = run[batch[c].run].family
    BY <1>7, <1>8, <2>2
  <2> QED BY <1>1, <2>1, <2>3 DEF BatchOK, Content
<1>12. \A j \in Run : /\ run'[j].family = run[j].family
                      /\ run[j].errors => run'[j].errors
                      /\ run[j].total = 0 =>
                           run'[j].total = 0 /\ run'[j].status = run[j].status
  BY <1>7, <1>8
<1> QED BY <1>9, <1>10, <1>11, <1>12

(* completeBatch, by the handler or by the queue when a task is dead. *)
LEMMA Concluding ==
    ASSUME IInv, NEW p \in Job, proc[p].pc \in {"record", "bury"},
           NEW failed \in BOOLEAN, CompleteBatch(p, failed),
           UNCHANGED <<connector, doc, sweep, route, permission, missed, faults>>
    PROVE  IInv'
<1>0. p \in Proc /\ p \notin Sync /\ proc[p] \in Process /\ JobFits(proc[p]) BY JobHas
<1>1. proc[p].pc \in Booking /\ proc[p].pc # "idle" BY DEF Booking
<1>2. PICK k \in Run : k = proc[p].run BY <1>0, <1>1 DEF JobFits
<1>3. PICK b \in Batch : b = proc[p].batch BY <1>0, <1>1 DEF JobFits
<1>4. batch[b].run = k /\ batch[b].status # "absent"
  BY <1>0, <1>1, <1>2, <1>3 DEF JobFits
<1>5. run \in [Run -> RunRow] /\ batch \in [Batch -> BatchRow] BY DEF IInv, TypeOK
<1> DEFINE row == IF Claimable(b) /\ AcceptsOutcomes(run[k])
                  THEN WithOutcome(run[k], failed) ELSE run[k]
           returned == Claimable(b) => AcceptsOutcomes(run[k])
<1>6. /\ run' = [run EXCEPT ![k] = row]
      /\ batch' = IF Claimable(b)
                  THEN [batch EXCEPT ![b].recorded = TRUE, ![b].failed = failed]
                  ELSE batch
      /\ IF returned /\ row.status \in Drained /\ row.completed >= row.total
         THEN Set(p, [proc[p] EXCEPT !.pc = "finalize", !.out = row.status])
         ELSE Goto(p, "done")
  BY <1>2, <1>3 DEF CompleteBatch
<1> HIDE DEF row, returned
<1>7. PICK r \in Process : Set(p, r) /\ JobFits(r)
  <2>1. PICK pc \in {"finalize", "done"}, out \in {"none"} \cup Terminal :
          /\ Set(p, [proc[p] EXCEPT !.pc = pc, !.out = out])
          /\ pc = "finalize" => out \in Terminal
    <3>1. CASE returned /\ row.status \in Drained /\ row.completed >= row.total
      <4>1. Set(p, [proc[p] EXCEPT !.pc = "finalize", !.out = row.status])
        BY <1>6, <3>1
      <4>2. row.status \in Terminal BY <3>1 DEF Terminal
      <4> QED BY <4>1, <4>2
    <3>2. CASE ~(returned /\ row.status \in Drained /\ row.completed >= row.total)
      <4>1. Set(p, [proc[p] EXCEPT !.pc = "done"]) BY <1>6, <3>2 DEF Goto
      <4>2. /\ proc[p].out \in {"none"} \cup Terminal
            /\ [proc[p] EXCEPT !.pc = "done"]
                 = [proc[p] EXCEPT !.pc = "done", !.out = proc[p].out]
        BY <1>0 DEF Process
      <4> QED BY <4>1, <4>2
    <3> QED BY <3>1, <3>2
  <2> DEFINE r == [proc[p] EXCEPT !.pc = pc, !.out = out]
  <2>2. r \in Process BY <1>0 DEF Process, JobPC
  <2>3. /\ r.pc = pc /\ r.run = proc[p].run /\ r.batch = proc[p].batch
        /\ r.pos = proc[p].pos /\ r.out = out
    BY <1>0 DEF Process
  <2> HIDE DEF r
  <2>4. r.pc \in JobPC \cup SharedPC /\ r.pc # "idle" /\ r.pc # "mirror"
    BY <2>3 DEF JobPC
  <2>5. JobFits(r) BY <1>1, <1>2, <2>1, <2>2, <2>3, <2>4, JobGoes
  <2> QED BY <2>1, <2>2, <2>5 DEF r
<1>8. CASE ~Claimable(b)
  <2>1. row = run[k] BY <1>8 DEF row
  <2>2. run' = run /\ batch' = batch BY <1>5, <1>6, <1>8, <2>1
  <2>3. connector \in Connector /\ permission \in Nat /\ faults \in Nat
    BY DEF IInv, TypeOK
  <2> QED BY <1>0, <1>7, <2>2, <2>3, Moves
<1>9. CASE Claimable(b)
  <2>1. batch' = [batch EXCEPT ![b].recorded = TRUE, ![b].failed = failed]
    BY <1>6, <1>9
  <2>2. row = IF AcceptsOutcomes(run[k]) THEN WithOutcome(run[k], failed)
                                         ELSE run[k]
    BY <1>9 DEF row
  <2>3. /\ batch' \in [Batch -> BatchRow]
        /\ \A c \in Batch : /\ batch'[c].status = batch[c].status
                            /\ batch'[c].run = batch[c].run
        /\ \A j : BatchesOf(j)' = BatchesOf(j)
    BY <1>4, <1>9, <2>1, Stamping
  <2>4. /\ run' \in [Run -> RunRow]
        /\ RowsOK'
        /\ BatchesOK'
        /\ \A j \in Run : /\ run'[j].family = run[j].family
                          /\ run[j].errors => run'[j].errors
                          /\ run[j].total = 0 =>
                               run'[j].total = 0 /\ run'[j].status = run[j].status
    BY <1>4, <1>6, <1>9, <2>1, <2>2, OutcomeKeeps
  <2>5. /\ proc' \in [Proc -> Process] /\ proc'[p] = r
        /\ \A q \in Proc : q # p => proc'[q] = proc[q]
        /\ OwnRuns'
    BY <1>0, <1>7, OneMoves
  <2>6. \A o \in Position : Accounted(o) => Accounted(o)' BY <2>4, AccountedStays
  <2>7. SyncsOK'
    <3> SUFFICES ASSUME NEW q \in Sync PROVE SyncFits(proc[q])' BY DEF SyncsOK
    <3>1. q \in Proc /\ q # p /\ proc[q] \in Process /\ SyncFits(proc[q])
      BY <1>0, SyncHas
    <3>2. PICK j \in 0..MaxRuns : j = proc[q].run BY <3>1 DEF Process
    <3>3. proc[q].pc \in PastClaim =>
            /\ run'[j].family = run[j].family
            /\ run[j].errors => run'[j].errors
            /\ run[j].total = 0 /\ run[j].status \notin Drained =>
                 run'[j].total = 0 /\ run'[j].status \notin Drained
      BY <2>4, <3>1, <3>2 DEF SyncFits
    <3>4. BatchesOf(j)' = BatchesOf(j) BY <2>3
    <3>5. proc'[q] = proc[q] BY <2>5, <3>1
    <3> QED BY <2>6, <3>2, <3>3, <3>4, <3>5, SyncStays
  <2>8. JobsOK'
    <3> SUFFICES ASSUME NEW q \in Job PROVE JobFits(proc[q])' BY DEF JobsOK
    <3>1. q \in Proc /\ JobFits(proc[q]) BY JobHas
    <3>2. CASE q = p
      <4>1. r.pc # "idle" => r.batch \in Batch BY <1>7 DEF JobFits
      <4> QED BY <1>7, <2>3, <2>5, <3>2, <4>1 DEF JobFits
    <3>3. CASE q # p
      <4>1. proc[q].pc # "idle" => /\ proc[q].batch \in Batch
                                   /\ batch[proc[q].batch].status # "absent"
        BY <3>1 DEF JobFits
      <4> QED BY <2>3, <2>5, <3>1, <3>3, <4>1, JobStays
    <3> QED BY <3>2, <3>3
  <2>9. /\ sweep' \in [pc : {"idle", "mark", "requeue"}, at : Nat] /\ SweepOK'
        /\ route' \in [run : 0..MaxRuns, todo : SUBSET {"purge", "mark"}]
        /\ faults' \in Nat
    BY DEF IInv, TypeOK, SweepOK
  <2> QED BY <2>3, <2>4, <2>5, <2>7, <2>8, <2>9, BatchChanges
<1> QED BY <1>8, <1>9

---------------------------------------------------------------------------
(* The invariant *)

LEMMA Starting == ASSUME Init PROVE IInv
<1> USE DEF Init
<1>1. TypeOK
  <2>1. NoRun \in RunRow BY DEF NoRun, RunRow, Family
  <2>2. NoBatch \in BatchRow BY Bounds DEF NoBatch, BatchRow
  <2>3. [status |-> "never", at |-> 0, checkpoint |-> 0] \in Connector
    BY Bounds DEF Connector
  <2>4. Idle \in Process BY IdleFits
  <2>5. 0 \in 0..MaxRuns BY Bounds
  <2> HIDE DEF NoRun, NoBatch, Idle
  <2> QED BY <2>1, <2>2, <2>3, <2>4, <2>5, Bounds DEF TypeOK, DocStatus
<1>2. \A k : BatchesOf(k) = {} /\ Recorded(k) = {}
  BY DEF BatchesOf, Recorded, NoBatch
<1>3. RowsOK BY <1>2 DEF RowsOK, RowFits, NoRun, CountedStatus, Drained
<1>4. BatchesOK BY DEF BatchesOK, BatchOK, NoBatch
<1>5. SyncsOK BY IdleFits DEF SyncsOK, Proc
<1>6. JobsOK BY IdleFits DEF JobsOK, Proc
<1>7. OwnRuns BY DEF OwnRuns, Proc, Idle, PastClaim, SyncPC
<1>8. SweepOK BY DEF SweepOK
<1>9. NoSilentLoss BY DEF NoSilentLoss
<1> QED BY <1>1, <1>3, <1>4, <1>5, <1>6, <1>7, <1>8, <1>9 DEF IInv

LEMMA SyncSteps == ASSUME IInv, NEW p \in Sync, SyncStep(p) PROVE IInv'
<1>0. p \in Proc BY DEF Proc
<1>1. CASE Read(p) BY <1>1, Reading
<1>2. CASE Claim(p) BY <1>2, Claiming
<1>3. CASE ClaimBusy(p) \/ LateThrow(p) BY <1>0, <1>3, Quitting
<1>4. CASE Refuse(p) BY <1>4, Refusing
<1>5. CASE Announce(p) BY <1>5, Announcing
<1>6. CASE Renew(p) BY <1>6, Renewing
<1>7. CASE Ingest(p) BY <1>7, Ingesting
<1>8. CASE IngestFails(p) BY <1>8, FailingItem
<1>9. CASE EnqueueBatch(p) BY <1>9, Enqueueing
<1>10. CASE Flush(p) BY <1>10, Flushing
<1>11. CASE Checkpoint(p) BY <1>11, Checkpointing
<1>12. CASE Throw(p) BY <1>12, Throwing
<1>13. CASE StopEarly(p) \/ FinishEmpty(p) \/ FinishDraining(p) BY <1>13, Ending
<1>14. CASE FinalizeIfComplete(p) BY <1>14, Checking
<1>15. CASE Fail(p) BY <1>15, Failing
<1>16. CASE Beat(p) BY <1>16, Beats
<1> QED
  BY <1>1, <1>2, <1>3, <1>4, <1>5, <1>6, <1>7, <1>8, <1>9, <1>10, <1>11,
     <1>12, <1>13, <1>14, <1>15, <1>16
  DEF SyncStep

LEMMA JobSteps ==
    ASSUME IInv, NEW p \in Job, JobStep(p) \/ (\E b \in Batch : Deliver(p, b))
    PROVE  IInv'
<1>1. CASE Load(p) \/ Finalize(p) \/ HandlerThrows(p) BY <1>1, Handling
<1>2. CASE Embed(p) \/ Store(p) BY <1>2, Embedding
<1>3. CASE Record(p)
  <2>1. PICK failed \in BOOLEAN : failed = proc[p].errs BY JobHas DEF Process
  <2> QED BY <1>3, <2>1, Concluding DEF Record, At
<1>4. CASE Bury(p) BY <1>4, Concluding DEF Bury, At
<1>5. CASE Done(p) BY <1>5, Completing
<1>6. CASE \E b \in Batch : Deliver(p, b) BY <1>6, Delivering
<1> QED BY <1>1, <1>2, <1>3, <1>4, <1>5, <1>6 DEF JobStep

LEMMA OtherSteps == ASSUME IInv, Sweep \/ Others PROVE IInv'
<1>1. CASE \E k \in Run : Reap(k) BY <1>1, Reaping
<1>2. CASE \E pos \in Position : Recover(pos) BY <1>2, Recovering
<1>3. CASE MarkReaped \/ Reconcile \/ CrashSweep \/ MarkCancelled \/ RequestPass
  BY <1>3, Settling
<1>4. CASE Requeue BY <1>4, Requeueing
<1>5. CASE \E k \in Run : Cancel(k) \/ LeaseLapses(k) BY <1>5, Cancelling, Lapsing
<1>6. CASE Purge BY <1>6, Purging
<1>7. CASE StartPass \/ EndPass BY <1>7, Passing
<1> QED BY <1>1, <1>2, <1>3, <1>4, <1>5, <1>6, <1>7 DEF Sweep, Others

LEMMA Stepping == ASSUME IInv, [Next]_vars PROVE IInv'
<1>1. CASE \E p \in Sync : SyncStep(p) BY <1>1, SyncSteps
<1>2. CASE \E p \in Job : JobStep(p) \/ (\E b \in Batch : Deliver(p, b))
  BY <1>2, JobSteps
<1>3. CASE \E p \in Proc : SharedStep(p)
  BY <1>3, Following, Quitting DEF SharedStep
<1>4. CASE Sweep \/ Others BY <1>4, OtherSteps
<1>5. CASE UNCHANGED vars
  <2>1. /\ connector' \in Connector /\ permission' \in Nat /\ faults' \in Nat
        /\ sweep' \in [pc : {"idle", "mark", "requeue"}, at : Nat] /\ SweepOK'
        /\ route' \in [run : 0..MaxRuns, todo : SUBSET {"purge", "mark"}]
    BY <1>5 DEF vars, IInv, TypeOK, SweepOK
  <2> QED BY <1>5, <2>1, Elsewhere DEF vars
<1> QED BY <1>1, <1>2, <1>3, <1>4, <1>5 DEF Next

(* Every reachable state satisfies the inductive invariant. *)
THEOREM Invariant == Spec => []IInv
<1>1. Init => IInv BY Starting
<1>2. IInv /\ [Next]_vars => IInv' BY Stepping
<1> QED BY <1>1, <1>2, PTL DEF Spec

(* Rows, tasks, invocations and the connector keep their types. *)
THEOREM TypeCorrect == Spec => []TypeOK
<1>1. IInv => TypeOK BY DEF IInv
<1> QED BY <1>1, Invariant, PTL

(* The completed count of a run is the number of its stamped batches, for  *)
(* any number of syncs, handlers, redeliveries and faults (completeBatch). *)
THEOREM CountedOnceHolds == Spec => []CountedOnce
<1>1. IInv => CountedOnce
  BY DEF IInv, RowsOK, RowFits, CountedOnce, CountedStatus, Recorded
<1> QED BY <1>1, Invariant, PTL

(* A run reported complete has the outcome of each of its batches, in      *)
(* whichever order the last of them and the totals came in.                *)
THEOREM CompleteMeansDrainedHolds == Spec => []CompleteMeansDrained
<1>1. IInv => CompleteMeansDrained
  BY DEF IInv, RowsOK, RowFits, CompleteMeansDrained, Recorded
<1> QED BY <1>1, Invariant, PTL

(* A documents sync that ended in success has no error reported to it: no  *)
(* item that failed at ingestion, no batch that was recorded as failed.    *)
(* It does not say that its documents are embedded; they need not be.      *)
THEOREM ErrorsKeptHolds == Spec => []ErrorsKept
<1>1. ASSUME IInv PROVE ErrorsKept
  <2> SUFFICES ASSUME NEW k \in Run, Content(k), run[k].status = "success"
               PROVE  missed[k] = {} /\ \A b \in BatchesOf(k) : ~batch[b].failed
    BY DEF ErrorsKept
  <2>1. RowFits(k, run[k]) BY <1>1 DEF IInv, RowsOK
  <2>2. run[k].status \in CountedStatus BY DEF CountedStatus, Drained
  <2> QED BY <2>1, <2>2 DEF RowFits, Content
<1> QED BY <1>1, Invariant, PTL

(* The checkpoint stays behind what is stored or counted as an error.      *)
THEOREM NoSilentLossHolds == Spec => []NoSilentLoss
<1>1. IInv => NoSilentLoss BY DEF IInv
<1> QED BY <1>1, Invariant, PTL

---------------------------------------------------------------------------
(* A run that has ended keeps its status *)

EndsKept == \A k \in Run : run[k].status \in Terminal =>
                              run'[k].status = run[k].status

LEMMA NotEnded == "running" \notin Terminal /\ "absent" \notin Terminal
BY DEF Terminal, Drained

(* Only a row that has not ended is given another status. *)
LEMMA OneRowKept ==
    ASSUME IInv, NEW k \in Run, NEW row, run' = [run EXCEPT ![k] = row],
           run[k].status \in Terminal => row.status = run[k].status
    PROVE  EndsKept
<1>1. run \in [Run -> RunRow] BY DEF IInv, TypeOK
<1> QED BY <1>1 DEF EndsKept

LEMMA OwnedKept ==
    ASSUME IInv, NEW k \in Run, run[k].status = "running", NEW row,
           run' = [run EXCEPT ![k] = row]
    PROVE  EndsKept
BY NotEnded, OneRowKept

(* The writes of a sync are fenced, or look at the status first. *)
LEMMA SyncKeepsEnds == ASSUME IInv, NEW p \in Sync, SyncStep(p) PROVE EndsKept
<1>1. CASE UNCHANGED run BY <1>1 DEF EndsKept
<1>2. CASE Claim(p)
  <2>1. UnusedRun # {} /\ run' = [run EXCEPT ![Least(UnusedRun)] = Started("content")]
    BY <1>2 DEF Claim
  <2>2. /\ Least(UnusedRun) \in Run
        /\ run[Least(UnusedRun)].status = "absent"
    BY <2>1, StartedFits
  <2>3. PICK k \in Run : k = Least(UnusedRun) BY <2>2
  <2> QED BY <2>1, <2>2, <2>3, NotEnded, OneRowKept
<1>3. ASSUME proc[p].pc \in PastClaim
      PROVE  \E k \in Run : k = proc[p].run
  BY <1>3, OwnRow
<1>4. CASE Refuse(p) \/ Renew(p) \/ Flush(p) \/ StopEarly(p) \/ FinishEmpty(p)
             \/ FinishDraining(p) \/ Fail(p) \/ Beat(p)
  <2>1. proc[p].pc \in PastClaim
    BY <1>4 DEF Refuse, Renew, Flush, StopEarly, FinishEmpty, FinishDraining, Fail,
                Beat, At, PastClaim, SyncPC
  <2>2. PICK k \in Run : k = proc[p].run BY <1>3, <2>1
  <2>3. run' = run \/ (Running(k) /\ \E row : run' = [run EXCEPT ![k] = row])
    BY <1>4, <2>2 DEF Refuse, Renew, Flush, StopEarly, FinishEmpty, FinishDraining,
                      Fail, Beat, Publish, Owned
  <2> QED BY <1>1, <2>3, OwnedKept DEF Running
<1>5. CASE FinalizeIfComplete(p)
  <2>1. proc[p].pc \in PastClaim BY <1>5 DEF FinalizeIfComplete, At, PastClaim, SyncPC
  <2>2. PICK k \in Run : k = proc[p].run BY <1>3, <2>1
  <2>3. run' = [run EXCEPT ![k].status = IF run[k].status = "running"
                                         THEN DrainStatus(run[k]) ELSE run[k].status]
    BY <1>5, <2>2 DEF FinalizeIfComplete
  <2>4. run \in [Run -> RunRow] BY DEF IInv, TypeOK
  <2> HIDE DEF DrainStatus
  <2> QED BY <2>3, <2>4, NotEnded DEF EndsKept, RunRow
<1> QED
  BY <1>1, <1>2, <1>4, <1>5
  DEF SyncStep, Read, ClaimBusy, Announce, Ingest, IngestFails, EnqueueBatch,
      Checkpoint, Throw, LateThrow

(* A run that takes outcomes after its end is partial, and stays partial.  *)
LEMMA OutcomeKeepsEnds ==
    ASSUME IInv, NEW p \in Job, proc[p].pc \in {"record", "bury"},
           NEW failed \in BOOLEAN, CompleteBatch(p, failed)
    PROVE  EndsKept
<1>1. JobFits(proc[p]) BY JobHas
<1>2. PICK k \in Run : k = proc[p].run BY <1>1 DEF JobFits, Booking
<1>3. PICK b \in Batch : b = proc[p].batch BY <1>1 DEF JobFits
<1>4. batch[b].run = k BY <1>1, <1>2, <1>3 DEF JobFits
<1> DEFINE row == IF Claimable(b) /\ AcceptsOutcomes(run[k])
                  THEN WithOutcome(run[k], failed) ELSE run[k]
<1>5. run' = [run EXCEPT ![k] = row] BY <1>2, <1>3 DEF CompleteBatch
<1>6. ASSUME run[k].status \in Terminal PROVE row.status = run[k].status
  <2>1. CASE Claimable(b) /\ AcceptsOutcomes(run[k])
    <3>1. run[k].status = "partial" BY <1>6, <2>1, NotEnded DEF AcceptsOutcomes
    <3>2. b \in BatchesOf(k) /\ b \notin Recorded(k)
      BY <1>4, <2>1 DEF Claimable, BatchesOf, Recorded
    <3>3. row = WithOutcome(run[k], failed) BY <2>1
    <3> HIDE DEF row
    <3> QED BY <2>1, <3>1, <3>2, <3>3, OutcomeFits
  <2>2. CASE ~(Claimable(b) /\ AcceptsOutcomes(run[k])) BY <2>2
  <2> QED BY <2>1, <2>2
<1> HIDE DEF row
<1> QED BY <1>5, <1>6, OneRowKept

LEMMA JobKeepsEnds ==
    ASSUME IInv, NEW p \in Job, JobStep(p) \/ (\E b \in Batch : Deliver(p, b))
    PROVE  EndsKept
<1>1. CASE UNCHANGED run BY <1>1 DEF EndsKept
<1>2. CASE Record(p)
  <2>1. PICK failed \in BOOLEAN : failed = proc[p].errs BY JobHas DEF Process
  <2> QED BY <1>2, <2>1, OutcomeKeepsEnds DEF Record, At
<1>3. CASE Bury(p) BY <1>3, OutcomeKeepsEnds DEF Bury, At
<1> QED BY <1>1, <1>2, <1>3
        DEF JobStep, Load, Embed, Store, Finalize, Done, HandlerThrows, Deliver

(* The reaper and a cancellation only take a run that is running, a pass   *)
(* only a row that is unused.                                              *)
LEMMA OthersKeepEnds == ASSUME IInv, Sweep \/ Others PROVE EndsKept
<1>1. CASE UNCHANGED run BY <1>1 DEF EndsKept
<1>2. CASE \E k \in Run : Reap(k) \/ Cancel(k) \/ LeaseLapses(k)
  <2>1. PICK k \in Run : Reap(k) \/ Cancel(k) \/ LeaseLapses(k) BY <1>2
  <2>2. Running(k) /\ \E row : run' = [run EXCEPT ![k] = row]
    BY <2>1 DEF Reap, Expired, Cancel, LeaseLapses
  <2> QED BY <2>2, OwnedKept DEF Running
<1>3. CASE StartPass
  <2>1. UnusedRun # {} /\ run' = [run EXCEPT ![Least(UnusedRun)] = Started("permission")]
    BY <1>3 DEF StartPass
  <2>2. /\ Least(UnusedRun) \in Run
        /\ run[Least(UnusedRun)].status = "absent"
    BY <2>1, StartedFits
  <2>3. PICK k \in Run : k = Least(UnusedRun) BY <2>2
  <2> QED BY <2>1, <2>2, <2>3, NotEnded, OneRowKept
<1>4. CASE EndPass BY <1>4, OwnedKept DEF EndPass, Running
<1> QED BY <1>1, <1>2, <1>3, <1>4
        DEF Sweep, Others, MarkReaped, Reconcile, Recover, Requeue, CrashSweep,
            Purge, MarkCancelled, RequestPass

(* No late owner, batch, reaper or cancellation rewrites the end of a run, *)
(* whatever the interleaving and the faults.                               *)
THEOREM EndedStaysEndedHolds == Spec => EndedStaysEnded
<1>1. ASSUME IInv, [Next]_vars PROVE EndsKept
  <2>1. CASE \E p \in Sync : SyncStep(p) BY <1>1, <2>1, SyncKeepsEnds
  <2>2. CASE \E p \in Job : JobStep(p) \/ (\E b \in Batch : Deliver(p, b))
    BY <1>1, <2>2, JobKeepsEnds
  <2>3. CASE \E p \in Proc : SharedStep(p)
    BY <2>3 DEF SharedStep, Mirror, Trigger, QueuePass, Crash, EndsKept
  <2>4. CASE Sweep \/ Others BY <1>1, <2>4, OthersKeepEnds
  <2>5. CASE UNCHANGED vars BY <2>5 DEF vars, EndsKept
  <2> QED BY <1>1, <2>1, <2>2, <2>3, <2>4, <2>5 DEF Next
<1>2. IInv /\ [Next]_vars => [EndsKept]_vars BY <1>1
<1>3. Spec => [][EndsKept]_vars BY <1>2, Invariant, PTL DEF Spec
<1> QED BY <1>3 DEF EndedStaysEnded, EndsKept
=============================================================================
