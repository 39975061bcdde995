------------------------ MODULE ActiveChatRun_proofs ------------------------
(***************************************************************************)
(* Theorems about ActiveChatRun: type correctness, and its safety and      *)
(* action properties, for any processes, runs, readers, streams, batch     *)
(* size and faults.                                                        *)
(***************************************************************************)
EXTENDS ActiveChatRun, TLAPS

---------------------------------------------------------------------------
(* Types *)

(* The drain marks with the status it has read. *)
VerdictRead == \A r \in Run : At(r, "mark") => stream[r].verdict # "none"

LEMMA EmptyType == <<>> \in Seq(Nat) /\ <<>> \in Seq(Seq(Nat))
OBVIOUS

(* The batcher's operators, field by field. *)
LEMMA FlushedFields ==
    ASSUME NEW b \in BatchState
    PROVE  /\ Flushed(b) \in BatchState
           /\ Flushed(b).pending = <<>>
           /\ Flushed(b).chain = IF b.pending = <<>> THEN b.chain
                                 ELSE Append(b.chain, b.pending)
           /\ Flushed(b).broken = b.broken
<1> DEFINE ch == IF b.pending = <<>> THEN b.chain ELSE Append(b.chain, b.pending)
<1>1. b.pending \in Seq(Nat) /\ b.chain \in Seq(Seq(Nat))
  BY DEF BatchState
<1>2. Append(b.chain, b.pending) \in Seq(Seq(Nat))
  BY <1>1
<1>3. ch \in Seq(Seq(Nat))
  BY <1>1, <1>2
<1>4. Flushed(b) = [b EXCEPT !.pending = <<>>, !.timer = FALSE, !.chain = ch]
  BY DEF Flushed
<1> HIDE DEF ch
<1>5. [b EXCEPT !.pending = <<>>, !.timer = FALSE, !.chain = ch] \in BatchState
  BY <1>3, EmptyType DEF BatchState
<1>6. Flushed(b).chain = ch
  BY <1>4 DEF BatchState
<1>7. Flushed(b).pending = <<>> /\ Flushed(b).broken = b.broken
  BY DEF Flushed, BatchState
<1> QED
  BY <1>4, <1>5, <1>6, <1>7 DEF ch

LEMMA WrittenFields ==
    ASSUME NEW b \in BatchState, NEW c \in Nat
    PROVE  /\ Written(b, c) \in BatchState
           /\ Written(b, c).pending = Append(b.pending, c)
           /\ Written(b, c).chain = b.chain
           /\ Written(b, c).broken = b.broken
<1>1. Append(b.pending, c) \in Seq(Nat)
  BY DEF BatchState
<1>2. Written(b, c) \in BatchState
  BY <1>1 DEF Written, BatchState
<1>3. Written(b, c).pending = Append(b.pending, c)
  BY <1>1 DEF Written, BatchState
<1>4. Written(b, c).chain = b.chain /\ Written(b, c).broken = b.broken
  BY DEF Written, BatchState
<1> QED
  BY <1>2, <1>3, <1>4

LEMMA EmptyBatchType == EmptyBatch \in BatchState
BY EmptyType DEF EmptyBatch, BatchState

LEMMA BrokenFields ==
    ASSUME NEW b, NEW why \in {"gone", "error"}
    PROVE  /\ Broken(b, why) \in BatchState
           /\ Broken(b, why).pending = <<>>
           /\ Broken(b, why).chain = <<>>
           /\ Broken(b, why).broken = why
<1>1. Broken(b, why) \in BatchState
  BY EmptyBatchType DEF Broken, BatchState
<1>2. Broken(b, why).pending = <<>> /\ Broken(b, why).chain = <<>>
  BY DEF Broken, EmptyBatch
<1>3. Broken(b, why).broken = why
  BY DEF Broken, EmptyBatch
<1> QED
  BY <1>1, <1>2, <1>3

LEMMA StoredFields ==
    ASSUME NEW b \in BatchState, b.chain # <<>>
    PROVE  /\ [b EXCEPT !.chain = Tail(b.chain)] \in BatchState
           /\ Head(b.chain) \in Seq(Nat)
<1>1. b.chain \in Seq(Seq(Nat))
  BY DEF BatchState
<1>2. Head(b.chain) \in Seq(Nat) /\ Tail(b.chain) \in Seq(Seq(Nat))
  BY <1>1
<1>3. [b EXCEPT !.chain = Tail(b.chain)] \in BatchState
  BY <1>2 DEF BatchState
<1> QED
  BY <1>2, <1>3

LEMMA StreamType ==
    ASSUME TypeOK, NEW r \in Run
    PROVE  /\ stream[r] \in StreamState /\ batch[r] \in BatchState
           /\ row[r] \in RowState
BY DEF TypeOK

LEMMA EndedType ==
    ASSUME NEW t \in RowState, NEW s \in Terminal,
           NEW why \in {"none", "chunk", "drain", "shutdown", "stale"}
    PROVE  Ended(t, s, why) \in RowState
BY DEF Ended, RowState

LEMMA ReapedType == TypeOK => Reaped \in [Run -> RowState]
BY EndedType DEF Reaped, TypeOK, Terminal

LEMMA SpendType ==
    ASSUME TypeOK, NEW f, Spend(f)
    PROVE  faults' \in 0..MaxFaults
BY ChatFaultsAssumption DEF Spend, TypeOK

LEMMA GotoType ==
    ASSUME TypeOK, NEW r \in Run, NEW pc \in StreamPC, Goto(r, pc)
    PROVE  stream' \in [Run -> StreamState]
<1>1. [stream[r] EXCEPT !.pc = pc] \in StreamState
  BY StreamType DEF StreamState
<1> QED
  BY <1>1 DEF Goto, TypeOK

LEMMA OverType ==
    ASSUME TypeOK, NEW r \in Run
    PROVE  NoStream \in StreamState /\ Over(r) \in [Run -> StreamState]
BY DEF Over, Owner, NoStream, TypeOK, StreamState, StreamPC, Verdict

(* Where the owner of a stream is a process. *)
LEMMA MarkTerminalType ==
    ASSUME TypeOK, NEW r \in Run, NEW s \in Terminal,
           NEW why \in {"none", "chunk", "drain", "shutdown", "stale"},
           MarkTerminal(r, s, why)
    PROVE  row' \in [Run -> RowState] /\ inFlight' \in [Proc -> SUBSET Run]
<1>1. Ended(row[r], s, why) \in RowState
  BY EndedType DEF TypeOK
<1> QED
  BY <1>1 DEF MarkTerminal, TypeOK

LEMMA VanishType ==
    ASSUME TypeOK, NEW p \in Proc, Vanish(p), UNCHANGED <<row, latest, log, reader>>,
           faults' \in 0..MaxFaults
    PROVE  TypeOK'
<1>1. NoStream \in StreamState /\ [NoStream EXCEPT !.pc = "over"] \in StreamState
  BY DEF NoStream, StreamState, StreamPC, Verdict
<1>2. stream' \in [Run -> StreamState]
  BY <1>1 DEF Vanish, TypeOK
<1>3. batch' \in [Run -> BatchState]
  BY EmptyBatchType DEF Vanish, TypeOK
<1>4. poll' \in [Run -> BOOLEAN]
  BY DEF Vanish, TypeOK
<1>5. mode' \in [Proc -> {"down", "up", "shutting", "closing", "hurried"}]
  BY DEF Vanish, TypeOK
<1> QED
  BY <1>2, <1>3, <1>4, <1>5 DEF Vanish, TypeOK

LEMMA ProcStepType ==
    ASSUME TypeOK, NEW p \in Proc, ProcStep(p)
    PROVE  TypeOK'
<1>1. ASSUME NEW r \in Run, Post(p, r) PROVE TypeOK'
  <2>1. stream' \in [Run -> StreamState]
    <3>1. [stream[r] EXCEPT !.owner = p, !.pc = "insert"] \in StreamState
      BY StreamType DEF StreamState, StreamPC, Creating
    <3> QED
      BY <1>1, <3>1 DEF Post, TypeOK
  <2> QED
    BY <1>1, <2>1 DEF Post, process, TypeOK
<1>2. CASE RequestStop(p)
  <2>1. faults' \in 0..MaxFaults
    BY <1>2, SpendType DEF RequestStop
  <2> PICK r \in Run :
        /\ row' = [row EXCEPT ![r].stop = TRUE, ![r].stale = FALSE]
        /\ stream' = [stream EXCEPT ![r].aborted =
                          stream[r].aborted \/ (Owner(r) = p /\ poll[r])]
    BY <1>2 DEF RequestStop
  <2>2. row' \in [Run -> RowState]
    <3>1. [row[r] EXCEPT !.stop = TRUE, !.stale = FALSE] \in RowState
      BY StreamType DEF RowState
    <3> QED
      BY <3>1 DEF TypeOK
  <2> DEFINE a == stream[r].aborted \/ (Owner(r) = p /\ poll[r])
  <2>3. a \in BOOLEAN
    BY DEF TypeOK, StreamState
  <2> HIDE DEF a
  <2>4. stream' \in [Run -> StreamState]
    <3>1. [stream[r] EXCEPT !.aborted = a] \in StreamState
      BY <2>3, StreamType DEF StreamState
    <3> QED
      BY <3>1 DEF a, TypeOK
  <2> QED
    BY <1>2, <2>1, <2>2, <2>4 DEF RequestStop, process, TypeOK
<1>3. CASE Reap(p)
  BY <1>3, ReapedType DEF Reap, drain, process, TypeOK
<1>4. CASE BeginShutdown(p)
  <2>1. faults' \in 0..MaxFaults
    BY <1>4, SpendType DEF BeginShutdown
  <2> QED
    BY <1>4, <2>1 DEF BeginShutdown, drain, TypeOK
<1>5. CASE FailInFlight(p)
  <2>1. faults' \in 0..MaxFaults
    BY <1>5, SpendType DEF FailInFlight, TypeOK
  <2>2. row' \in [Run -> RowState] /\ inFlight' \in [Proc -> SUBSET Run]
    <3>1. [r \in Run |-> IF r \in doomed[p] THEN Ended(row[r], "failed", "shutdown")
                         ELSE row[r]] \in [Run -> RowState]
      BY EndedType DEF TypeOK, Terminal
    <3>2. [inFlight EXCEPT ![p] = inFlight[p] \ doomed[p]] \in [Proc -> SUBSET Run]
      BY DEF TypeOK
    <3> QED
      BY <1>5, <3>1, <3>2 DEF FailInFlight, TypeOK
  <2>3. mode' \in [Proc -> {"down", "up", "shutting", "closing", "hurried"}]
        /\ doomed' \in [Proc -> SUBSET Run]
    BY <1>5 DEF FailInFlight, TypeOK
  <2> QED
    BY <1>5, <2>1, <2>2, <2>3 DEF FailInFlight, drain, TypeOK
<1>6. CASE Exit(p)
  BY <1>6, VanishType DEF Exit, TypeOK
<1>7. CASE Crash(p)
  <2>1. faults' \in 0..MaxFaults
    BY <1>7, SpendType DEF Crash
  <2> QED
    BY <1>7, <2>1, VanishType DEF Crash
<1>8. CASE Boot(p)
  BY <1>8 DEF Boot, drain, TypeOK
<1> QED
  BY <1>1, <1>2, <1>3, <1>4, <1>5, <1>6, <1>7, <1>8 DEF ProcStep

LEMMA DrainStepType ==
    ASSUME TypeOK, VerdictRead, NEW r \in Run, DrainStep(r)
    PROVE  TypeOK'
<1> USE DEF drain, process
<1>1. ASSUME NEW pc \in StreamPC, Goto(r, pc),
             UNCHANGED <<row, latest, log, batch, poll, inFlight, doomed, mode, reader>>,
             faults' \in 0..MaxFaults
      PROVE  TypeOK'
  BY <1>1, GotoType DEF TypeOK
<1>2. CASE Insert(r)
  <2>1. stream' \in [Run -> StreamState]
    BY <1>2, GotoType DEF Insert, StreamPC, Creating
  <2>2. [row[r] EXCEPT !.status = "running"] \in RowState
    BY StreamType DEF RowState
  <2>3. row' \in [Run -> RowState]
    BY <1>2, <2>2 DEF Insert, TypeOK
  <2> QED
    BY <1>2, <2>1, <2>3 DEF Insert, TypeOK
<1>3. CASE Conflict(r)
  <2>1. stream' \in [Run -> StreamState]
    BY <1>3, GotoType, OverType DEF Conflict, StreamPC, Creating, TypeOK
  <2> QED
    BY <1>3, <2>1 DEF Conflict, TypeOK
<1>4. CASE ReapFirst(r)
  <2>1. faults' \in 0..MaxFaults
    BY <1>4, SpendType DEF ReapFirst, TypeOK
  <2>2. stream' \in [Run -> StreamState]
    BY <1>4, GotoType DEF ReapFirst, StreamPC, Creating
  <2>3. row' \in [Run -> RowState]
    BY <1>4, ReapedType DEF ReapFirst, TypeOK
  <2> QED
    BY <1>4, <2>1, <2>2, <2>3 DEF ReapFirst, TypeOK
<1>5. CASE Register(r)
  <2>1. stream' \in [Run -> StreamState]
    BY <1>5, GotoType DEF Register, StreamPC, Creating
  <2> QED
    BY <1>5, <2>1 DEF Register, TypeOK
<1>6. CASE Begin(r)
  <2>1. stream' \in [Run -> StreamState]
    BY <1>6, GotoType DEF Begin, StreamPC
  <2> QED
    BY <1>6, <2>1 DEF Begin, TypeOK
<1>7. CASE SetupFails(r) \/ DrainThrows(r) \/ Continue(r) \/ Salvaged(r)
  <2>1. faults' \in 0..MaxFaults
    BY <1>7, SpendType DEF SetupFails, DrainThrows, Continue, Salvaged, TypeOK
  <2>2. \E pc \in StreamPC : Goto(r, pc)
    BY <1>7 DEF SetupFails, DrainThrows, Continue, Salvaged, StreamPC
  <2> QED
    BY <1>1, <1>7, <2>1, <2>2 DEF SetupFails, DrainThrows, Continue, Salvaged
<1>8. CASE FlushTimer(r)
  BY <1>8, FlushedFields DEF FlushTimer, TypeOK
<1>9. CASE AppendBatch(r)
  <2> PICK b \in BatchState : b = batch[r]
    BY DEF TypeOK
  <2>1. b.chain # <<>>
    BY <1>9 DEF AppendBatch, Drained
  <2>2. Head(b.chain) \in Seq(Nat)
    BY <2>1, StoredFields
  <2>3. [b EXCEPT !.chain = Tail(b.chain)] \in BatchState
    BY <2>1, StoredFields
  <2>4. batch' \in [Run -> BatchState]
    BY <1>9, <2>3 DEF AppendBatch, TypeOK
  <2>5. log[r] \o Head(b.chain) \in Seq(Nat)
    BY <2>2 DEF TypeOK
  <2>6. log' \in [Run -> Seq(Nat)]
    BY <1>9, <2>5 DEF AppendBatch, TypeOK
  <2>7. row' \in [Run -> RowState]
    <3>1. [row[r] EXCEPT !.stale = FALSE] \in RowState
      BY StreamType DEF RowState
    <3> QED
      BY <1>9, <3>1 DEF AppendBatch, TypeOK
  <2> QED
    BY <1>9, <2>4, <2>6, <2>7 DEF AppendBatch, TypeOK
<1>10. CASE AppendFails(r)
  <2>1. faults' \in 0..MaxFaults
    BY <1>10, SpendType DEF AppendFails, TypeOK
  <2>2. stream' \in [Run -> StreamState]
    BY <1>10, GotoType DEF AppendFails, StreamPC
  <2>3. batch' \in [Run -> BatchState]
    <3>1. \E why \in {"gone", "error"} : batch' = [batch EXCEPT ![r] = Broken(batch[r], why)]
      BY <1>10 DEF AppendFails
    <3> QED
      BY <3>1, BrokenFields DEF TypeOK
  <2> QED
    BY <1>10, <2>1, <2>2, <2>3 DEF AppendFails, TypeOK
<1>11. CASE MarkChunk(r)
  <2>1. stream' \in [Run -> StreamState]
    BY <1>11, GotoType DEF MarkChunk, StreamPC
  <2>2. row' \in [Run -> RowState] /\ inFlight' \in [Proc -> SUBSET Run]
    BY <1>11, MarkTerminalType DEF MarkChunk, Terminal
  <2> QED
    BY <1>11, <2>1, <2>2 DEF MarkChunk, TypeOK
<1>12. CASE ReadStatus(r)
  <2>1. TerminalStatus(r) \in Verdict
    BY DEF TerminalStatus, Verdict, Terminal, TypeOK, RowState
  <2>2. stream' \in [Run -> StreamState]
    <3>1. [stream[r] EXCEPT !.verdict = TerminalStatus(r), !.pc = "mark"] \in StreamState
      BY <2>1, StreamType DEF StreamState, StreamPC
    <3> QED
      BY <1>12, <3>1 DEF ReadStatus, TypeOK
  <2> QED
    BY <1>12, <2>2 DEF ReadStatus, TypeOK
<1>13. CASE MarkThrows(r)
  <2>1. faults' \in 0..MaxFaults
    BY <1>13, SpendType DEF MarkThrows
  <2> QED
    BY <1>13, <2>1, OverType DEF MarkThrows, TypeOK
<1>14. CASE Catch(r)
  <2>1. batch' \in [Run -> BatchState]
    BY <1>14, FlushedFields DEF Catch, TypeOK
  <2> DEFINE pc == CASE batch[r].broken = "gone" -> "gone"
                     [] batch[r].broken = "error" -> "fail"
                     [] batch[r].broken = "no" -> "salvage"
  <2>2. pc \in StreamPC
    BY DEF TypeOK, StreamPC, BatchState, Awaiting
  <2> HIDE DEF pc
  <2>3. [stream[r] EXCEPT !.aborted = TRUE, !.pc = pc] \in StreamState
    BY <2>2, StreamType DEF StreamState
  <2>4. stream' \in [Run -> StreamState]
    BY <1>14, <2>3 DEF Catch, pc, TypeOK
  <2>5. poll' \in [Run -> BOOLEAN]
    BY <1>14 DEF Catch, TypeOK
  <2> QED
    BY <1>14, <2>1, <2>4, <2>5 DEF Catch, TypeOK
<1>15. CASE Mark(r)
  <2>1. At(r, "mark") => stream[r].verdict \in Terminal
    BY DEF VerdictRead, TypeOK, StreamState, Verdict
  <2>2. row' \in [Run -> RowState] /\ inFlight' \in [Proc -> SUBSET Run]
    BY <1>15, <2>1, MarkTerminalType DEF Mark, At, Terminal
  <2> QED
    BY <1>15, <2>2, OverType DEF Mark, TypeOK
<1> QED
  BY <1>2, <1>3, <1>4, <1>5, <1>6, <1>7, <1>8, <1>9, <1>10, <1>11, <1>12, <1>13,
     <1>14, <1>15 DEF DrainStep

LEMMA OtherStepType ==
    ASSUME TypeOK, NEW r \in Run, StreamStep(r) \/ PollStop(r) \/ GoStale(r)
    PROVE  TypeOK'
<1> USE DEF drain, process
<1>1. CASE Read(r)
  <2> DEFINE c == stream[r].read + 1
             written == Written(batch[r], c)
             pc == IF Source[r][c] = "error" THEN "chunk"
                   ELSE IF Len(written.pending) >= BatchSize THEN "full" ELSE "read"
  <2>1. c \in Nat
    BY StreamType DEF StreamState
  <2>2. written \in BatchState /\ Flushed(written) \in BatchState
    BY <2>1, StreamType, WrittenFields, FlushedFields
  <2>3. pc \in StreamPC
    BY DEF StreamPC, Awaiting
  <2>4. /\ batch' = [batch EXCEPT ![r] = IF Source[r][c] = "error"
                                            \/ Len(written.pending) >= BatchSize
                                         THEN Flushed(written) ELSE written]
        /\ stream' = [stream EXCEPT ![r] = [stream[r] EXCEPT !.read = c, !.pc = pc]]
        /\ UNCHANGED <<row, latest, log, poll, process, reader, faults>>
    BY <1>1 DEF Read
  <2> HIDE DEF c, written, pc
  <2>5. [stream[r] EXCEPT !.read = c, !.pc = pc] \in StreamState
    BY <2>1, <2>3, StreamType DEF StreamState
  <2>6. stream' \in [Run -> StreamState] /\ batch' \in [Run -> BatchState]
    BY <2>2, <2>4, <2>5 DEF TypeOK
  <2> QED
    BY <2>4, <2>6 DEF TypeOK
<1>2. CASE EndOfStream(r)
  <2>1. stream' \in [Run -> StreamState]
    BY <1>2, GotoType DEF EndOfStream, StreamPC, Awaiting
  <2>2. batch' \in [Run -> BatchState]
    BY <1>2, FlushedFields DEF EndOfStream, TypeOK
  <2> QED
    BY <1>2, <2>1, <2>2 DEF EndOfStream, TypeOK
<1>3. CASE StreamFails(r)
  <2>1. stream' \in [Run -> StreamState] /\ faults' \in 0..MaxFaults
    BY <1>3, GotoType, SpendType DEF StreamFails, StreamPC
  <2> QED
    BY <1>3, <2>1 DEF StreamFails, TypeOK
<1>4. CASE PollStop(r)
  <2>1. [stream[r] EXCEPT !.aborted = TRUE] \in StreamState
    BY StreamType DEF StreamState
  <2>2. stream' \in [Run -> StreamState]
    BY <1>4, <2>1 DEF PollStop, TypeOK
  <2> QED
    BY <1>4, <2>2 DEF PollStop, TypeOK
<1>5. CASE GoStale(r)
  <2>1. [row[r] EXCEPT !.stale = TRUE] \in RowState
    BY StreamType DEF RowState
  <2>2. row' \in [Run -> RowState]
    BY <1>5, <2>1 DEF GoStale, TypeOK
  <2> QED
    BY <1>5, <2>2 DEF GoStale, TypeOK
<1> QED
  BY <1>1, <1>2, <1>3, <1>4, <1>5 DEF StreamStep

(* A replay is opened for a run. *)
OpenHasRun == \A q \in Reader : reader[q].pc = "open" => reader[q].run \in Run

LEMMA SnapshotType ==
    ASSUME TypeOK, NEW r \in Run, NEW seen \in Seq(Nat)
    PROVE  Snapshot(r, seen) \in ReaderState
<1> DEFINE s == Snapshot(r, seen)
<1>1. row[r].status \in {"absent", "running", "deleted"} \cup Terminal
  BY StreamType DEF RowState
<1>2. (IF Exists(r) THEN log[r] ELSE seen) \in Seq(Nat)
  BY DEF TypeOK
<1>3. (IF Running(r) THEN "open" ELSE "closed") \in {"off", "open", "closed"}
  OBVIOUS
<1>4. (CASE Running(r) -> "none"
         [] row[r].status \in Terminal -> row[r].status
         [] ~Exists(r) -> "gone") \in Verdict \cup {"gone"}
  <2>1. CASE Running(r)
    <3>1. row[r].status \notin Terminal /\ Exists(r)
      BY <2>1 DEF Running, Exists, Terminal
    <3> QED
      BY <2>1, <3>1 DEF Verdict
  <2>2. CASE row[r].status \in Terminal
    <3>1. ~Running(r) /\ Exists(r)
      BY <2>2 DEF Running, Exists, Terminal
    <3> QED
      BY <2>2, <3>1 DEF Verdict
  <2>3. CASE row[r].status \in {"absent", "deleted"}
    <3>1. ~Running(r) /\ row[r].status \notin Terminal /\ ~Exists(r)
      BY <2>3 DEF Running, Exists, Terminal
    <3> QED
      BY <3>1
  <2> QED
    BY <1>1, <2>1, <2>2, <2>3 DEF Running
<1> QED
  BY <1>2, <1>3, <1>4 DEF Snapshot, ReaderState

LEMMA ReaderStepType ==
    ASSUME TypeOK, OpenHasRun, NEW q \in Reader, ReaderStep(q)
    PROVE  TypeOK' /\ OpenHasRun'
<1>1. reader[q] \in ReaderState
  BY DEF TypeOK
<1>2. CASE Attach(q)
  <2>1. latest \in Run
    BY <1>2 DEF Attach, TypeOK
  <2>2. [reader[q] EXCEPT !.pc = "open", !.run = latest] \in ReaderState
    BY <1>1, <2>1 DEF ReaderState
  <2>3. TypeOK'
    BY <1>2, <2>2 DEF Attach, drain, process, TypeOK
  <2>4. reader'[q].run = latest /\ latest' = latest
        /\ \A x \in Reader \ {q} : reader'[x] = reader[x]
    BY <1>1, <1>2 DEF Attach, TypeOK, ReaderState
  <2>5. OpenHasRun'
    BY <2>1, <2>4 DEF OpenHasRun
  <2> QED
    BY <2>3, <2>5
<1>3. CASE Look(q)
  <2> PICK r \in Run : r = reader[q].run
    BY <1>3 DEF Look, OpenHasRun
  <2> PICK seen \in Seq(Nat) : seen = reader[q].seen
    BY <1>1 DEF ReaderState
  <2> DEFINE s == Snapshot(r, seen)
  <2>1. reader' = [reader EXCEPT ![q] = s]
    BY <1>3 DEF Look
  <2>2. s \in ReaderState /\ s.run = r
    BY SnapshotType DEF Snapshot
  <2> HIDE DEF s
  <2>3. TypeOK'
    BY <1>3, <2>1, <2>2 DEF Look, drain, process, TypeOK
  <2>4. reader'[q].run = r /\ \A x \in Reader \ {q} : reader'[x] = reader[x]
    BY <2>1, <2>2 DEF TypeOK
  <2>5. OpenHasRun'
    BY <2>4 DEF OpenHasRun
  <2> QED
    BY <2>3, <2>5
<1> QED
  BY <1>2, <1>3 DEF ReaderStep

LEMMA RowsStepType ==
    ASSUME TypeOK, Restore \/ DeleteRows
    PROVE  TypeOK'
<1>1. CASE Restore
  <2>1. faults' \in 0..MaxFaults
    BY <1>1, SpendType DEF Restore
  <2> PICK r \in Run : row' = [row EXCEPT ![r] = Ended(row[r], "cancelled", "none")]
    BY <1>1 DEF Restore
  <2>2. row' \in [Run -> RowState]
    BY EndedType DEF TypeOK, Terminal
  <2> QED
    BY <1>1, <2>1, <2>2 DEF Restore, drain, process, TypeOK
<1>2. CASE DeleteRows
  <2>1. faults' \in 0..MaxFaults
    BY <1>2, SpendType DEF DeleteRows
  <2>2. PICK gone :
          /\ row' = [r \in Run |-> IF r \in gone
                                   THEN [NoRow EXCEPT !.status = "deleted"] ELSE row[r]]
          /\ log' = [r \in Run |-> IF r \in gone THEN <<>> ELSE log[r]]
    BY <1>2 DEF DeleteRows
  <2>3. [NoRow EXCEPT !.status = "deleted"] \in RowState
    BY DEF NoRow, RowState
  <2>4. row' \in [Run -> RowState]
    BY <2>2, <2>3 DEF TypeOK
  <2>5. log' \in [Run -> Seq(Nat)]
    BY <2>2 DEF TypeOK
  <2> QED
    BY <1>2, <2>1, <2>4, <2>5 DEF DeleteRows, drain, process, TypeOK
<1> QED
  BY <1>1, <1>2

LEMMA StepType ==
    ASSUME TypeOK, VerdictRead, OpenHasRun, [Next]_vars
    PROVE  TypeOK' /\ OpenHasRun'
<1>1. CASE UNCHANGED vars
  BY <1>1 DEF vars, drain, process, TypeOK, OpenHasRun
<1>2. ASSUME reader' = reader
      PROVE  OpenHasRun'
  BY <1>2 DEF OpenHasRun
<1>3. ASSUME NEW p \in Proc, ProcStep(p)
      PROVE  TypeOK' /\ OpenHasRun'
  <2>1. reader' = reader
    BY <1>3 DEF ProcStep, Post, RequestStop, Reap, BeginShutdown, FailInFlight, Exit,
                Crash, Boot
  <2> QED
    BY <1>2, <1>3, <2>1, ProcStepType
<1>4. ASSUME NEW r \in Run, DrainStep(r)
      PROVE  TypeOK' /\ OpenHasRun'
  <2>1. reader' = reader
    BY <1>4 DEF DrainStep, Insert, Conflict, ReapFirst, Register, Begin, SetupFails,
                FlushTimer, AppendBatch, AppendFails, Continue, MarkChunk, ReadStatus,
                Mark, DrainThrows, MarkThrows, Catch, Salvaged
  <2> QED
    BY <1>2, <1>4, <2>1, DrainStepType
<1>5. ASSUME NEW r \in Run, StreamStep(r) \/ PollStop(r) \/ GoStale(r)
      PROVE  TypeOK' /\ OpenHasRun'
  <2>1. reader' = reader
    BY <1>5 DEF StreamStep, Read, EndOfStream, StreamFails, PollStop, GoStale
  <2> QED
    BY <1>2, <1>5, <2>1, OtherStepType
<1>6. ASSUME NEW q \in Reader, ReaderStep(q)
      PROVE  TypeOK' /\ OpenHasRun'
  BY <1>6, ReaderStepType
<1>7. CASE Restore \/ DeleteRows
  <2>1. reader' = reader
    BY <1>7 DEF Restore, DeleteRows
  <2> QED
    BY <1>2, <1>7, <2>1, RowsStepType
<1> QED
  BY <1>1, <1>3, <1>4, <1>5, <1>6, <1>7 DEF Next

---------------------------------------------------------------------------
(* What a step does to one run *)

(* Its row, as everybody but its drain may leave it. *)
SameRow(r) == row'[r].status = row[r].status /\ row'[r].error = row[r].error
OutsideRow(r) ==
    SameRow(r) \/ (Running(r) /\ row'[r].status \in {"failed", "cancelled"})

(* Its stream, as everybody else leaves it: at most aborted. *)
SameStream(r) ==
    /\ stream'[r].owner = stream[r].owner /\ stream'[r].pc = stream[r].pc
    /\ stream'[r].read = stream[r].read /\ stream'[r].verdict = stream[r].verdict
    /\ stream[r].aborted => stream'[r].aborted

Outside(r) ==
    /\ OutsideRow(r)
    /\ SameStream(r)
    /\ log'[r] = log[r]
    /\ batch'[r] = batch[r]

Own(r) == DrainStep(r) \/ StreamStep(r)

(* Its process is gone. *)
Gone(r) ==
    /\ row'[r] = row[r] /\ log'[r] = log[r]
    /\ \E p \in Proc : Vanish(p) /\ Owner(r) = p

Removed(r) ==
    /\ row[r].status # "absent" /\ row'[r].status = "deleted"
    /\ log'[r] = <<>>
    /\ UNCHANGED drain

Outcome(r) ==
    Own(r) \/ Outside(r) \/ Gone(r) \/ Removed(r) \/ \E p \in Proc : Post(p, r)

(* A row that nobody but an ending touches. *)
LEMMA EndedRow ==
    ASSUME TypeOK, NEW r \in Run, NEW s \in {"failed", "cancelled"}, NEW why,
           row'[r] = Ended(row[r], s, why) \/ row'[r] = row[r]
    PROVE  OutsideRow(r)
<1>1. CASE row'[r] = row[r]
  BY <1>1 DEF OutsideRow, SameRow
<1>2. CASE row'[r] = Ended(row[r], s, why)
  <2>1. CASE Running(r)
    <3>1. row'[r] = [row[r] EXCEPT !.status = s, !.error = why, !.stale = FALSE]
      BY <1>2, <2>1 DEF Ended, Running
    <3>2. row'[r].status = s
      BY <3>1, StreamType DEF RowState
    <3> QED
      BY <2>1, <3>2 DEF OutsideRow
  <2>2. CASE ~Running(r)
    BY <1>2, <2>2 DEF Ended, Running, OutsideRow, SameRow
  <2> QED
    BY <2>1, <2>2
<1> QED
  BY <1>1, <1>2

LEMMA ReapedRow ==
    ASSUME TypeOK, NEW r \in Run, row' = Reaped
    PROVE  OutsideRow(r)
<1>1. row'[r] = Ended(row[r], "failed", "stale") \/ row'[r] = row[r]
  BY DEF Reaped
<1> QED
  BY <1>1, EndedRow

LEMMA UnchangedOutside ==
    ASSUME TypeOK, NEW r \in Run, OutsideRow(r),
           stream'[r] = stream[r], log'[r] = log[r], batch'[r] = batch[r]
    PROVE  Outside(r)
BY DEF Outside, SameStream

LEMMA OtherRun ==
    ASSUME TypeOK, NEW q \in Run, NEW r \in Run, q # r, Own(q)
    PROVE  Outside(r)
<1>1. stream'[r] = stream[r] /\ log'[r] = log[r] /\ batch'[r] = batch[r]
  <2>1. CASE DrainStep(q)
    BY <2>1 DEF TypeOK, DrainStep, Insert, Conflict, ReapFirst, Register, Begin,
                SetupFails, FlushTimer, AppendBatch, AppendFails, Continue, MarkChunk,
                ReadStatus, Mark, DrainThrows, MarkThrows, Catch, Salvaged, Goto, Over
  <2>2. CASE StreamStep(q)
    BY <2>2 DEF TypeOK, StreamStep, Read, EndOfStream, StreamFails, Goto
  <2> QED
    BY <2>1, <2>2 DEF Own
<1>2. row'[r] = row[r] \/ row' = Reaped
  <2>1. CASE DrainStep(q)
    BY <2>1 DEF TypeOK, DrainStep, Insert, Conflict, ReapFirst, Register, Begin,
                SetupFails, FlushTimer, AppendBatch, AppendFails, Continue, MarkChunk,
                ReadStatus, Mark, DrainThrows, MarkThrows, Catch, Salvaged, MarkTerminal
  <2>2. CASE StreamStep(q)
    BY <2>2 DEF StreamStep, Read, EndOfStream, StreamFails
  <2> QED
    BY <2>1, <2>2 DEF Own
<1> QED
  BY <1>1, <1>2, ReapedRow, UnchangedOutside DEF OutsideRow, SameRow

LEMMA ProcOutcome ==
    ASSUME TypeOK, NEW p \in Proc, ProcStep(p), NEW r \in Run
    PROVE  Outcome(r)
<1>0. ASSUME row'[r] = row[r], stream'[r] = stream[r], log'[r] = log[r],
             batch'[r] = batch[r]
      PROVE  Outside(r)
  BY <1>0, UnchangedOutside DEF OutsideRow, SameRow
<1>1. ASSUME NEW x \in Run, Post(p, x) PROVE Outcome(r)
  <2>1. x # r => stream'[r] = stream[r]
    BY <1>1 DEF Post, TypeOK
  <2> QED
    BY <1>0, <1>1, <2>1 DEF Post, Outcome
<1>2. CASE RequestStop(p)
  <2> PICK x \in Run :
        /\ row' = [row EXCEPT ![x].stop = TRUE, ![x].stale = FALSE]
        /\ stream' = [stream EXCEPT ![x].aborted =
                          stream[x].aborted \/ (Owner(x) = p /\ poll[x])]
    BY <1>2 DEF RequestStop
  <2> DEFINE a == stream[x].aborted \/ (Owner(x) = p /\ poll[x])
  <2>0. stream[x].aborted => a
    OBVIOUS
  <2> HIDE DEF a
  <2>1. stream' = [stream EXCEPT ![x].aborted = a]
    BY DEF a
  <2>2. SameStream(r)
    BY <2>0, <2>1 DEF SameStream, TypeOK, StreamState
  <2>3. SameRow(r)
    BY DEF SameRow, TypeOK, RowState
  <2> QED
    BY <1>2, <2>2, <2>3 DEF RequestStop, Outcome, Outside, OutsideRow
<1>3. CASE Reap(p)
  BY <1>3, ReapedRow, UnchangedOutside DEF Reap, drain, Outcome
<1>4. CASE BeginShutdown(p) \/ Boot(p)
  BY <1>4, <1>0 DEF BeginShutdown, Boot, drain, Outcome
<1>5. CASE FailInFlight(p)
  <2>1. row'[r] = Ended(row[r], "failed", "shutdown") \/ row'[r] = row[r]
    BY <1>5 DEF FailInFlight
  <2> QED
    BY <1>5, <2>1, EndedRow, UnchangedOutside DEF FailInFlight, drain, Outcome
<1>6. CASE Exit(p) \/ Crash(p)
  <2>1. Vanish(p) /\ row' = row /\ log' = log
    BY <1>6 DEF Exit, Crash
  <2>2. CASE Owner(r) = p
    BY <2>1, <2>2 DEF Gone, Outcome
  <2>3. CASE Owner(r) # p
    <3>1. stream'[r] = stream[r] /\ batch'[r] = batch[r]
      BY <2>1, <2>3 DEF Vanish
    <3> QED
      BY <1>0, <2>1, <3>1 DEF Outcome
  <2> QED
    BY <2>2, <2>3
<1> QED
  BY <1>1, <1>2, <1>3, <1>4, <1>5, <1>6 DEF ProcStep

LEMMA StepOutcome ==
    ASSUME TypeOK, [Next]_vars, NEW r \in Run
    PROVE  Outcome(r)
<1>0. ASSUME row'[r] = row[r], stream'[r] = stream[r], log'[r] = log[r],
             batch'[r] = batch[r]
      PROVE  Outcome(r)
  BY <1>0, UnchangedOutside DEF OutsideRow, SameRow, Outcome
<1>1. CASE UNCHANGED vars
  BY <1>0, <1>1 DEF vars, drain
<1>2. ASSUME NEW p \in Proc, ProcStep(p) PROVE Outcome(r)
  BY <1>2, ProcOutcome
<1>3. ASSUME NEW q \in Run, Own(q) PROVE Outcome(r)
  BY <1>3, OtherRun DEF Outcome
<1>4. ASSUME NEW q \in Run, PollStop(q) PROVE Outcome(r)
  <2>1. SameStream(r)
    BY <1>4 DEF PollStop, SameStream, TypeOK, StreamState
  <2> QED
    BY <1>4, <2>1 DEF PollStop, Outcome, Outside, OutsideRow, SameRow
<1>5. ASSUME NEW q \in Run, GoStale(q) PROVE Outcome(r)
  <2>1. SameRow(r)
    BY <1>5 DEF GoStale, SameRow, TypeOK, RowState
  <2> QED
    BY <1>5, <2>1, UnchangedOutside DEF GoStale, drain, Outcome, OutsideRow
<1>6. ASSUME NEW q \in Reader, ReaderStep(q) PROVE Outcome(r)
  BY <1>0, <1>6 DEF ReaderStep, Attach, Look, drain
<1>7. CASE Restore
  <2> PICK x \in Run : row' = [row EXCEPT ![x] = Ended(row[x], "cancelled", "none")]
    BY <1>7 DEF Restore
  <2>1. row'[r] = Ended(row[r], "cancelled", "none") \/ row'[r] = row[r]
    BY DEF TypeOK
  <2> QED
    BY <1>7, <2>1, EndedRow, UnchangedOutside DEF Restore, drain, Outcome
<1>8. CASE DeleteRows
  <2>1. PICK gone \in {{x \in Run : Exists(x)}, {x \in Run : row[x].status \in Terminal}} :
          /\ row' = [x \in Run |-> IF x \in gone
                                   THEN [NoRow EXCEPT !.status = "deleted"] ELSE row[x]]
          /\ log' = [x \in Run |-> IF x \in gone THEN <<>> ELSE log[x]]
    BY <1>8 DEF DeleteRows
  <2>2. UNCHANGED drain
    BY <1>8 DEF DeleteRows
  <2>3. CASE r \in gone
    <3>1. row[r].status # "absent"
      BY <2>3 DEF Exists, Terminal
    <3>2. row'[r].status = "deleted" /\ log'[r] = <<>>
      BY <2>1, <2>3 DEF NoRow
    <3> QED
      BY <2>2, <3>1, <3>2 DEF Removed, Outcome
  <2>4. CASE r \notin gone
    BY <1>0, <2>1, <2>2, <2>4 DEF drain
  <2> QED
    BY <2>3, <2>4
<1> QED
  BY <1>1, <1>2, <1>3, <1>4, <1>5, <1>6, <1>7, <1>8 DEF Next, Own

---------------------------------------------------------------------------
(* What waits to be stored *)

InOrder(s) == \A i \in DOMAIN s : s[i] = i

(* s holds a + 1, ..., b. *)
Consecutive(s, a, b) == b = a + Len(s) /\ \A i \in DOMAIN s : s[i] = a + i

(* The chain's batches and then the pending chunks hold n + 1, ..., m:     *)
(* at[k] is the last chunk of the first k batches.                         *)
Linked(n, chain, pending, m) ==
    \E at \in [0..Len(chain) -> Nat] :
        /\ at[0] = n
        /\ \A k \in 1..Len(chain) : Consecutive(chain[k], at[k - 1], at[k])
        /\ Consecutive(pending, at[Len(chain)], m)

LEMMA LinkedStart ==
    ASSUME NEW n \in Nat
    PROVE  Linked(n, <<>>, <<>>, n)
<1> DEFINE at == [k \in 0..0 |-> n]
<1>1. at \in [0..Len(<<>>) -> Nat] /\ at[0] = n
  OBVIOUS
<1>2. Consecutive(<<>>, at[Len(<<>>)], n)
  BY DEF Consecutive
<1>3. \A k \in 1..Len(<<>>) : Consecutive(<<>>[k], at[k - 1], at[k])
  OBVIOUS
<1> HIDE DEF at
<1> QED
  BY <1>1, <1>2, <1>3 DEF Linked

LEMMA LinkedEnd ==
    ASSUME NEW n \in Nat, NEW m \in Nat, Linked(n, <<>>, <<>>, m)
    PROVE  n = m
<1> PICK at \in [0..Len(<<>>) -> Nat] :
        at[0] = n /\ Consecutive(<<>>, at[Len(<<>>)], m)
  BY DEF Linked
<1> QED
  BY DEF Consecutive

LEMMA LinkedWrite ==
    ASSUME NEW n \in Nat, NEW m \in Nat, NEW chain \in Seq(Seq(Nat)),
           NEW pending \in Seq(Nat), Linked(n, chain, pending, m)
    PROVE  Linked(n, chain, Append(pending, m + 1), m + 1)
<1> PICK at \in [0..Len(chain) -> Nat] :
        /\ at[0] = n
        /\ \A k \in 1..Len(chain) : Consecutive(chain[k], at[k - 1], at[k])
        /\ Consecutive(pending, at[Len(chain)], m)
  BY DEF Linked
<1>0. Len(chain) \in 0..Len(chain)
  OBVIOUS
<1> PICK a \in Nat : a = at[Len(chain)]
  BY <1>0
<1>1. m = a + Len(pending) /\ \A i \in 1..Len(pending) : pending[i] = a + i
  BY DEF Consecutive
<1>2. Len(Append(pending, m + 1)) = Len(pending) + 1
      /\ DOMAIN Append(pending, m + 1) = 1..(Len(pending) + 1)
  OBVIOUS
<1>3. ASSUME NEW i \in 1..(Len(pending) + 1)
      PROVE  Append(pending, m + 1)[i] = a + i
  BY <1>1, <1>3
<1>4. Consecutive(Append(pending, m + 1), a, m + 1)
  BY <1>1, <1>2, <1>3 DEF Consecutive
<1> QED
  BY <1>4 DEF Linked

LEMMA LinkedFlush ==
    ASSUME NEW n \in Nat, NEW m \in Nat, NEW chain \in Seq(Seq(Nat)),
           NEW pending \in Seq(Nat), Linked(n, chain, pending, m)
    PROVE  Linked(n, Append(chain, pending), <<>>, m)
<1> PICK at \in [0..Len(chain) -> Nat] :
        /\ at[0] = n
        /\ \A k \in 1..Len(chain) : Consecutive(chain[k], at[k - 1], at[k])
        /\ Consecutive(pending, at[Len(chain)], m)
  BY DEF Linked
<1> PICK L \in Nat : L = Len(chain)
  OBVIOUS
<1> DEFINE new == Append(chain, pending)
           bt == [k \in 0..(L + 1) |-> IF k <= L THEN at[k] ELSE m]
<1>1. Len(new) = L + 1 /\ new[L + 1] = pending
      /\ \A k \in 1..L : new[k] = chain[k]
  OBVIOUS
<1>2. bt \in [0..(L + 1) -> Nat] /\ bt[0] = n /\ bt[L + 1] = m
      /\ \A k \in 0..L : bt[k] = at[k]
  OBVIOUS
<1> HIDE DEF new, bt
<1>3. ASSUME NEW k \in 1..(L + 1)
      PROVE  Consecutive(new[k], bt[k - 1], bt[k])
  <2>1. CASE k \in 1..L
    <3>1. k \in 0..L /\ k - 1 \in 0..L
      BY <2>1
    <3>2. new[k] = chain[k] /\ bt[k] = at[k] /\ bt[k - 1] = at[k - 1]
      BY <1>1, <1>2, <2>1, <3>1
    <3> QED
      BY <2>1, <3>2
  <2>2. CASE k = L + 1
    <3>1. new[k] = pending /\ bt[k] = m /\ bt[k - 1] = at[L]
      BY <1>1, <1>2, <2>2
    <3> QED
      BY <3>1
  <2> QED
    BY <2>1, <2>2
<1>4. Consecutive(<<>>, m, m)
  BY DEF Consecutive
<1>5. Linked(n, new, <<>>, m)
  BY <1>1, <1>2, <1>3, <1>4 DEF Linked
<1> QED
  BY <1>5 DEF new

LEMMA LinkedStore ==
    ASSUME NEW n \in Nat, NEW m \in Nat, NEW chain \in Seq(Seq(Nat)),
           NEW pending \in Seq(Nat), Linked(n, chain, pending, m), chain # <<>>
    PROVE  /\ Consecutive(Head(chain), n, n + Len(Head(chain)))
           /\ Linked(n + Len(Head(chain)), Tail(chain), pending, m)
<1> PICK at \in [0..Len(chain) -> Nat] :
        /\ at[0] = n
        /\ \A k \in 1..Len(chain) : Consecutive(chain[k], at[k - 1], at[k])
        /\ Consecutive(pending, at[Len(chain)], m)
  BY DEF Linked
<1> PICK L \in Nat : L = Len(chain)
  OBVIOUS
<1>1. L >= 1
  OBVIOUS
<1> DEFINE rest == Tail(chain)
           bt == [k \in 0..(L - 1) |-> at[k + 1]]
<1>2. Head(chain) = chain[1] /\ Len(rest) = L - 1
      /\ \A k \in 1..(L - 1) : rest[k] = chain[k + 1]
  BY <1>1
<1>3. bt \in [0..(L - 1) -> Nat] /\ \A k \in 0..(L - 1) : bt[k] = at[k + 1]
  BY <1>1
<1> HIDE DEF rest, bt
<1>4. Consecutive(chain[1], at[0], at[1])
  BY <1>1
<1>5. at[1] = n + Len(Head(chain))
  BY <1>2, <1>4 DEF Consecutive
<1>6. ASSUME NEW k \in 1..(L - 1)
      PROVE  Consecutive(rest[k], bt[k - 1], bt[k])
  <2>1. rest[k] = chain[k + 1] /\ bt[k - 1] = at[k] /\ bt[k] = at[k + 1]
    BY <1>1, <1>2, <1>3
  <2>2. k + 1 \in 1..L /\ (k + 1) - 1 = k
    BY <1>1
  <2> QED
    BY <2>1, <2>2
<1>7. bt[0] = n + Len(Head(chain)) /\ bt[L - 1] = at[L]
  BY <1>1, <1>3, <1>5
<1>8. Linked(n + Len(Head(chain)), rest, pending, m)
  BY <1>2, <1>3, <1>6, <1>7 DEF Linked
<1> QED
  BY <1>2, <1>4, <1>5, <1>8 DEF rest

LEMMA InOrderStore ==
    ASSUME NEW l \in Seq(Nat), NEW h \in Seq(Nat), InOrder(l),
           Consecutive(h, Len(l), Len(l) + Len(h))
    PROVE  /\ InOrder(l \o h)
           /\ Len(l \o h) = Len(l) + Len(h)
<1>1. DOMAIN (l \o h) = 1..(Len(l) + Len(h)) /\ Len(l \o h) = Len(l) + Len(h)
  OBVIOUS
<1>2. ASSUME NEW i \in 1..(Len(l) + Len(h))
      PROVE  (l \o h)[i] = i
  <2>1. CASE i <= Len(l)
    BY <2>1 DEF InOrder
  <2>2. CASE i > Len(l)
    <3>1. (l \o h)[i] = h[i - Len(l)] /\ i - Len(l) \in DOMAIN h
      BY <2>2
    <3> QED
      BY <2>2, <3>1 DEF Consecutive
  <2> QED
    BY <2>1, <2>2
<1> QED
  BY <1>1, <1>2 DEF InOrder

---------------------------------------------------------------------------
(* The inductive invariant of a run *)

Beginning == {"none", "insert", "reap", "again"}
Starting == Beginning \cup {"register", "reject", "setup"}
Draining == {"read", "full", "chunk", "end", "mark", "salvage", "catch"}
Finished == {"mark", "fail", "gone", "over"}

(* The row is there from the INSERT on. *)
RowInv(st, s) == (st = "absent") <=> (s.pc \in Beginning)

(* What is stored and what waits are the chunks read so far; once the      *)
(* drain is past its last wait, or a flush has failed, nothing waits.      *)
StoreInv(st, s, b, l) ==
    /\ InOrder(l)
    /\ s.pc \in Starting => s.read = 0 /\ l = <<>> /\ b.broken = "no"
    /\ s.pc \in Starting \cup Finished => b.pending = <<>> /\ b.chain = <<>>
    /\ b.broken # "no" => /\ b.pending = <<>> /\ b.chain = <<>>
                          /\ s.pc \in {"catch", "fail", "gone", "over"}
    /\ (s.pc \in Draining /\ b.broken = "no" /\ st # "deleted") =>
          Linked(Len(l), b.chain, b.pending, s.read)
    /\ s.pc \in {"end", "salvage"} => b.pending = <<>>

(* A drain that finds "completed" has stored the whole stream. *)
EndInv(st, s, l, src) ==
    /\ s.pc = "end" => s.read = Len(src) \/ s.aborted
    /\ s.pc = "mark" => s.verdict # "none"
    /\ (s.pc = "mark" /\ s.verdict = "completed" /\ st # "deleted") =>
          Len(l) = Len(src)
    /\ st = "completed" => s.pc = "over" /\ Len(l) = Len(src)

RunInv(r) ==
    /\ RowInv(row[r].status, stream[r])
    /\ StoreInv(row[r].status, stream[r], batch[r], log[r])
    /\ EndInv(row[r].status, stream[r], log[r], Source[r])

LEMMA OutsideKeeps ==
    ASSUME TypeOK, NEW r \in Run, RunInv(r), Outside(r)
    PROVE  RunInv(r)'
<1>1. RowInv(row[r].status, stream[r])'
  BY DEF Outside, OutsideRow, SameRow, SameStream, Running, RunInv, RowInv
<1>2. StoreInv(row[r].status, stream[r], batch[r], log[r])'
  BY DEF Outside, OutsideRow, SameRow, SameStream, Running, RunInv, StoreInv
<1>3. EndInv(row[r].status, stream[r], log[r], Source[r])'
  BY DEF Outside, OutsideRow, SameRow, SameStream, Running, RunInv, EndInv
<1> QED
  BY <1>1, <1>2, <1>3 DEF RunInv

LEMMA GoneKeeps ==
    ASSUME TypeOK, NEW r \in Run, RunInv(r), Gone(r)
    PROVE  RunInv(r)'
<1> PICK p \in Proc : Vanish(p) /\ Owner(r) = p
  BY DEF Gone
<1>1. row'[r] = row[r] /\ log'[r] = log[r]
  BY DEF Gone
<1>2. batch'[r] = EmptyBatch
  BY DEF Vanish
<1>3. stream'[r] = IF row[r].status = "absent" THEN NoStream
                   ELSE [NoStream EXCEPT !.pc = "over"]
  BY DEF Vanish
<1>4. stream'[r].pc = (IF row[r].status = "absent" THEN "none" ELSE "over")
      /\ stream'[r].read = 0
  BY <1>3 DEF NoStream
<1>5. EmptyBatch.pending = <<>> /\ EmptyBatch.chain = <<>> /\ EmptyBatch.broken = "no"
  BY DEF EmptyBatch
<1>6. RowInv(row[r].status, stream[r])'
  BY <1>1, <1>4 DEF RowInv, Beginning
<1>7. StoreInv(row[r].status, stream[r], batch[r], log[r])'
  <2>1. InOrder(log[r]) /\ (row[r].status = "absent" => log[r] = <<>>)
    BY DEF RunInv, RowInv, StoreInv, Starting
  <2> QED
    BY <1>1, <1>2, <1>4, <1>5, <2>1 DEF StoreInv, Starting, Beginning, Draining, Finished
<1>8. EndInv(row[r].status, stream[r], log[r], Source[r])'
  BY <1>1, <1>4 DEF EndInv, RunInv
<1> QED
  BY <1>6, <1>7, <1>8 DEF RunInv

LEMMA RemovedKeeps ==
    ASSUME TypeOK, NEW r \in Run, RunInv(r), Removed(r)
    PROVE  RunInv(r)'
<1>1. stream' = stream /\ batch' = batch /\ log'[r] = <<>>
      /\ row'[r].status = "deleted" /\ row[r].status # "absent"
  BY DEF Removed, drain
<1>2. InOrder(<<>>)
  BY DEF InOrder
<1>3. RowInv(row[r].status, stream[r])'
  BY <1>1 DEF RunInv, RowInv
<1>4. StoreInv(row[r].status, stream[r], batch[r], log[r])'
  BY <1>1, <1>2 DEF RunInv, StoreInv
<1>5. EndInv(row[r].status, stream[r], log[r], Source[r])'
  BY <1>1 DEF RunInv, EndInv
<1> QED
  BY <1>3, <1>4, <1>5 DEF RunInv

LEMMA PostKeeps ==
    ASSUME TypeOK, NEW r \in Run, RunInv(r), NEW p \in Proc, Post(p, r)
    PROVE  RunInv(r)'
<1>1. stream[r].pc = "none" /\ stream'[r].pc = "insert"
      /\ stream'[r].read = stream[r].read
      /\ row' = row /\ log' = log /\ batch' = batch
  BY DEF Post, At, TypeOK, StreamState
<1>2. RowInv(row[r].status, stream[r])'
  BY <1>1 DEF RunInv, RowInv, Beginning
<1>3. StoreInv(row[r].status, stream[r], batch[r], log[r])'
  BY <1>1 DEF RunInv, StoreInv, Starting, Beginning, Draining, Finished
<1>4. EndInv(row[r].status, stream[r], log[r], Source[r])'
  BY <1>1 DEF RunInv, EndInv
<1> QED
  BY <1>2, <1>3, <1>4 DEF RunInv

LEMMA GotoFields ==
    ASSUME TypeOK, NEW r \in Run, NEW pc, Goto(r, pc)
    PROVE  /\ stream'[r].pc = pc /\ stream'[r].read = stream[r].read
           /\ stream'[r].aborted = stream[r].aborted
           /\ stream'[r].verdict = stream[r].verdict
           /\ stream'[r].owner = stream[r].owner
BY DEF Goto, TypeOK, StreamState

(* A step that only moves the drain. *)
LEMMA MoveKeeps ==
    ASSUME TypeOK, NEW r \in Run, RunInv(r),
           Insert(r) \/ Conflict(r) \/ ReapFirst(r) \/ Register(r) \/ Begin(r)
             \/ SetupFails(r) \/ Continue(r) \/ DrainThrows(r) \/ Salvaged(r)
             \/ StreamFails(r)
    PROVE  RunInv(r)'
<1> USE DEF Starting, Beginning, Draining, Finished, At
<1>0. log' = log /\ batch' = batch
  BY DEF Insert, Conflict, ReapFirst, Register, Begin, SetupFails, Continue,
         DrainThrows, Salvaged, StreamFails
<1>1. CASE Insert(r)
  <2>1. row'[r].status = "running"
    BY <1>1 DEF Insert, TypeOK, RowState
  <2>2. stream[r].pc \in Beginning /\ Goto(r, "register")
    BY <1>1 DEF Insert
  <2> QED
    BY <1>0, <2>1, <2>2, GotoFields DEF RunInv, RowInv, StoreInv, EndInv
<1>2. CASE Conflict(r)
  <2>1. row' = row
    BY <1>2 DEF Conflict
  <2>2. stream[r].pc \in Beginning
        /\ stream'[r].pc \in {"none", "reap"} /\ stream'[r].read \in {0, stream[r].read}
    BY <1>2, GotoFields DEF Conflict, NoStream, TypeOK
  <2> QED
    BY <1>0, <2>1, <2>2 DEF RunInv, RowInv, StoreInv, EndInv
<1>3. CASE ReapFirst(r)
  <2>1. OutsideRow(r)
    BY <1>3, ReapedRow DEF ReapFirst, OutsideRow, SameRow
  <2>2. stream[r].pc = "reap" /\ Goto(r, "again")
    BY <1>3 DEF ReapFirst
  <2> QED
    BY <1>0, <2>1, <2>2, GotoFields
    DEF OutsideRow, SameRow, Running, RunInv, RowInv, StoreInv, EndInv
<1>4. CASE Register(r)
  <2>1. row' = row /\ stream[r].pc = "register"
        /\ \E pc \in {"setup", "reject"} : Goto(r, pc)
    BY <1>4 DEF Register
  <2> QED
    BY <1>0, <2>1, GotoFields DEF RunInv, RowInv, StoreInv, EndInv
<1>5. CASE Begin(r)
  <2>1. row' = row /\ stream[r].pc = "setup" /\ Goto(r, "read")
    BY <1>5 DEF Begin
  <2>2. log[r] = <<>> /\ batch[r].chain = <<>> /\ batch[r].pending = <<>>
        /\ stream[r].read = 0 /\ Len(log[r]) = 0
    BY <2>1 DEF RunInv, StoreInv
  <2>3. Linked(Len(log[r]), batch[r].chain, batch[r].pending, stream[r].read)
    BY <2>2, LinkedStart
  <2> QED
    BY <1>0, <2>1, <2>3, GotoFields DEF RunInv, RowInv, StoreInv, EndInv
<1>6. CASE SetupFails(r)
  <2>1. row' = row /\ stream[r].pc = "setup" /\ Goto(r, "fail")
    BY <1>6 DEF SetupFails
  <2> QED
    BY <1>0, <2>1, GotoFields DEF RunInv, RowInv, StoreInv, EndInv
<1>7. CASE Continue(r)
  <2>1. row' = row /\ stream[r].pc = "full" /\ Goto(r, "read")
    BY <1>7 DEF Continue
  <2> QED
    BY <1>0, <2>1, GotoFields DEF RunInv, RowInv, StoreInv, EndInv
<1>8. CASE DrainThrows(r) \/ StreamFails(r)
  <2>1. row' = row /\ stream[r].pc \in {"chunk", "end", "mark", "read"}
        /\ Goto(r, "catch")
    BY <1>8 DEF DrainThrows, StreamFails
  <2> QED
    BY <1>0, <2>1, GotoFields DEF RunInv, RowInv, StoreInv, EndInv
<1>9. CASE Salvaged(r)
  <2>1. row' = row /\ stream[r].pc = "salvage" /\ Goto(r, "fail")
        /\ batch[r].chain = <<>>
    BY <1>9 DEF Salvaged, Drained
  <2> QED
    BY <1>0, <2>1, GotoFields DEF RunInv, RowInv, StoreInv, EndInv
<1> QED
  BY <1>1, <1>2, <1>3, <1>4, <1>5, <1>6, <1>7, <1>8, <1>9

LEMMA FlushLinked ==
    ASSUME NEW n \in Nat, NEW m \in Nat, NEW b \in BatchState,
           Linked(n, b.chain, b.pending, m)
    PROVE  Linked(n, Flushed(b).chain, Flushed(b).pending, m)
<1>1. b.chain \in Seq(Seq(Nat)) /\ b.pending \in Seq(Nat)
  BY DEF BatchState
<1>2. CASE b.pending = <<>>
  BY <1>2, FlushedFields
<1>3. CASE b.pending # <<>>
  <2>1. Linked(n, Append(b.chain, b.pending), <<>>, m)
    BY <1>1, LinkedFlush
  <2> QED
    BY <1>3, <2>1, FlushedFields
<1> QED
  BY <1>2, <1>3

LEMMA ReadType ==
    ASSUME TypeOK, NEW r \in Run
    PROVE  stream[r].read \in Nat /\ log[r] \in Seq(Nat) /\ Len(log[r]) \in Nat
BY DEF TypeOK, StreamState

(* The steps of the batcher. *)
LEMMA FlushKeeps ==
    ASSUME TypeOK, NEW r \in Run, RunInv(r), FlushTimer(r)
    PROVE  RunInv(r)'
<1>1. row' = row /\ log' = log /\ stream' = stream
  BY DEF FlushTimer
<1> PICK b \in BatchState : b = batch[r]
  BY StreamType
<1>2. batch'[r] = Flushed(b)
  BY DEF FlushTimer, TypeOK
<1>3. Flushed(b).pending = <<>> /\ Flushed(b).broken = b.broken
      /\ (b.pending = <<>> => Flushed(b).chain = b.chain)
  BY FlushedFields
<1>4. Linked(Len(log[r]), b.chain, b.pending, stream[r].read) =>
        Linked(Len(log[r]), Flushed(b).chain, Flushed(b).pending, stream[r].read)
  BY FlushLinked, ReadType
<1>5. StoreInv(row[r].status, stream[r], batch[r], log[r])'
  BY <1>1, <1>2, <1>3, <1>4 DEF RunInv, StoreInv
<1> QED
  BY <1>1, <1>5 DEF RunInv

LEMMA AppendKeeps ==
    ASSUME TypeOK, NEW r \in Run, RunInv(r), AppendBatch(r)
    PROVE  RunInv(r)'
<1> PICK b \in BatchState : b = batch[r]
  BY StreamType
<1> PICK l \in Seq(Nat) : l = log[r]
  BY ReadType
<1>0. b.chain \in Seq(Seq(Nat)) /\ b.pending \in Seq(Nat)
  BY DEF BatchState
<1>1. b.chain # <<>> /\ row[r].status # "deleted" /\ stream' = stream
      /\ row'[r].status = row[r].status
  BY DEF AppendBatch, Drained, TypeOK, RowState
<1>2. Head(b.chain) \in Seq(Nat)
  BY <1>1, StoredFields
<1>3. log'[r] = l \o Head(b.chain)
  BY DEF AppendBatch, TypeOK
<1>4. batch'[r].chain = Tail(b.chain) /\ batch'[r].pending = b.pending
      /\ batch'[r].broken = b.broken
  BY DEF AppendBatch, TypeOK, BatchState
<1>5. b.broken = "no" /\ stream[r].pc \in Draining \ {"mark"}
  <2>1. stream[r].pc \notin Starting \cup Finished /\ b.broken = "no"
    BY <1>1 DEF RunInv, StoreInv
  <2>2. stream[r].pc \in StreamPC
    BY StreamType DEF StreamState
  <2> QED
    BY <2>1, <2>2 DEF StreamPC, Creating, Awaiting, Starting, Beginning, Finished, Draining
<1>6. Linked(Len(l), b.chain, b.pending, stream[r].read)
  BY <1>1, <1>5 DEF RunInv, StoreInv
<1>7. Consecutive(Head(b.chain), Len(l), Len(l) + Len(Head(b.chain)))
      /\ Linked(Len(l) + Len(Head(b.chain)), Tail(b.chain), b.pending, stream[r].read)
  BY <1>0, <1>1, <1>6, LinkedStore, ReadType
<1>8. InOrder(l \o Head(b.chain))
      /\ Len(l \o Head(b.chain)) = Len(l) + Len(Head(b.chain))
  <2>1. InOrder(l)
    BY DEF RunInv, StoreInv
  <2> QED
    BY <1>2, <1>7, <2>1, InOrderStore
<1>9. StoreInv(row[r].status, stream[r], batch[r], log[r])'
  BY <1>1, <1>3, <1>4, <1>5, <1>7, <1>8
  DEF RunInv, StoreInv, Draining, Starting, Beginning, Finished
<1>10. EndInv(row[r].status, stream[r], log[r], Source[r])'
  BY <1>1, <1>5 DEF RunInv, EndInv, Draining
<1>11. RowInv(row[r].status, stream[r])'
  BY <1>1 DEF RunInv, RowInv
<1> QED
  BY <1>9, <1>10, <1>11 DEF RunInv

LEMMA AppendFailsKeeps ==
    ASSUME TypeOK, NEW r \in Run, RunInv(r), AppendFails(r)
    PROVE  RunInv(r)'
<1>1. row' = row /\ log' = log /\ batch[r].chain # <<>>
  BY DEF AppendFails, Drained
<1>2. \E pc \in {"fail", "catch"} : Goto(r, pc)
  BY DEF AppendFails
<1>3. PICK why \in {"gone", "error"} : batch'[r] = Broken(batch[r], why)
  BY DEF AppendFails, TypeOK
<1>4. batch'[r].pending = <<>> /\ batch'[r].chain = <<>> /\ batch'[r].broken \in {"gone", "error"}
  BY <1>3, BrokenFields
<1>5. stream'[r].pc \in {"fail", "catch"} /\ stream[r].pc \notin Starting \cup Finished
  BY <1>1, <1>2, GotoFields DEF RunInv, StoreInv
<1>6. StoreInv(row[r].status, stream[r], batch[r], log[r])'
  BY <1>1, <1>4, <1>5 DEF RunInv, StoreInv, Starting, Beginning, Finished, Draining
<1>7. EndInv(row[r].status, stream[r], log[r], Source[r])'
  BY <1>1, <1>5 DEF RunInv, EndInv, Finished
<1>8. RowInv(row[r].status, stream[r])'
  BY <1>1, <1>5 DEF RunInv, RowInv, Starting, Beginning
<1> QED
  BY <1>6, <1>7, <1>8 DEF RunInv

LEMMA ReadKeeps ==
    ASSUME TypeOK, NEW r \in Run, RunInv(r), Read(r)
    PROVE  RunInv(r)'
<1> PICK b \in BatchState : b = batch[r]
  BY StreamType
<1> PICK s \in StreamState : s = stream[r]
  BY StreamType
<1>0. s.read + 1 \in Nat /\ Len(log[r]) \in Nat
  BY ReadType
<1> DEFINE w == Written(b, s.read + 1)
<1>1. row' = row /\ log' = log /\ s.pc = "read" /\ b.broken = "no"
  BY DEF Read, At
<1>2. batch'[r] = w \/ batch'[r] = Flushed(w)
  BY DEF Read, TypeOK
<1>3. /\ stream'[r].read = s.read + 1
      /\ stream'[r].pc \in {"chunk", "full", "read"}
      /\ stream'[r].aborted = s.aborted
  BY DEF Read, TypeOK, StreamState
<1>4. w \in BatchState /\ w.pending = Append(b.pending, s.read + 1)
      /\ w.chain = b.chain /\ w.broken = b.broken
  BY <1>0, WrittenFields
<1> HIDE DEF w
<1>5. row[r].status # "deleted" =>
        Linked(Len(log[r]), w.chain, w.pending, s.read + 1)
  <2>1. b.chain \in Seq(Seq(Nat)) /\ b.pending \in Seq(Nat) /\ s.read \in Nat
    BY DEF BatchState, StreamState
  <2>2. row[r].status # "deleted" =>
          Linked(Len(log[r]), b.chain, b.pending, s.read)
    BY <1>1 DEF RunInv, StoreInv, Draining
  <2> QED
    BY <1>4, <2>1, <2>2, LinkedWrite, ReadType
<1>6. row[r].status # "deleted" =>
        Linked(Len(log[r]), Flushed(w).chain, Flushed(w).pending, s.read + 1)
  BY <1>0, <1>4, <1>5, FlushLinked
<1>7. batch'[r].broken = "no"
      /\ (row[r].status # "deleted" =>
            Linked(Len(log[r]), batch'[r].chain, batch'[r].pending, s.read + 1))
  BY <1>1, <1>2, <1>4, <1>5, <1>6, FlushedFields
<1>8. StoreInv(row[r].status, stream[r], batch[r], log[r])'
  BY <1>1, <1>3, <1>7 DEF RunInv, StoreInv, Starting, Beginning, Finished
<1>9. EndInv(row[r].status, stream[r], log[r], Source[r])'
  BY <1>1, <1>3 DEF RunInv, EndInv
<1>10. RowInv(row[r].status, stream[r])'
  BY <1>1, <1>3 DEF RunInv, RowInv, Beginning
<1> QED
  BY <1>8, <1>9, <1>10 DEF RunInv

LEMMA EndOfStreamKeeps ==
    ASSUME TypeOK, NEW r \in Run, RunInv(r), EndOfStream(r)
    PROVE  RunInv(r)'
<1> PICK b \in BatchState : b = batch[r]
  BY StreamType
<1>1. row' = row /\ log' = log /\ stream[r].pc = "read" /\ b.broken = "no"
      /\ Goto(r, "end") /\ (stream[r].read = Len(Source[r]) \/ stream[r].aborted)
  BY DEF EndOfStream, At
<1>2. batch'[r] = Flushed(b)
  BY DEF EndOfStream, TypeOK
<1>3. row[r].status # "deleted" =>
        Linked(Len(log[r]), Flushed(b).chain, Flushed(b).pending, stream[r].read)
  BY <1>1, FlushLinked, ReadType DEF RunInv, StoreInv, Draining
<1>4. stream'[r].pc = "end" /\ stream'[r].read = stream[r].read
      /\ stream'[r].aborted = stream[r].aborted
  BY <1>1, GotoFields
<1>5. StoreInv(row[r].status, stream[r], batch[r], log[r])'
  BY <1>1, <1>2, <1>3, <1>4, FlushedFields
  DEF RunInv, StoreInv, Starting, Beginning, Finished
<1>6. EndInv(row[r].status, stream[r], log[r], Source[r])'
  BY <1>1, <1>4 DEF RunInv, EndInv
<1>7. RowInv(row[r].status, stream[r])'
  BY <1>1, <1>4 DEF RunInv, RowInv, Beginning
<1> QED
  BY <1>5, <1>6, <1>7 DEF RunInv

LEMMA CatchKeeps ==
    ASSUME TypeOK, NEW r \in Run, RunInv(r), Catch(r)
    PROVE  RunInv(r)'
<1> PICK b \in BatchState : b = batch[r]
  BY StreamType
<1> PICK s \in StreamState : s = stream[r]
  BY StreamType
<1>1. row' = row /\ log' = log /\ s.pc = "catch"
  BY DEF Catch, At
<1>2. batch'[r] = IF b.broken = "no" THEN Flushed(b) ELSE b
  BY DEF Catch, TypeOK
<1>3. b.broken \in {"no", "gone", "error"}
  BY DEF BatchState
<1>4. stream'[r].read = s.read
      /\ stream'[r].pc = (CASE b.broken = "gone" -> "gone"
                            [] b.broken = "error" -> "fail"
                            [] b.broken = "no" -> "salvage")
  BY DEF Catch, TypeOK, StreamState
<1>5. stream'[r].pc = (IF b.broken = "no" THEN "salvage"
                       ELSE IF b.broken = "gone" THEN "gone" ELSE "fail")
  BY <1>3, <1>4
<1>6. (b.broken = "no" /\ row[r].status # "deleted") =>
        Linked(Len(log[r]), Flushed(b).chain, Flushed(b).pending, s.read)
  BY <1>1, FlushLinked, ReadType DEF RunInv, StoreInv, Draining
<1>7. StoreInv(row[r].status, stream[r], batch[r], log[r])'
  <2>1. CASE b.broken = "no"
    <3>1. batch'[r] = Flushed(b) /\ stream'[r].pc = "salvage"
      BY <1>2, <1>5, <2>1
    <3>2. Flushed(b).pending = <<>> /\ Flushed(b).broken = "no"
      BY <2>1, FlushedFields
    <3> QED
      BY <1>1, <1>4, <1>6, <2>1, <3>1, <3>2
      DEF RunInv, StoreInv, Starting, Beginning, Finished
  <2>2. CASE b.broken # "no"
    <3>1. batch'[r] = b /\ stream'[r].pc \in {"gone", "fail"}
      BY <1>2, <1>5, <2>2
    <3> QED
      BY <1>1, <2>2, <3>1 DEF RunInv, StoreInv, Starting, Beginning, Draining
  <2> QED
    BY <2>1, <2>2
<1>8. EndInv(row[r].status, stream[r], log[r], Source[r])'
  BY <1>1, <1>5 DEF RunInv, EndInv
<1>9. RowInv(row[r].status, stream[r])'
  BY <1>1, <1>5 DEF RunInv, RowInv, Beginning
<1> QED
  BY <1>7, <1>8, <1>9 DEF RunInv

(* The steps that end the run. *)
LEMMA EndedStatus ==
    ASSUME TypeOK, NEW r \in Run, NEW s, NEW why
    PROVE  Ended(row[r], s, why).status =
             IF row[r].status = "running" THEN s ELSE row[r].status
BY StreamType DEF Ended, RowState

LEMMA MarkTerminalRow ==
    ASSUME TypeOK, NEW r \in Run, NEW s, NEW why, MarkTerminal(r, s, why)
    PROVE  row'[r].status = IF row[r].status = "running" THEN s ELSE row[r].status
BY EndedStatus DEF MarkTerminal, TypeOK

LEMMA MarkChunkKeeps ==
    ASSUME TypeOK, NEW r \in Run, RunInv(r), MarkChunk(r)
    PROVE  RunInv(r)'
<1>1. log' = log /\ batch' = batch /\ stream[r].pc = "chunk" /\ Goto(r, "read")
  BY DEF MarkChunk, At
<1>2. row'[r].status = IF row[r].status = "running" THEN "failed" ELSE row[r].status
  BY MarkTerminalRow DEF MarkChunk
<1>3. stream'[r].pc = "read" /\ stream'[r].read = stream[r].read
  BY <1>1, GotoFields
<1>4. StoreInv(row[r].status, stream[r], batch[r], log[r])'
  BY <1>1, <1>2, <1>3 DEF RunInv, StoreInv, Starting, Beginning, Finished, Draining
<1>5. EndInv(row[r].status, stream[r], log[r], Source[r])'
  BY <1>1, <1>2, <1>3 DEF RunInv, EndInv
<1>6. RowInv(row[r].status, stream[r])'
  BY <1>1, <1>2, <1>3 DEF RunInv, RowInv, Beginning
<1> QED
  BY <1>4, <1>5, <1>6 DEF RunInv

LEMMA ReadStatusKeeps ==
    ASSUME TypeOK, NEW r \in Run, RunInv(r), ReadStatus(r)
    PROVE  RunInv(r)'
<1>1. row' = row /\ log' = log /\ batch' = batch /\ stream[r].pc = "end"
      /\ batch[r].chain = <<>>
  BY DEF ReadStatus, At, Drained
<1>2. stream'[r].pc = "mark" /\ stream'[r].read = stream[r].read
      /\ stream'[r].verdict = TerminalStatus(r)
  BY DEF ReadStatus, TypeOK, StreamState
<1>3. /\ TerminalStatus(r) # "none"
      /\ TerminalStatus(r) = "completed" => ~stream[r].aborted
  BY DEF TerminalStatus, TypeOK, RowState
<1>4. batch[r].pending = <<>> /\ batch[r].broken = "no"
      /\ (stream[r].read = Len(Source[r]) \/ stream[r].aborted)
  BY <1>1 DEF RunInv, StoreInv, EndInv
<1>5. row[r].status # "deleted" => Len(log[r]) = stream[r].read
  <2>1. row[r].status # "deleted" => Linked(Len(log[r]), <<>>, <<>>, stream[r].read)
    BY <1>1, <1>4 DEF RunInv, StoreInv, Draining
  <2> QED
    BY <2>1, LinkedEnd, ReadType
<1>6. StoreInv(row[r].status, stream[r], batch[r], log[r])'
  BY <1>1, <1>2, <1>4 DEF RunInv, StoreInv, Starting, Beginning, Draining
<1>7. EndInv(row[r].status, stream[r], log[r], Source[r])'
  BY <1>1, <1>2, <1>3, <1>4, <1>5 DEF RunInv, EndInv
<1>8. RowInv(row[r].status, stream[r])'
  BY <1>1, <1>2 DEF RunInv, RowInv, Beginning
<1> QED
  BY <1>6, <1>7, <1>8 DEF RunInv

LEMMA MarkKeeps ==
    ASSUME TypeOK, NEW r \in Run, RunInv(r), Mark(r) \/ MarkThrows(r)
    PROVE  RunInv(r)'
<1>1. log' = log /\ batch' = batch /\ stream[r].pc \in {"mark", "fail", "gone", "reject"}
  BY DEF Mark, MarkThrows, At
<1>2. stream'[r].pc = "over" /\ stream'[r].read = 0
  BY DEF Mark, MarkThrows, Over, NoStream, TypeOK
<1>3. row[r].status \notin {"absent", "completed"}
  BY <1>1 DEF RunInv, RowInv, EndInv, Beginning
<1>4. \/ row'[r].status = row[r].status
      \/ row'[r].status \in {"failed", "cancelled"}
      \/ /\ stream[r].pc = "mark" /\ row[r].status = "running"
         /\ row'[r].status = stream[r].verdict
  BY MarkTerminalRow DEF Mark, MarkThrows, At
<1>5. row'[r].status = "completed" => Len(log[r]) = Len(Source[r])
  BY <1>3, <1>4 DEF RunInv, EndInv
<1>6. row'[r].status # "absent"
  <2>1. stream[r].verdict \in Verdict
    BY StreamType DEF StreamState
  <2> QED
    BY <1>3, <1>4, <2>1 DEF Verdict, Terminal
<1>7. StoreInv(row[r].status, stream[r], batch[r], log[r])'
  BY <1>1, <1>2 DEF RunInv, StoreInv, Starting, Beginning, Draining, Finished
<1>8. EndInv(row[r].status, stream[r], log[r], Source[r])'
  BY <1>1, <1>2, <1>5 DEF EndInv
<1>9. RowInv(row[r].status, stream[r])'
  BY <1>2, <1>6 DEF RowInv, Beginning
<1> QED
  BY <1>7, <1>8, <1>9 DEF RunInv

LEMMA RunStep ==
    ASSUME TypeOK, NEW r \in Run, RunInv(r), [Next]_vars
    PROVE  RunInv(r)'
<1>1. CASE Own(r)
  BY <1>1, MoveKeeps, FlushKeeps, AppendKeeps, AppendFailsKeeps, ReadKeeps,
     EndOfStreamKeeps, CatchKeeps, MarkChunkKeeps, ReadStatusKeeps, MarkKeeps
  DEF Own, DrainStep, StreamStep
<1>2. CASE Outside(r) \/ Gone(r) \/ Removed(r) \/ \E p \in Proc : Post(p, r)
  BY <1>2, OutsideKeeps, GoneKeeps, RemovedKeeps, PostKeeps
<1> QED
  BY <1>1, <1>2, StepOutcome DEF Outcome

---------------------------------------------------------------------------
(* The inductive invariants of readers and of processes *)

(* A replay that has seen the run completed has seen all of it. *)
ReaderInv(q) ==
    /\ reader[q].pc = "off" => reader[q].saw # "completed"
    /\ reader[q].saw = "completed" =>
          Len(reader[q].seen) = Len(Source[reader[q].run])

(* From its registration on, a running run is in the memory of the process *)
(* that streams it, in the snapshot if the process shuts down, and once    *)
(* the snapshot is dealt with only a run being created, or one whose last  *)
(* statement failed, is left.                                              *)
OwnedInv(p, r) ==
    Running(r) /\ Owner(r) = p =>
        /\ ~At(r, "register") => r \in inFlight[p]
        /\ mode[p] = "shutting" =>
              r \in doomed[p] \/ stream[r].pc \in Creating \cup {"over"}
        /\ mode[p] = "closing" => stream[r].pc \in Creating \cup {"over"}

IInv ==
    /\ TypeOK
    /\ OpenHasRun
    /\ \A r \in Run : RunInv(r)
    /\ \A q \in Reader : ReaderInv(q)
    /\ \A p \in Proc, r \in Run : OwnedInv(p, r)

LEMMA RunInvVerdict == (\A r \in Run : RunInv(r)) => VerdictRead
BY DEF RunInv, EndInv, VerdictRead, At

LEMMA ReaderStepInv ==
    ASSUME TypeOK, OpenHasRun, \A r \in Run : RunInv(r), [Next]_vars,
           NEW q \in Reader, ReaderInv(q)
    PROVE  ReaderInv(q)'
<1>1. CASE reader'[q] = reader[q]
  BY <1>1 DEF ReaderInv
<1>2. CASE Attach(q)
  <2>1. reader[q].pc = "off" /\ reader'[q].pc = "open"
        /\ reader'[q].saw = reader[q].saw
    BY <1>2 DEF Attach, TypeOK, ReaderState
  <2> QED
    BY <2>1 DEF ReaderInv
<1>3. CASE Look(q)
  <2> PICK r \in Run : r = reader[q].run
    BY <1>3 DEF Look, OpenHasRun
  <2> PICK seen \in Seq(Nat) : seen = reader[q].seen
    BY DEF TypeOK, ReaderState
  <2>1. reader'[q] = Snapshot(r, seen)
    BY <1>3 DEF Look, TypeOK
  <2>2. /\ Snapshot(r, seen).run = r
        /\ Snapshot(r, seen).pc # "off"
        /\ Snapshot(r, seen).seen = IF Exists(r) THEN log[r] ELSE seen
    BY DEF Snapshot
  <2>3. Snapshot(r, seen).saw = "completed" => row[r].status = "completed"
    <3>1. CASE Running(r)
      <4>1. row[r].status \notin Terminal /\ Exists(r)
        BY <3>1 DEF Running, Exists, Terminal
      <4> QED
        BY <3>1, <4>1 DEF Snapshot
    <3>2. CASE row[r].status \in Terminal
      <4>1. ~Running(r) /\ Exists(r)
        BY <3>2 DEF Running, Exists, Terminal
      <4> QED
        BY <3>2, <4>1 DEF Snapshot
    <3>3. CASE row[r].status \in {"absent", "deleted"}
      <4>1. ~Running(r) /\ row[r].status \notin Terminal /\ ~Exists(r)
        BY <3>3 DEF Running, Exists, Terminal
      <4> QED
        BY <4>1 DEF Snapshot
    <3> QED
      BY <3>1, <3>2, <3>3, StreamType DEF RowState, Running
  <2>4. row[r].status = "completed" => Exists(r) /\ Len(log[r]) = Len(Source[r])
    BY DEF RunInv, EndInv, Exists
  <2> QED
    BY <2>1, <2>2, <2>3, <2>4 DEF ReaderInv
<1>4. reader'[q] = reader[q] \/ Attach(q) \/ Look(q)
  <2>1. CASE reader' = reader
    BY <2>1
  <2>2. ASSUME NEW x \in Reader, ReaderStep(x)
        PROVE  reader'[q] = reader[q] \/ Attach(q) \/ Look(q)
    BY <2>2 DEF ReaderStep, Attach, Look, TypeOK
  <2>3. reader' = reader \/ \E x \in Reader : ReaderStep(x)
    <3>1. CASE UNCHANGED vars
      BY <3>1 DEF vars
    <3>2. ASSUME NEW p \in Proc, ProcStep(p) PROVE reader' = reader
      BY <3>2 DEF ProcStep, Post, RequestStop, Reap, BeginShutdown, FailInFlight,
                  Exit, Crash, Boot
    <3>3. ASSUME NEW r \in Run, DrainStep(r) PROVE reader' = reader
      BY <3>3 DEF DrainStep, Insert, Conflict, ReapFirst, Register, Begin, SetupFails,
                  FlushTimer, AppendBatch, AppendFails, Continue, MarkChunk, ReadStatus,
                  Mark, DrainThrows, MarkThrows, Catch, Salvaged
    <3>4. ASSUME NEW r \in Run, StreamStep(r) \/ PollStop(r) \/ GoStale(r)
          PROVE  reader' = reader
      BY <3>4 DEF StreamStep, Read, EndOfStream, StreamFails, PollStop, GoStale
    <3>5. CASE Restore \/ DeleteRows
      BY <3>5 DEF Restore, DeleteRows
    <3> QED
      BY <3>1, <3>2, <3>3, <3>4, <3>5 DEF Next
  <2> QED
    BY <2>1, <2>2, <2>3
<1> QED
  BY <1>1, <1>2, <1>3, <1>4

(* What a step that is not run r's own does to the memory about r of the   *)
(* process p.                                                              *)
Remembers(p, r) ==
    /\ r \in inFlight[p] => r \in inFlight'[p]
    /\ doomed'[p] = doomed[p] /\ mode'[p] = mode[p]

LEMMA MemoryStep ==
    ASSUME TypeOK, [Next]_vars, NEW p \in Proc, NEW r \in Run, ~Own(r)
    PROVE  Remembers(p, r) \/ BeginShutdown(p) \/ FailInFlight(p) \/ Boot(p) \/ Vanish(p)
<1>0. ASSUME UNCHANGED process PROVE Remembers(p, r)
  BY <1>0 DEF process, Remembers
<1>1. CASE UNCHANGED vars
  BY <1>0, <1>1 DEF vars, process
<1>2. ASSUME NEW x \in Proc, ProcStep(x)
      PROVE  Remembers(p, r) \/ BeginShutdown(p) \/ FailInFlight(p) \/ Boot(p)
                \/ Vanish(p)
  <2>1. CASE x = p
    <3>1. UNCHANGED process \/ BeginShutdown(p) \/ FailInFlight(p) \/ Boot(p) \/ Vanish(p)
      BY <1>2, <2>1 DEF ProcStep, Post, RequestStop, Reap, Exit, Crash
    <3> QED
      BY <1>0, <3>1
  <2>2. CASE x # p
    BY <1>2, <2>2 DEF ProcStep, Post, RequestStop, Reap, Exit, Crash, BeginShutdown,
                      FailInFlight, Boot, Vanish, process, Remembers, TypeOK
  <2> QED
    BY <2>1, <2>2
<1>3. ASSUME NEW q \in Run, DrainStep(q)
      PROVE  Remembers(p, r)
  <2>1. q # r
    BY <1>3 DEF Own
  <2>2. UNCHANGED process \/ Register(q) \/ MarkChunk(q) \/ Mark(q)
    BY <1>3 DEF DrainStep, Insert, Conflict, ReapFirst, Begin, SetupFails,
                FlushTimer, AppendBatch, AppendFails, Continue, ReadStatus,
                DrainThrows, MarkThrows, Catch, Salvaged
  <2>3. CASE Register(q)
    BY <2>3 DEF Register, Remembers, TypeOK
  <2>4. CASE MarkChunk(q) \/ Mark(q)
    BY <2>1, <2>4 DEF MarkChunk, Mark, MarkTerminal, Remembers, TypeOK
  <2> QED
    BY <1>0, <2>2, <2>3, <2>4
<1>4. ASSUME NEW q \in Run, StreamStep(q) \/ PollStop(q) \/ GoStale(q)
      PROVE  Remembers(p, r)
  BY <1>0, <1>4 DEF StreamStep, Read, EndOfStream, StreamFails, PollStop, GoStale
<1>5. ASSUME NEW q \in Reader, ReaderStep(q)
      PROVE  Remembers(p, r)
  BY <1>0, <1>5 DEF ReaderStep, Attach, Look
<1>6. CASE Restore \/ DeleteRows
  BY <1>0, <1>6 DEF Restore, DeleteRows
<1> QED
  BY <1>1, <1>2, <1>3, <1>4, <1>5, <1>6 DEF Next

LEMMA OwnedOwnStep ==
    ASSUME TypeOK, NEW p \in Proc, NEW r \in Run, RunInv(r), OwnedInv(p, r), Own(r),
           Running(r)', (Owner(r) = p)', stream'[r].pc \notin Beginning
    PROVE  OwnedInv(p, r)'
<1> USE DEF At, Owner
<1>1. CASE Insert(r)
  <2>1. Goto(r, "register")
    BY <1>1 DEF Insert
  <2> QED
    BY <2>1, GotoFields DEF OwnedInv, Creating
<1>2. CASE Conflict(r) \/ ReapFirst(r)
  <2>1. stream'[r].pc \in Beginning
    BY <1>2, GotoFields DEF Conflict, ReapFirst, NoStream, TypeOK, Beginning
  <2> QED
    BY <2>1
<1>3. CASE Register(r)
  <2>1. Goto(r, IF mode[Owner(r)] = "up" THEN "setup" ELSE "reject")
        /\ inFlight' = [inFlight EXCEPT ![Owner(r)] = inFlight[Owner(r)] \cup {r}]
        /\ UNCHANGED <<doomed, mode>>
    BY <1>3 DEF Register
  <2>2. stream'[r].pc = (IF mode[Owner(r)] = "up" THEN "setup" ELSE "reject")
        /\ Owner(r) = p
    BY <2>1, GotoFields
  <2>3. r \in inFlight'[p]
    BY <2>1, <2>2 DEF TypeOK
  <2> QED
    BY <2>1, <2>2, <2>3 DEF OwnedInv, Creating
<1>4. CASE MarkThrows(r)
  <2>1. stream'[r].pc = "over" /\ stream'[r].owner = stream[r].owner
    BY <1>4 DEF MarkThrows, Over, NoStream, TypeOK
  <2>2. UNCHANGED <<row, inFlight, doomed, mode>> /\ stream[r].pc # "register"
    BY <1>4 DEF MarkThrows, process
  <2>3. Running(r) /\ Owner(r) = p
    BY <2>1, <2>2 DEF Running
  <2> QED
    BY <2>1, <2>2, <2>3 DEF OwnedInv
<1>5. CASE MarkChunk(r) \/ Mark(r)
  <2>1. PICK s \in Verdict : \E why : MarkTerminal(r, s, why)
    BY <1>5, StreamType DEF MarkChunk, Mark, Verdict, Terminal, StreamState
  <2>2. row'[r].status = IF row[r].status = "running" THEN s ELSE row[r].status
    BY <2>1, MarkTerminalRow
  <2> QED
    BY <2>2 DEF Running, Verdict, Terminal
<1>6. CASE Begin(r) \/ SetupFails(r) \/ AppendBatch(r) \/ AppendFails(r)
            \/ Continue(r) \/ ReadStatus(r) \/ DrainThrows(r) \/ Catch(r) \/ Salvaged(r)
            \/ StreamStep(r)
  <2>1. UNCHANGED process /\ row'[r].status = row[r].status
    BY <1>6 DEF Begin, SetupFails, AppendBatch, AppendFails, Continue,
                ReadStatus, DrainThrows, Catch, Salvaged, StreamStep, Read,
                EndOfStream, StreamFails, TypeOK, RowState
  <2>2. stream'[r].owner = stream[r].owner
    BY <1>6 DEF Begin, SetupFails, AppendBatch, AppendFails, Continue,
                ReadStatus, DrainThrows, Catch, Salvaged, StreamStep, Read,
                EndOfStream, StreamFails, Goto, TypeOK, StreamState
  <2>3. stream[r].pc \notin Creating \cup {"over"}
    <3>1. ~Drained(r) => stream[r].pc \notin Starting \cup Finished
      BY DEF RunInv, StoreInv, Drained
    <3> QED
      BY <1>6, <3>1
      DEF Begin, SetupFails, AppendBatch, AppendFails, Continue,
          ReadStatus, DrainThrows, Catch, Salvaged, StreamStep, Read,
          EndOfStream, StreamFails, Creating, Starting, Beginning, Finished
  <2>4. Running(r) /\ Owner(r) = p
    BY <2>1, <2>2 DEF Running
  <2> QED
    BY <2>1, <2>3, <2>4 DEF OwnedInv, process, Creating
<1>7. CASE FlushTimer(r)
  BY <1>7 DEF FlushTimer, process, Running, OwnedInv
<1> QED
  BY <1>1, <1>2, <1>3, <1>4, <1>5, <1>6, <1>7 DEF Own, DrainStep

LEMMA OwnedStep ==
    ASSUME TypeOK, [Next]_vars, NEW p \in Proc, NEW r \in Run,
           RunInv(r), RunInv(r)', OwnedInv(p, r)
    PROVE  OwnedInv(p, r)'
<1> SUFFICES ASSUME Running(r)', (Owner(r) = p)'
             PROVE  OwnedInv(p, r)'
  BY DEF OwnedInv
<1>1. stream'[r].pc \notin Beginning
  BY DEF RunInv, RowInv, Running
<1>2. CASE Own(r)
  BY <1>1, <1>2, OwnedOwnStep
<1>3. ~Gone(r) /\ ~Removed(r) /\ ~\E x \in Proc : Post(x, r)
  <2>1. ~Gone(r)
    <3> SUFFICES ASSUME NEW x \in Proc, Vanish(x), Owner(r) = x
                 PROVE  FALSE
      BY DEF Gone
    <3>1. stream'[r].owner = Nobody
      BY DEF Vanish, NoStream
    <3> QED
      BY <3>1, ProcAssumption DEF Owner
  <2>2. ~Removed(r)
    BY DEF Removed, Running
  <2>3. ASSUME NEW x \in Proc, Post(x, r) PROVE FALSE
    BY <1>1, <2>3 DEF Post, TypeOK, StreamState, Beginning
  <2> QED
    BY <2>1, <2>2, <2>3
<1>4. CASE ~Own(r)
  <2>1. Outside(r)
    BY <1>3, <1>4, StepOutcome DEF Outcome
  <2>2. Running(r) /\ Owner(r) = p /\ stream'[r].pc = stream[r].pc
    BY <2>1 DEF Outside, OutsideRow, SameRow, SameStream, Running, Owner
  <2>3. CASE Remembers(p, r)
    BY <2>2, <2>3 DEF Remembers, OwnedInv, At
  <2>4. CASE BeginShutdown(p)
    <3>1. inFlight' = inFlight /\ mode'[p] = "shutting" /\ doomed'[p] = inFlight[p]
      BY <2>4 DEF BeginShutdown, TypeOK
    <3> QED
      BY <2>2, <3>1 DEF OwnedInv, At, Creating
  <2>5. CASE FailInFlight(p)
    <3>1. CASE mode'[p] = "closing"
      <4>1. row' = [x \in Run |-> IF x \in doomed[p]
                                  THEN Ended(row[x], "failed", "shutdown") ELSE row[x]]
            /\ inFlight'[p] = inFlight[p] \ doomed[p]
            /\ mode[p] = "shutting"
        BY <2>5, <3>1 DEF FailInFlight, TypeOK
      <4>2. r \notin doomed[p]
        BY <4>1, EndedStatus DEF Running
      <4> QED
        BY <2>2, <3>1, <4>1, <4>2 DEF OwnedInv, At
    <3>2. CASE mode'[p] # "closing"
      <4>1. mode'[p] = "hurried" /\ inFlight' = inFlight
        BY <2>5, <3>2 DEF FailInFlight, TypeOK
      <4> QED
        BY <2>2, <4>1 DEF OwnedInv, At
    <3> QED
      BY <3>1, <3>2
  <2>6. CASE Boot(p)
    <3>1. inFlight' = inFlight /\ mode'[p] = "up"
      BY <2>6 DEF Boot, TypeOK
    <3> QED
      BY <2>2, <3>1 DEF OwnedInv, At
  <2>7. CASE Vanish(p)
    <3>1. stream'[r].owner = Nobody
      BY <2>2, <2>7 DEF Vanish, NoStream
    <3> QED
      BY <3>1, ProcAssumption DEF Owner
  <2> QED
    BY <1>4, <2>3, <2>4, <2>5, <2>6, <2>7, MemoryStep
<1> QED
  BY <1>2, <1>4

LEMMA InitIInv == Init => IInv
<1> SUFFICES ASSUME Init PROVE IInv
  OBVIOUS
<1>1. TypeOK
  <2>1. NoRow \in RowState
    BY DEF NoRow, RowState
  <2>2. NoStream \in StreamState
    BY DEF NoStream, StreamState, StreamPC, Verdict
  <2>3. NoReader \in ReaderState
    BY EmptyType DEF NoReader, ReaderState, Verdict
  <2> QED
    BY <2>1, <2>2, <2>3, EmptyType, EmptyBatchType, ChatFaultsAssumption DEF Init, TypeOK
<1>2. \A q \in Reader : reader[q].pc = "off" /\ reader[q].saw = "none"
  BY DEF Init, NoReader
<1>3. ASSUME NEW r \in Run PROVE RunInv(r)
  <2>1. /\ row[r].status = "absent" /\ log[r] = <<>>
        /\ stream[r].pc = "none" /\ stream[r].read = 0
        /\ batch[r].pending = <<>> /\ batch[r].chain = <<>> /\ batch[r].broken = "no"
    BY DEF Init, NoRow, NoStream, EmptyBatch
  <2>2. InOrder(<<>>)
    BY DEF InOrder
  <2> QED
    BY <2>1, <2>2 DEF RunInv, RowInv, StoreInv, EndInv, Starting, Beginning, Draining,
                      Finished
<1>4. \A r \in Run : ~Running(r)
  BY DEF Init, NoRow, Running
<1> QED
  BY <1>1, <1>2, <1>3, <1>4 DEF IInv, OpenHasRun, ReaderInv, OwnedInv

LEMMA NextIInv == IInv /\ [Next]_vars => IInv'
<1> SUFFICES ASSUME IInv, [Next]_vars PROVE IInv'
  OBVIOUS
<1>1. TypeOK' /\ OpenHasRun'
  BY RunInvVerdict, StepType DEF IInv
<1>2. ASSUME NEW r \in Run PROVE RunInv(r)'
  BY RunStep DEF IInv
<1>3. ASSUME NEW q \in Reader PROVE ReaderInv(q)'
  BY ReaderStepInv DEF IInv
<1>4. ASSUME NEW p \in Proc, NEW r \in Run PROVE OwnedInv(p, r)'
  BY <1>2, OwnedStep DEF IInv
<1> QED
  BY <1>1, <1>2, <1>3, <1>4 DEF IInv

LEMMA Invariance == Spec => []IInv
BY InitIInv, NextIInv, PTL DEF Spec

---------------------------------------------------------------------------
(* Theorems *)

(* Every variable has its type: whoever moves a drain leaves it at a place *)
(* the code has, with a status read before it is marked.                   *)
THEOREM TypeCorrect == Spec => []TypeOK
<1>1. IInv => TypeOK
  BY DEF IInv
<1> QED
  BY <1>1, Invariance, PTL

(* The events stored are the beginning of the stream, in order, whichever  *)
(* of timer, full batch, error chunk, end and catch flushed them, and      *)
(* wherever a flush failed.                                                *)
THEOREM LogInOrderHolds == Spec => []LogInOrder
<1>1. IInv => LogInOrder
  BY DEF IInv, RunInv, StoreInv, InOrder, LogInOrder
<1> QED
  BY <1>1, Invariance, PTL

(* A replay that ends on a completed run has delivered the whole stream.   *)
THEOREM ReplayWholeHolds == Spec => []ReplayWhole
<1>1. IInv => ReplayWhole
  BY DEF IInv, ReaderInv, ReplayWhole
<1> QED
  BY <1>1, Invariance, PTL

(* Nobody who ends a run that is already ended changes how it ended.       *)
THEOREM TerminalStaysHolds == Spec => TerminalStays
<1> DEFINE Stays(r) == row[r].status \in Terminal =>
          \/ row[r].status = row'[r].status /\ row[r].error = row'[r].error
          \/ row'[r].status = "deleted"
<1>1. ASSUME IInv, [Next]_vars, NEW r \in Run, row[r].status \in Terminal
      PROVE  Stays(r)
  <2>1. TypeOK /\ RunInv(r) /\ Outcome(r)
    BY <1>1, StepOutcome DEF IInv
  <2>2. row[r].status \notin {"absent", "running"}
    BY <1>1 DEF Terminal
  <2>3. CASE Outside(r)
    BY <2>2, <2>3 DEF Outside, OutsideRow, SameRow, Running
  <2>4. CASE Gone(r) \/ Removed(r) \/ \E p \in Proc : Post(p, r)
    BY <2>4 DEF Gone, Removed, Post
  <2>5. CASE Own(r)
    <3>1. ~Insert(r)
      BY <2>1, <2>2 DEF Insert, At, RunInv, RowInv, Beginning
    <3>2. CASE ReapFirst(r)
      <4>1. OutsideRow(r)
        BY <2>1, <3>2, ReapedRow DEF ReapFirst, OutsideRow, SameRow
      <4> QED
        BY <2>2, <4>1 DEF OutsideRow, SameRow, Running
    <3>3. CASE AppendBatch(r)
      BY <2>1, <3>3 DEF AppendBatch, TypeOK, RowState
    <3>4. CASE MarkChunk(r) \/ Mark(r)
      <4>1. PICK s, why : MarkTerminal(r, s, why)
        BY <3>4 DEF MarkChunk, Mark
      <4>2. row'[r] = row[r]
        BY <2>1, <2>2, <4>1 DEF MarkTerminal, Ended, TypeOK
      <4> QED
        BY <4>2
    <3>5. CASE row' = row
      BY <3>5
    <3>6. row' = row \/ Insert(r) \/ ReapFirst(r) \/ AppendBatch(r) \/ MarkChunk(r)
          \/ Mark(r)
      BY <2>5 DEF Own, DrainStep, StreamStep, Conflict, Register, Begin, SetupFails,
                  FlushTimer, AppendFails, Continue, ReadStatus, DrainThrows,
                  MarkThrows, Catch, Salvaged, Read, EndOfStream, StreamFails
    <3> QED
      BY <3>1, <3>2, <3>3, <3>4, <3>5, <3>6
  <2> QED
    BY <2>1, <2>3, <2>4, <2>5 DEF Outcome
<1>2. IInv /\ [Next]_vars => [\A r \in Run : Stays(r)]_vars
  BY <1>1
<1> QED
  BY <1>2, Invariance, PTL DEF Spec, TerminalStays

(* A process that exits after a shutdown whose clean-up succeeded leaves   *)
(* nothing running but a run whose own last statement failed.              *)
THEOREM ShutdownLeavesNothingHolds == Spec => ShutdownLeavesNothing
<1> DEFINE Leaves == \A p \in Proc : Exit(p) /\ mode[p] = "closing" =>
          \A r \in Run : Running(r) /\ Owner(r) = p =>
              At(r, "over") /\ r \in inFlight[p]
<1>1. ASSUME IInv, NEW p \in Proc, Exit(p), mode[p] = "closing",
             NEW r \in Run, Running(r), Owner(r) = p
      PROVE  At(r, "over") /\ r \in inFlight[p]
  BY <1>1 DEF IInv, OwnedInv, Exit, At, Creating
<1>2. IInv /\ [Next]_vars => [Leaves]_vars
  BY <1>1
<1> QED
  BY <1>2, Invariance, PTL DEF Spec, ShutdownLeavesNothing
=============================================================================
