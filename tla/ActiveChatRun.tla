---------------------------- MODULE ActiveChatRun ----------------------------
(***************************************************************************)
(* The active runs of one conversation: the rows of `chat_active_runs` and *)
(* their event log, the request that streams a run in some process, the    *)
(* drain that stores the stream's chunks in batches, and everybody else    *)
(* who ends a run: a stop request, a restore, the stale reaper, an orderly *)
(* shutdown.  Readers replay a run from its log.                           *)
(*                                                                         *)
(* Notifications only cut a wait short, and every wait has a timeout: to   *)
(* be woken is one action, whichever of the two it was.  `stale` says that *)
(* updated_at is older than STALE_RUNNING_MS.                              *)
(***************************************************************************)
EXTENDS Integers, Sequences, FiniteSets

CONSTANTS
    Proc,       \* web server processes
    Run,        \* ids of runs, each used for one row
    Reader,     \* clients that reconnect
    Source,     \* Source[r]: the chunks the model's stream of run r has
    BatchSize,  \* EVENT_BATCH_SIZE
    Faults,     \* the sorts of events the environment injects ...
    MaxFaults   \* ... and how many of them

ChunkKind == {"text", "error"}
FaultKind == {"error", "crash", "shutdown", "stop", "restore", "delete"}

ASSUME SourceAssumption == Source \in [Run -> Seq(ChunkKind)]
ASSUME BatchSizeAssumption == BatchSize \in Nat \ {0}
ASSUME ChatFaultsAssumption == Faults \subseteq FaultKind /\ MaxFaults \in Nat

Nobody == "nobody"
NoRun == "no run"

ASSUME ProcAssumption == Nobody \notin Proc

VARIABLES
    row,      \* row[r]: the run's row
    latest,   \* the run with the latest created_at
    log,      \* log[r]: the chunks in the run's events, by ascending seq
    stream,   \* stream[r]: the request and its drain
    batch,    \* batch[r]: the event batcher
    poll,     \* poll[r]: the stop polling loop
    inFlight, \* inFlight[p]: inFlightRunIds
    doomed,   \* doomed[p]: the snapshot failInFlightRuns works on
    mode,     \* mode[p]: life cycle of process p
    reader,   \* reader[q]: a replay
    faults    \* events still to be injected

drain == <<stream, batch, poll>>
process == <<inFlight, doomed, mode>>
vars == <<row, latest, log, stream, batch, poll, inFlight, doomed, mode, reader,
          faults>>

Terminal == {"completed", "failed", "cancelled"}
Verdict == Terminal \cup {"none"}
RowState == [status : {"absent", "running", "deleted"} \cup Terminal,
             stop : BOOLEAN, stale : BOOLEAN,
             error : {"none", "chunk", "drain", "shutdown", "stale"}]

Creating == {"insert", "reap", "again", "register", "reject"}
Awaiting == {"full", "chunk", "end", "salvage"}
StreamPC == {"none", "setup", "read", "mark", "catch", "fail",
             "gone", "over"} \cup Creating \cup Awaiting
StreamState == [owner : Proc \cup {Nobody}, pc : StreamPC, read : Nat,
                aborted : BOOLEAN, verdict : Verdict]
BatchState == [pending : Seq(Nat), chain : Seq(Seq(Nat)), timer : BOOLEAN,
               broken : {"no", "gone", "error"}]
ReaderState == [pc : {"off", "open", "closed"}, run : Run \cup {NoRun},
                seen : Seq(Nat), saw : Verdict \cup {"gone"}]

TypeOK ==
    /\ row \in [Run -> RowState]
    /\ latest \in Run \cup {NoRun}
    /\ log \in [Run -> Seq(Nat)]
    /\ stream \in [Run -> StreamState]
    /\ batch \in [Run -> BatchState]
    /\ poll \in [Run -> BOOLEAN]
    /\ inFlight \in [Proc -> SUBSET Run]
    /\ doomed \in [Proc -> SUBSET Run]
    /\ mode \in [Proc -> {"down", "up", "shutting", "closing", "hurried"}]
    /\ reader \in [Reader -> ReaderState]
    /\ faults \in 0..MaxFaults

---------------------------------------------------------------------------
(* ActiveChatRunModel *)

NoRow == [status |-> "absent", stop |-> FALSE, stale |-> FALSE, error |-> "none"]

Running(r) == row[r].status = "running"
Exists(r) == row[r].status \notin {"absent", "deleted"}

(* Mutant: the UPDATE is by id only. *)
Ended_Unguarded(t, s, why) ==
    [t EXCEPT !.status = s, !.error = why, !.stale = FALSE]

(* markTerminal and its two bulk forms: only a running row is ended. *)
Ended(t, s, why) ==
    IF t.status = "running"
    THEN [t EXCEPT !.status = s, !.error = why, !.stale = FALSE] ELSE t

(* markStaleRunningAsFailed, over the whole table. *)
Reaped == [r \in Run |->
             IF row[r].stale THEN Ended(row[r], "failed", "stale") ELSE row[r]]

Spend(f) == f \in Faults /\ faults > 0 /\ faults' = faults - 1

---------------------------------------------------------------------------
(* The event batcher *)

EmptyBatch == [pending |-> <<>>, chain |-> <<>>, timer |-> FALSE, broken |-> "no"]

(* flush: pending becomes the last batch of the promise chain. *)
Flushed(b) ==
    [b EXCEPT !.pending = <<>>, !.timer = FALSE,
              !.chain = IF b.pending = <<>> THEN @ ELSE Append(@, b.pending)]

(* write, up to its own flush. *)
Written(b, c) == [b EXCEPT !.pending = Append(@, c), !.timer = TRUE]

(* Mutant: the batches after a failed one are still stored. *)
Broken_Lenient(b, why) == [b EXCEPT !.chain = Tail(@)]

(* A rejected flush rejects every later one: nothing more is stored. *)
Broken(b, why) == [EmptyBatch EXCEPT !.broken = why]

Drained(r) == batch[r].chain = <<>>

---------------------------------------------------------------------------
(* Actors *)

NoStream == [owner |-> Nobody, pc |-> "none", read |-> 0, aborted |-> FALSE,
             verdict |-> "none"]
NoReader == [pc |-> "off", run |-> NoRun, seen |-> <<>>, saw |-> "none"]

At(r, pc) == stream[r].pc = pc
Owner(r) == stream[r].owner
Goto(r, pc) == stream' = [stream EXCEPT ![r].pc = pc]

(* The request is finished with; its process still owns the run. *)
Over(r) == [stream EXCEPT ![r] = [NoStream EXCEPT !.owner = Owner(r),
                                                  !.pc = "over"]]

Init ==
    /\ row = [r \in Run |-> NoRow]
    /\ latest = NoRun
    /\ log = [r \in Run |-> <<>>]
    /\ stream = [r \in Run |-> NoStream]
    /\ batch = [r \in Run |-> EmptyBatch]
    /\ poll = [r \in Run |-> FALSE]
    /\ inFlight = [p \in Proc |-> {}]
    /\ doomed = [p \in Proc |-> {}]
    /\ mode = [p \in Proc |-> "up"]
    /\ reader = [q \in Reader |-> NoReader]
    /\ faults = MaxFaults

---------------------------------------------------------------------------
(* createRun *)

(* A message is posted; a process that shuts down refuses it. *)
Post(p, r) ==
    /\ mode[p] = "up"
    /\ At(r, "none")
    /\ stream' = [stream EXCEPT ![r].owner = p, ![r].pc = "insert"]
    /\ UNCHANGED <<row, latest, log, batch, poll, process, reader, faults>>

(* The INSERT: the unique index admits one running row. *)
Insert(r) ==
    /\ At(r, "insert") \/ At(r, "again")
    /\ \A q \in Run : ~Running(q)
    /\ row' = [row EXCEPT ![r].status = "running"]
    /\ latest' = r
    /\ Goto(r, "register")
    /\ UNCHANGED <<log, batch, poll, process, reader, faults>>

(* A conflict: once more after reaping; the second time the post fails     *)
(* with 409.                                                               *)
Conflict(r) ==
    /\ \E q \in Run : Running(q)
    /\ \/ At(r, "insert") /\ Goto(r, "reap")
       \/ At(r, "again") /\ stream' = [stream EXCEPT ![r] = NoStream]
    /\ UNCHANGED <<row, latest, log, batch, poll, process, reader, faults>>

ReapFirst(r) ==
    /\ At(r, "reap")
    /\ \/ row' = Reaped /\ UNCHANGED faults
       \/ Spend("error") /\ UNCHANGED row
    /\ Goto(r, "again")
    /\ UNCHANGED <<latest, log, batch, poll, process, reader>>

(* Mutant: a shutdown that began during the INSERT is not noticed. *)
Register_Blind(r) ==
    /\ At(r, "register")
    /\ inFlight' = [inFlight EXCEPT ![Owner(r)] = @ \cup {r}]
    /\ Goto(r, "setup")
    /\ UNCHANGED <<row, latest, log, batch, poll, doomed, mode, reader, faults>>

(* registerCreatedRun. *)
Register(r) ==
    /\ At(r, "register")
    /\ inFlight' = [inFlight EXCEPT ![Owner(r)] = @ \cup {r}]
    /\ Goto(r, IF mode[Owner(r)] = "up" THEN "setup" ELSE "reject")
    /\ UNCHANGED <<row, latest, log, batch, poll, doomed, mode, reader, faults>>

(* The route prepares the turn, starts the stop polling and the stream.    *)
Begin(r) ==
    /\ At(r, "setup")
    /\ Goto(r, "read")
    /\ poll' = [poll EXCEPT ![r] = TRUE]
    /\ UNCHANGED <<row, latest, log, batch, process, reader, faults>>

SetupFails(r) ==
    /\ At(r, "setup")
    /\ Spend("error")
    /\ Goto(r, "fail")
    /\ UNCHANGED <<row, latest, log, batch, poll, process, reader>>

---------------------------------------------------------------------------
(* drainStreamToEvents *)

(* The next chunk: write it; a full batch, and an error chunk, are flushed *)
(* and waited for.                                                         *)
Read(r) ==
    LET c == stream[r].read + 1
        isError == Source[r][c] = "error"
        written == Written(batch[r], c)
        full == Len(written.pending) >= BatchSize
    IN  /\ At(r, "read")
        /\ batch[r].broken = "no"
        /\ c <= Len(Source[r])
        /\ batch' = [batch EXCEPT ![r] = IF isError \/ full THEN Flushed(written)
                                         ELSE written]
        /\ stream' = [stream EXCEPT ![r].read = c,
                                    ![r].pc = IF isError THEN "chunk"
                                              ELSE IF full THEN "full" ELSE "read"]
        /\ UNCHANGED <<row, latest, log, poll, process, reader, faults>>

(* EVENT_FLUSH_INTERVAL_MS after a write. *)
FlushTimer(r) ==
    /\ batch[r].timer
    /\ batch' = [batch EXCEPT ![r] = Flushed(@)]
    /\ UNCHANGED <<row, latest, log, stream, poll, process, reader, faults>>

(* appendEvents, the head of the chain.  The first flush after a silence   *)
(* touches the row as well.  The INSERT does not ask for the run's status. *)
AppendBatch(r) ==
    /\ ~Drained(r)
    /\ row[r].status # "deleted"
    /\ log' = [log EXCEPT ![r] = @ \o Head(batch[r].chain)]
    /\ row' = [row EXCEPT ![r].stale = FALSE]
    /\ batch' = [batch EXCEPT ![r].chain = Tail(@)]
    /\ UNCHANGED <<latest, stream, poll, process, reader, faults>>

(* The foreign key refuses it (the row is gone), or the statement fails.   *)
(* A drain that waits for the flush gets the error; one that reads has its *)
(* reader cancelled.                                                       *)
AppendFails(r) ==
    /\ ~Drained(r)
    /\ \/ /\ row[r].status = "deleted"
          /\ batch' = [batch EXCEPT ![r] = Broken(@, "gone")]
          /\ UNCHANGED faults
       \/ /\ row[r].status # "deleted"
          /\ Spend("error")
          /\ batch' = [batch EXCEPT ![r] = Broken(@, "error")]
    /\ Goto(r, IF At(r, "salvage") THEN "fail" ELSE "catch")
    /\ UNCHANGED <<row, latest, log, poll, process, reader>>

Continue(r) ==
    /\ At(r, "full")
    /\ Drained(r)
    /\ Goto(r, "read")
    /\ UNCHANGED <<row, latest, log, batch, poll, process, reader, faults>>

(* The service's markTerminal: the UPDATE resolves, then the id leaves the *)
(* in-flight set.                                                          *)
MarkTerminal(r, s, why) ==
    /\ row' = [row EXCEPT ![r] = Ended(@, s, why)]
    /\ inFlight' = [inFlight EXCEPT ![Owner(r)] = @ \ {r}]

(* The error chunk is stored: the run fails now; reading goes on. *)
MarkChunk(r) ==
    /\ At(r, "chunk")
    /\ Drained(r)
    /\ MarkTerminal(r, "failed", "chunk")
    /\ Goto(r, "read")
    /\ UNCHANGED <<latest, log, batch, poll, doomed, mode, reader, faults>>

(* The stream ends, by itself or because it was aborted; its onFinish      *)
(* stops the polling.                                                      *)
EndOfStream(r) ==
    /\ At(r, "read")
    /\ batch[r].broken = "no"
    /\ stream[r].read = Len(Source[r]) \/ stream[r].aborted
    /\ batch' = [batch EXCEPT ![r] = Flushed(@)]
    /\ Goto(r, "end")
    /\ poll' = [poll EXCEPT ![r] = FALSE]
    /\ UNCHANGED <<row, latest, log, process, reader, faults>>

StreamFails(r) ==
    /\ At(r, "read")
    /\ Spend("error")
    /\ Goto(r, "catch")
    /\ UNCHANGED <<row, latest, log, batch, poll, process, reader>>

(* Mutant: the status that the row has is taken for the outcome. *)
TerminalStatus_Row(r) == row[r].status

(* The route's getTerminalStatus. *)
TerminalStatus(r) ==
    CASE row[r].stop -> "cancelled"
      [] ~row[r].stop /\ \E i \in 1..stream[r].read : Source[r][i] = "error" ->
            "failed"
      [] ~row[r].stop /\ ~(\E i \in 1..stream[r].read : Source[r][i] = "error") ->
            IF stream[r].aborted THEN "cancelled" ELSE "completed"

ReadStatus(r) ==
    /\ At(r, "end")
    /\ Drained(r)
    /\ stream' = [stream EXCEPT ![r].verdict = TerminalStatus(r),
                                ![r].pc = "mark"]
    /\ UNCHANGED <<row, latest, log, batch, poll, process, reader, faults>>

(* The last markTerminal of each path. *)
Mark(r) ==
    /\ \/ /\ At(r, "mark")
          /\ MarkTerminal(r, stream[r].verdict,
                          IF stream[r].verdict = "failed" THEN "chunk" ELSE "none")
       \/ At(r, "fail") /\ MarkTerminal(r, "failed", "drain")
       \/ At(r, "gone") /\ MarkTerminal(r, "cancelled", "none")
       \/ At(r, "reject") /\ MarkTerminal(r, "failed", "shutdown")
    /\ stream' = Over(r)
    /\ UNCHANGED <<latest, log, batch, poll, doomed, mode, reader, faults>>

(* One of the drain's own statements throws, before the catch. *)
DrainThrows(r) ==
    /\ \/ At(r, "chunk") /\ Drained(r)
       \/ At(r, "end") /\ Drained(r)
       \/ At(r, "mark")
    /\ Spend("error")
    /\ Goto(r, "catch")
    /\ UNCHANGED <<row, latest, log, batch, poll, process, reader>>

(* The last markTerminal throws: nobody is left to end the run here. *)
MarkThrows(r) ==
    /\ At(r, "fail") \/ At(r, "gone") \/ At(r, "reject")
    /\ Spend("error")
    /\ stream' = Over(r)
    /\ UNCHANGED <<row, latest, log, batch, poll, process, reader>>

(* The drain's catch: abort, which ends the polling, and try to store what *)
(* is left.                                                                *)
Catch(r) ==
    /\ At(r, "catch")
    /\ batch' = [batch EXCEPT ![r] = IF @.broken = "no" THEN Flushed(@) ELSE @]
    /\ stream' = [stream EXCEPT
                    ![r].aborted = TRUE,
                    ![r].pc = CASE batch[r].broken = "gone" -> "gone"
                                [] batch[r].broken = "error" -> "fail"
                                [] batch[r].broken = "no" -> "salvage"]
    /\ poll' = [poll EXCEPT ![r] = FALSE]
    /\ UNCHANGED <<row, latest, log, process, reader, faults>>

Salvaged(r) ==
    /\ At(r, "salvage")
    /\ Drained(r)
    /\ Goto(r, "fail")
    /\ UNCHANGED <<row, latest, log, batch, poll, process, reader, faults>>

---------------------------------------------------------------------------
(* Stop requests *)

(* A Stop, or the deletion of the conversation, handled by process p: the  *)
(* owner's stream is aborted at once, another process's is notified.       *)
RequestStop(p) ==
    /\ mode[p] = "up"
    /\ Spend("stop")
    /\ \E r \in Run :
          /\ Running(r)
          /\ row' = [row EXCEPT ![r].stop = TRUE, ![r].stale = FALSE]
          /\ stream' = [stream EXCEPT ![r].aborted =
                          @ \/ (Owner(r) = p /\ poll[r])]
    /\ UNCHANGED <<latest, log, batch, poll, process, reader>>

(* Mutant: one look only. *)
PollStop_Once(r) ==
    /\ poll[r]
    /\ stream' = [stream EXCEPT ![r].aborted =
                    @ \/ row[r].stop \/ row[r].status = "deleted"]
    /\ poll' = [poll EXCEPT ![r] = FALSE]
    /\ UNCHANGED <<row, latest, log, batch, process, reader, faults>>

(* A turn of the stop polling: woken by a notification or the timeout, it  *)
(* reads the row.  A turn that finds nothing to do, or throws, changes     *)
(* nothing.                                                                *)
PollStop(r) ==
    /\ poll[r]
    /\ stream[r].aborted \/ row[r].stop \/ row[r].status = "deleted"
    /\ stream' = [stream EXCEPT ![r].aborted = TRUE]
    /\ poll' = [poll EXCEPT ![r] = FALSE]
    /\ UNCHANGED <<row, latest, log, batch, process, reader, faults>>

(* cancelRunForRestoredConversation. *)
Restore ==
    /\ Spend("restore")
    /\ \E r \in Run :
          /\ Running(r)
          /\ row' = [row EXCEPT ![r] = Ended(@, "cancelled", "none")]
    /\ UNCHANGED <<latest, log, drain, process, reader>>

(* The conversation is deleted for good, or the retention of its terminal  *)
(* runs is over: the events go with the rows.                              *)
DeleteRows ==
    /\ Spend("delete")
    /\ \E gone \in {{r \in Run : Exists(r)},
                   {r \in Run : row[r].status \in Terminal}} :
          /\ gone # {}
          /\ row' = [r \in Run |-> IF r \in gone
                                  THEN [NoRow EXCEPT !.status = "deleted"]
                                  ELSE row[r]]
          /\ log' = [r \in Run |-> IF r \in gone THEN <<>> ELSE log[r]]
    /\ UNCHANGED <<latest, drain, process, reader>>

---------------------------------------------------------------------------
(* Time, processes *)

(* Ten minutes without an UPDATE: nobody drains the run, or its stream is  *)
(* silent (a long tool call) and nothing waits to be stored.               *)
GoStale(r) ==
    /\ Running(r)
    /\ ~row[r].stale
    /\ \/ Owner(r) = Nobody
       \/ At(r, "over") \/ At(r, "setup")
       \/ At(r, "read") /\ batch[r] = EmptyBatch
    /\ row' = [row EXCEPT ![r].stale = TRUE]
    /\ UNCHANGED <<latest, log, drain, process, reader, faults>>

(* Mutant: a process looks after its own runs only. *)
Reap_Own(p) ==
    /\ mode[p] = "up"
    /\ \E r \in inFlight[p] : Running(r) /\ row[r].stale
    /\ row' = [r \in Run |-> IF r \in inFlight[p] THEN Reaped[r] ELSE row[r]]
    /\ UNCHANGED <<latest, log, drain, process, reader, faults>>

(* reapStaleRuns, in every process. *)
Reap(p) ==
    /\ mode[p] = "up"
    /\ \E r \in Run : Running(r) /\ row[r].stale
    /\ row' = Reaped
    /\ UNCHANGED <<latest, log, drain, process, reader, faults>>

(* beginShutdown, and in the same tick the snapshot of failInFlightRuns.   *)
BeginShutdown(p) ==
    /\ mode[p] = "up"
    /\ Spend("shutdown")
    /\ mode' = [mode EXCEPT ![p] = "shutting"]
    /\ doomed' = [doomed EXCEPT ![p] = inFlight[p]]
    /\ UNCHANGED <<row, latest, log, drain, inFlight, reader>>

(* markRunningAsFailedByIds, and the ids it was given are forgotten; or it *)
(* throws, or takes longer than the shutdown waits.                        *)
FailInFlight(p) ==
    /\ mode[p] = "shutting"
    /\ \/ /\ row' = [r \in Run |->
                       IF r \in doomed[p] THEN Ended(row[r], "failed", "shutdown")
                       ELSE row[r]]
          /\ inFlight' = [inFlight EXCEPT ![p] = @ \ doomed[p]]
          /\ mode' = [mode EXCEPT ![p] = "closing"]
          /\ UNCHANGED faults
       \/ /\ Spend("error")
          /\ mode' = [mode EXCEPT ![p] = "hurried"]
          /\ UNCHANGED <<row, inFlight>>
    /\ doomed' = [doomed EXCEPT ![p] = {}]
    /\ UNCHANGED <<latest, log, drain, reader>>

(* The process and its streams are gone.  A post still being created has   *)
(* no row, or a row that waits for the reaper.                             *)
Vanish(p) ==
    /\ mode' = [mode EXCEPT ![p] = "down"]
    /\ inFlight' = [inFlight EXCEPT ![p] = {}]
    /\ doomed' = [doomed EXCEPT ![p] = {}]
    /\ stream' = [r \in Run |->
                    IF Owner(r) # p THEN stream[r]
                    ELSE IF row[r].status = "absent" THEN NoStream
                    ELSE [NoStream EXCEPT !.pc = "over"]]
    /\ batch' = [r \in Run |-> IF Owner(r) = p THEN EmptyBatch ELSE batch[r]]
    /\ poll' = [r \in Run |-> poll[r] /\ Owner(r) # p]

(* fastify.close() waits for the handlers that have not replied yet; a     *)
(* stream that still runs then is cut off.                                 *)
Exit(p) ==
    /\ mode[p] \in {"closing", "hurried"}
    /\ \A r \in Run : Owner(r) = p => stream[r].pc \notin Creating
    /\ Vanish(p)
    /\ UNCHANGED <<row, latest, log, reader, faults>>

Crash(p) ==
    /\ mode[p] # "down"
    /\ Spend("crash")
    /\ Vanish(p)
    /\ UNCHANGED <<row, latest, log, reader>>

Boot(p) ==
    /\ mode[p] = "down"
    /\ mode' = [mode EXCEPT ![p] = "up"]
    /\ UNCHANGED <<row, latest, log, drain, inFlight, doomed, reader, faults>>

---------------------------------------------------------------------------
(* Replay *)

(* findReplayableByConversation: the most recent run, unless cancelled. *)
Attach(q) ==
    /\ reader[q].pc = "off"
    /\ latest # NoRun
    /\ Exists(latest)
    /\ row[latest].status # "cancelled"
    /\ reader' = [reader EXCEPT ![q].pc = "open", ![q].run = latest]
    /\ UNCHANGED <<row, latest, log, drain, process, faults>>

(* What a turn of a reader of run r gets from one snapshot of status and   *)
(* events.                                                                 *)
Snapshot(r, seen) ==
    [run |-> r,
     seen |-> IF Exists(r) THEN log[r] ELSE seen,
     pc |-> IF Running(r) THEN "open" ELSE "closed",
     saw |-> CASE Running(r) -> "none"
               [] row[r].status \in Terminal -> row[r].status
               [] ~Exists(r) -> "gone"]

(* Mutant: status and events of two snapshots, the events first. *)
Look_TwoReads(q) ==
    /\ reader[q].pc = "open"
    /\ \E n \in Len(reader[q].seen)..Len(log[reader[q].run]) :
          reader' = [reader EXCEPT ![q] =
                       [Snapshot(@.run, @.seen) EXCEPT
                          !.seen = SubSeq(log[reader[q].run], 1, n)]]
    /\ UNCHANGED <<row, latest, log, drain, process, faults>>

(* Mutant: only a notification wakes the reader, and it may be lost. *)
Look_OnNotify(q) ==
    /\ reader[q].pc = "open"
    /\ ~Drained(reader[q].run)
    /\ reader' = [reader EXCEPT ![q] = Snapshot(@.run, @.seen)]
    /\ UNCHANGED <<row, latest, log, drain, process, faults>>

(* A turn of the replay, at first or when a notification or the timeout    *)
(* wakes it: readStatusAndEventsAfter, and close on a terminal status.     *)
Look(q) ==
    /\ reader[q].pc = "open"
    /\ reader' = [reader EXCEPT ![q] = Snapshot(@.run, @.seen)]
    /\ UNCHANGED <<row, latest, log, drain, process, faults>>

---------------------------------------------------------------------------
(* The specification *)

(* The drain's own progress, once it has something to do. *)
DrainStep(r) ==
    \/ Insert(r) \/ Conflict(r) \/ ReapFirst(r) \/ Register(r)
    \/ Begin(r) \/ SetupFails(r)
    \/ FlushTimer(r) \/ AppendBatch(r) \/ AppendFails(r)
    \/ Continue(r) \/ MarkChunk(r) \/ ReadStatus(r) \/ Mark(r)
    \/ DrainThrows(r) \/ MarkThrows(r) \/ Catch(r) \/ Salvaged(r)

StreamStep(r) == Read(r) \/ EndOfStream(r) \/ StreamFails(r)

ProcStep(p) ==
    \/ (\E r \in Run : Post(p, r))
    \/ RequestStop(p) \/ Reap(p)
    \/ BeginShutdown(p) \/ FailInFlight(p) \/ Exit(p) \/ Crash(p) \/ Boot(p)

ReaderStep(q) == Attach(q) \/ Look(q)

Next == \/ \E p \in Proc : ProcStep(p)
        \/ \E r \in Run : DrainStep(r) \/ StreamStep(r) \/ PollStop(r)
                          \/ GoStale(r)
        \/ \E q \in Reader : ReaderStep(q)
        \/ Restore \/ DeleteRows

Spec == Init /\ [][Next]_vars

(* Statements settle, timers fire, a process that is down is restarted and *)
(* every process has its reaper.  Nothing makes the model's stream speak   *)
(* or end: a stream that is wedged goes stale.                             *)
Fairness ==
    /\ \A r \in Run : /\ WF_vars(DrainStep(r))
                      /\ WF_vars(PollStop(r))
                      /\ WF_vars(GoStale(r))
    /\ \A p \in Proc : WF_vars(FailInFlight(p) \/ Exit(p) \/ Boot(p))
    /\ SF_vars(\E p \in Proc : Reap(p))
    /\ \A q \in Reader : WF_vars(Look(q))

FairSpec == Spec /\ Fairness
---------------------------------------------------------------------------
(* Properties *)

(* The event log is the stream's beginning, without a gap or a repetition, *)
(* although timer, full batch, error chunk, end and catch all flush, and a *)
(* flush may fail while others are queued behind it.                       *)
LogInOrder == \A r \in Run : \A i \in DOMAIN log[r] : log[r][i] = i

(* A reader whose stream closes on a completed run has been given every    *)
(* chunk of the run, whenever it attached and whatever it slept through.   *)
ReplayWhole ==
    \A q \in Reader : reader[q].saw = "completed" =>
        Len(reader[q].seen) = Len(Source[reader[q].run])

(* The drain, the reaper, a restore and a shutdown may all end a run: the  *)
(* first of them decides, and a late one changes neither status nor error. *)
TerminalStays ==
    [][\A r \in Run : row[r].status \in Terminal =>
          \/ row[r].status = row'[r].status /\ row[r].error = row'[r].error
          \/ row'[r].status = "deleted"]_vars

(* An orderly shutdown whose clean-up succeeded leaves no run of its       *)
(* process running, unless the very statement that should have ended it    *)
(* failed meanwhile: no run slips between its creation and the snapshot,   *)
(* and none is lost that failed to end before.                             *)
ShutdownLeavesNothing ==
    [][\A p \in Proc : Exit(p) /\ mode[p] = "closing" =>
          \A r \in Run : Running(r) /\ Owner(r) = p =>
              At(r, "over") /\ r \in inFlight[p]]_vars

(* A stop request reaches the stream it is meant for, in whichever process *)
(* it runs and even if it was made before the polling began.               *)
StopObeyed ==
    \A r \in Run : row[r].stop /\ At(r, "read")
                      ~> stream[r].aborted \/ ~At(r, "read")

(* No run keeps its conversation blocked for ever. *)
RunsEnd == \A r \in Run : Running(r) ~> ~Running(r)

(* A replay ends, with no notification ever needing to arrive. *)
ReplayEnds == \A q \in Reader : reader[q].pc = "open" ~> reader[q].pc = "closed"
=============================================================================
