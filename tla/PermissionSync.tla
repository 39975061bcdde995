-------------------------- MODULE PermissionSync ---------------------------
(***************************************************************************)
(* The permission-sync pass of one connector: it copies who may read what  *)
(* from the source of the connector, one audience per container and one    *)
(* container per document, while the source changes, settings are edited,  *)
(* passes are superseded or declared dead, and workers die.                *)
(*                                                                         *)
(* The rows of connector_runs of the permission family are reduced to the  *)
(* running one and to what the last ended one left to resume.  What an     *)
(* audience says is its version.  Group memberships, principals granted on *)
(* a document itself, containers nested in others, and the ingestion of    *)
(* documents are left out: every document is there from the start.  How    *)
(* the queue delivers a task is module TaskQueue's subject.                *)
(***************************************************************************)
EXTENDS Integers, FiniteSets

CONSTANTS
    Exec,       \* executions of the permission_sync handler alive at once
    Top,        \* containers of the source, in the order of their keys
    Doc,        \* documents ingested from it
    Level,      \* visibilities under which every document has the same ACL
    Surface,    \* where settings are edited: "rest", "bulk", "tool"
    Event,      \* what happens from outside: "change", "delete", "update",
                \* "crash", "stall", "error" ...
    MaxEvents   \* bound: ... and how often, in all

Container == 1..Top
Nowhere == 0  \* no container; for a document: not visible in the source
AutoSync == "auto-sync-permissions"
Closed == "closed"        \* acl = []
Shared == "container"     \* acl = [the token of its container_key]
Cursor == -1..Top         \* -1: no checkpoint; Nowhere: one without a cursor
NoCheckpoint == -1
Free == "free"            \* no running permission run
Lost == "lost"            \* running, but its worker is dead

ASSUME PermissionAssumption ==
    /\ Top \in Nat
    /\ {AutoSync, Closed, Shared} \cap Level = {}
    /\ {Free, Lost} \cap Exec = {}
    /\ Surface \subseteq {"rest", "bulk", "tool"}
    /\ MaxEvents \in Nat

VARIABLES
    live,      \* containers that exist in the source
    at,        \* at[d]: the container the source has document d in
    version,   \* version[c]: of the audience of c
    acl,       \* acl[d]: of the row of kb_documents and of its chunks
    key,       \* key[d]: its container_key
    held,      \* held[c]: version in the row of kb_container_acls; 0: no row
    stale,     \* containers whose row carries the stale mark
    conn,      \* the connector's row
    update,    \* a request that edits the settings, between two statements
    run,       \* the running permission run
    resumable, \* checkpoint of the last ended run, if that one is partial
    pass,      \* pass[e]: an execution of the handler
    queued,    \* a permission_sync task is pending
    orphan,    \* one is processing, and its worker is dead
    chain,     \* history: what the success of the pass in hand is worth
    left       \* events still to come

source == <<live, at, version>>
store == <<acl, key, held, stale>>
tasks == <<queued, orphan>>
vars == <<source, store, conn, update, run, resumable, pass, tasks, chain, left>>

ConnRow == [vis : Level \cup {AutoSync}, epoch : Nat, edits : Nat,
            applied : Nat, fullDue : BOOLEAN]
UpdatePC == {"none", "bump", "overwrite", "clear", "enqueue", "stop", "queue"}
Update == [pc : UpdatePC, was : Level \cup {AutoSync}, by : {"rest", "bulk", "tool"},
           edit : BOOLEAN]
Mode == {"full", "blind", "delta"} \* "blind": full, because the probe failed
PassPC == {"claim", "begin", "refresh", "rewrite", "mark", "next", "assert",
           "assign", "upsert", "sweep", "drop", "finalize", "publish"}
Pass == [pc : PassPC \cup {"idle"}, tracked : BOOLEAN, epoch : Nat, edits : Nat,
         due : BOOLEAN, from : Cursor, mode : Mode, scope : SUBSET Container,
         unit : 0..Top, next : 0..Top, heard : [Container -> Nat],
         seen : SUBSET Doc, pending : SUBSET Doc, progressed : BOOLEAN]

TypeOK ==
    /\ live \subseteq Container
    /\ at \in [Doc -> 0..Top]
    /\ version \in [Container -> Nat \ {0}]
    /\ acl \in [Doc -> Level \cup {Closed, Shared}]
    /\ key \in [Doc -> 0..Top]
    /\ held \in [Container -> Nat]
    /\ stale \subseteq Container
    /\ conn \in ConnRow
    /\ update \in Update
    /\ run \in [owner : Exec \cup {Free, Lost}, cursor : Cursor]
    /\ resumable \in Cursor
    /\ pass \in [Exec -> Pass]
    /\ queued \in BOOLEAN /\ orphan \in BOOLEAN
    /\ chain \in {"nothing", "delta", "full"}
    /\ left \in 0..MaxEvents

Nothing == [c \in Container |-> 0]
Idle == [pc |-> "idle", tracked |-> FALSE, epoch |-> 0, edits |-> 0, due |-> FALSE,
         from |-> NoCheckpoint, mode |-> "full", scope |-> {}, unit |-> Nowhere,
         next |-> Nowhere, heard |-> Nothing, seen |-> {}, pending |-> {},
         progressed |-> FALSE]
NoUpdate == [pc |-> "none", was |-> AutoSync, by |-> "rest", edit |-> FALSE]
NoRun == [owner |-> Free, cursor |-> NoCheckpoint]

(* A connector whose documents a first pass has yet to place, or one that  *)
(* a pass has just brought up to date.                                     *)
Init ==
    /\ live = Container
    /\ at \in [Doc -> Container]
    /\ version = [c \in Container |-> 1]
    /\ \E settled \in BOOLEAN :
         /\ acl = [d \in Doc |-> IF settled THEN Shared ELSE Closed]
         /\ key = IF settled THEN at ELSE [d \in Doc |-> Nowhere]
         /\ held = IF settled THEN version ELSE Nothing
         /\ conn = [vis |-> AutoSync, epoch |-> 0, edits |-> 0, applied |-> 0,
                    fullDue |-> ~settled]
    /\ stale = {}
    /\ update = NoUpdate
    /\ run = NoRun
    /\ resumable = NoCheckpoint
    /\ pass = [e \in Exec |-> Idle]
    /\ queued = FALSE /\ orphan = FALSE
    /\ chain = "nothing"
    /\ left = MaxEvents

---------------------------------------------------------------------------
(* Derived state *)

At(e, pc) == pass[e].pc = pc
Set(e, p) == pass' = [pass EXCEPT ![e] = p]
Goto(e, pc) == Set(e, [pass[e] EXCEPT !.pc = pc])
Leave(e) == Set(e, Idle)

(* Mutant: some pass owns a run, this one or another. *)
Owns_Any(e) == run.owner \in Exec

(* The fence of a run: it is running, under the lease epoch of this pass.  *)
Owns(e) == run.owner = e

(* hasPendingOrProcessing, findActivePayloadValues                         *)
Active == queued \/ orphan \/ \E e \in Exec : pass[e].tracked

(* Mutant: the ACL epoch is not compared. *)
Current_Always(e) == e \in Exec

(* The fence of an ACL: acl_config_epoch is still the one the pass read.   *)
Current(e) == pass[e].epoch = conn.epoch

Placed(d, c) == acl[d] = Shared /\ key[d] = c
Place(docs, c) ==
    /\ acl' = [d \in Doc |-> IF d \in docs THEN Shared ELSE acl[d]]
    /\ key' = [d \in Doc |-> IF d \in docs THEN c ELSE key[d]]

(* failCloseDocuments keeps container_key, and is fenced by the ACL epoch. *)
FailClose(e, docs) ==
    acl' = [d \in Doc |-> IF d \in docs /\ Current(e) THEN Closed ELSE acl[d]]

(* History: a pass, with the interrupted ones it resumes, has the source   *)
(* and the store for itself until something from outside disturbs it, such *)
(* as a write of a pass that has lost its run.                             *)
Disturb == chain' = "nothing"
Wrote(e) == IF Owns(e) THEN UNCHANGED chain ELSE Disturb

Spend(event) == event \in Event /\ left > 0 /\ left' = left - 1

---------------------------------------------------------------------------
(* A pass: permission_sync handler and executePass *)

(* Dequeue, and the read of the connector.  A task of a connector that     *)
(* does not sync permissions completes at once.                            *)
Start(e) ==
    /\ At(e, "idle") /\ queued
    /\ queued' = FALSE
    /\ IF conn.vis = AutoSync
       THEN Set(e, [Idle EXCEPT !.pc = "claim", !.tracked = TRUE,
                                !.epoch = conn.epoch, !.edits = conn.edits,
                                !.due = conn.fullDue])
       ELSE UNCHANGED pass
    /\ UNCHANGED <<source, store, conn, update, run, resumable, orphan, chain, left>>

(* The insert into connector_runs, and the checkpoint it adopts.           *)
Claim(e) ==
    /\ At(e, "claim") /\ run.owner = Free
    /\ run' = [NoRun EXCEPT !.owner = e]
    /\ Set(e, [pass[e] EXCEPT !.pc = "begin", !.from = resumable])
    /\ UNCHANGED <<source, store, conn, update, resumable, tasks, chain, left>>

ClaimBusy(e) ==
    /\ At(e, "claim") /\ run.owner # Free
    /\ Leave(e)
    /\ UNCHANGED <<source, store, conn, update, run, resumable, tasks, chain, left>>

(* Mutant: the age of the last full reconcile does not count. *)
ModeFor_Undue(e, answer) ==
    IF answer = "failed" THEN "blind"
    ELSE IF answer = "scoped" /\ pass[e].from = NoCheckpoint THEN "delta"
    ELSE "full"

(* The probe answers, fails, or asks for a full reconcile.                 *)
ModeFor(e, answer) ==
    IF answer = "failed" THEN "blind"
    ELSE IF answer = "scoped" /\ ~pass[e].due /\ pass[e].from = NoCheckpoint THEN "delta"
    ELSE "full"

(* What a probe finds is lossy, so a delta may be scoped to any containers;*)
(* among them those of the documents no pass has placed yet.               *)
ScopeFor(e, mode) ==
    IF mode = "delta" THEN SUBSET Container
    ELSE {{c \in Container : c >= pass[e].from}}

(* The first fenced checkpoint, under the mode that was decided.           *)
Decide(e, mode, scope) ==
    LET resumes == pass[e].from > Nowhere IN
    IF Owns(e)
    THEN /\ run' = [run EXCEPT !.cursor = IF resumes THEN pass[e].from ELSE Nowhere]
         /\ Set(e, [pass[e] EXCEPT
               !.pc = IF mode = "delta" THEN "refresh"
                      ELSE IF resumes THEN "next" ELSE "mark",
               !.mode = mode, !.scope = scope, !.due = FALSE, !.from = NoCheckpoint])
         /\ chain' = IF ~Current(e) \/ conn.vis # AutoSync THEN "nothing"
                     ELSE IF resumes THEN chain
                     ELSE IF mode = "delta" THEN "delta" ELSE "full"
    ELSE Leave(e) /\ UNCHANGED <<run, chain>>

Begin(e) ==
    /\ At(e, "begin")
    /\ \E answer \in {"scoped", "full", "failed"} :
         /\ \/ answer # "failed" /\ UNCHANGED left
            \/ answer = "failed" /\ Spend("error")
         /\ \E scope \in ScopeFor(e, ModeFor(e, answer)) :
              Decide(e, ModeFor(e, answer), scope)
    /\ UNCHANGED <<source, store, conn, update, resumable, tasks>>

(* refreshStoredContainerAudiences of a conservative probe: it resolves    *)
(* every stored container that still exists ...                            *)
Refresh(e) ==
    /\ At(e, "refresh")
    /\ Set(e, [pass[e] EXCEPT !.pc = "rewrite", !.heard =
          [c \in Container |-> IF c \in live /\ held[c] > 0 THEN version[c] ELSE 0]])
    /\ UNCHANGED <<source, store, conn, update, run, resumable, tasks, chain, left>>

(* ... and writes those that changed, in one fenced statement; an          *)
(* unchanged row keeps a mark it carries.                                  *)
Rewrite(e) ==
    LET changed == {c \in Container : pass[e].heard[c] \notin {0, held[c]}} IN
    /\ At(e, "rewrite")
    /\ IF changed # {} /\ ~Owns(e)
       THEN Leave(e) /\ UNCHANGED <<held, stale>>
       ELSE /\ held' = [c \in Container |-> IF c \in changed THEN pass[e].heard[c]
                                                            ELSE held[c]]
            /\ stale' = stale \ changed
            /\ Set(e, [pass[e] EXCEPT !.pc = "next", !.heard = Nothing])
    /\ UNCHANGED <<source, acl, key, conn, update, run, resumable, tasks, chain, left>>

(* markStaleByConnector, without a fence.                                  *)
Mark(e) ==
    /\ At(e, "mark")
    /\ stale' = {c \in Container : held[c] > 0}
    /\ Goto(e, "next")
    /\ Wrote(e)
    /\ UNCHANGED <<source, acl, key, held, conn, update, run, resumable, tasks, left>>

(* The enumeration yields the next container, with its audience; the unit  *)
(* before it is closed first.                                              *)
Coming(e) == pass[e].scope \cap live

Yield(e) ==
    /\ At(e, "next")
    /\ \E c \in Coming(e) :
         /\ \A o \in Coming(e) : c <= o
         /\ Set(e, [pass[e] EXCEPT
               !.pc = IF pass[e].unit # Nowhere THEN "assert" ELSE "upsert",
               !.next = c, !.scope = {o \in @ : o > c},
               !.heard = [Nothing EXCEPT ![c] = version[c]]])
    /\ UNCHANGED <<source, store, conn, update, run, resumable, tasks, chain, left>>

(* It ends, and closes the last unit.                                      *)
Enumerated(e) == IF pass[e].mode = "delta" THEN "finalize" ELSE "sweep"

Exhaust(e) ==
    /\ At(e, "next") /\ Coming(e) = {}
    /\ Set(e, [pass[e] EXCEPT
          !.pc = IF pass[e].unit # Nowhere THEN "assert" ELSE Enumerated(e),
          !.next = Nowhere, !.scope = {}, !.heard = Nothing])
    /\ UNCHANGED <<source, store, conn, update, run, resumable, tasks, chain, left>>

(* assertStillOwnsRun, before the writes of finishUnit.                    *)
AssertStillOwnsRun(e) ==
    /\ At(e, "assert")
    /\ IF Owns(e) THEN Goto(e, "assign") ELSE Leave(e)
    /\ UNCHANGED <<source, store, conn, update, run, resumable, tasks, chain, left>>

(* flushAssignments: applyContainerAssignment of one document.             *)
Assign(e) ==
    /\ At(e, "assign")
    /\ \E d \in pass[e].pending :
         /\ Set(e, [pass[e] EXCEPT !.pending = @ \ {d}])
         /\ Place(IF Current(e) THEN {d} ELSE {}, pass[e].unit)
    /\ Wrote(e)
    /\ UNCHANGED <<source, held, stale, conn, update, run, resumable, tasks, left>>

(* failCloseMissingInScope of the unit, and the checkpoint after it.       *)
FinishUnit(e) ==
    /\ At(e, "assign") /\ pass[e].pending = {}
    /\ FailClose(e, {d \in Doc : key[d] = pass[e].unit /\ d \notin pass[e].seen})
    /\ IF Owns(e)
       THEN /\ run' = [run EXCEPT !.cursor = pass[e].unit]
            /\ Set(e, [pass[e] EXCEPT !.progressed = TRUE, !.seen = {}, !.unit = Nowhere,
                  !.pc = IF pass[e].next # Nowhere THEN "upsert" ELSE Enumerated(e)])
       ELSE Leave(e) /\ UNCHANGED run
    /\ Wrote(e)
    /\ UNCHANGED <<source, key, held, stale, conn, update, resumable, tasks, left>>

(* Mutant: an audience as it was is not written, whatever its mark. *)
Differs_Unmarked(e, c) == held[c] # pass[e].heard[c]

(* upsertContainers skips a row that is as the source has it, and unmarked.*)
Differs(e, c) == held[c] # pass[e].heard[c] \/ c \in stale

(* upsertContainers of one container; its documents are enumerated next.   *)
Upsert(e) ==
    LET c == pass[e].next
        written == IF Differs(e, c) THEN {c} ELSE {}
    IN
    /\ At(e, "upsert")
    /\ IF written # {} /\ ~Owns(e)
       THEN Leave(e) /\ UNCHANGED <<held, stale>>
       ELSE /\ held' = [held EXCEPT ![c] = pass[e].heard[c]]
            /\ stale' = stale \ written
            /\ Set(e, [pass[e] EXCEPT !.pc = "next", !.unit = c, !.next = Nowhere,
                  !.heard = Nothing, !.seen = {d \in Doc : at[d] = c},
                  !.pending = {d \in Doc : at[d] = c}])
    /\ UNCHANGED <<source, acl, key, conn, update, run, resumable, tasks, chain, left>>

(* sweepVanishedContainers: close what is assigned to a marked container,  *)
(* then delete the rows that are marked by then.  Nothing fences the       *)
(* second; the sweep of documents never placed follows it.                 *)
Sweep(e) ==
    /\ At(e, "sweep")
    /\ FailClose(e, {d \in Doc : key[d] \in stale})
    /\ Goto(e, "drop")
    /\ Wrote(e)
    /\ UNCHANGED <<source, key, held, stale, conn, update, run, resumable, tasks, left>>

Drop(e) ==
    /\ At(e, "drop")
    /\ held' = [c \in Container |-> IF c \in stale THEN 0 ELSE held[c]]
    /\ stale' = {}
    /\ FailClose(e, {d \in Doc : key[d] = Nowhere})
    /\ Goto(e, "finalize")
    /\ Wrote(e)
    /\ UNCHANGED <<source, key, conn, update, run, resumable, tasks, left>>

(* finishSuccessfulPass: the fenced end of the run, then the probe's state *)
(* and the time of the last full reconcile, if the probe had answered.     *)
Finalize(e) ==
    /\ At(e, "finalize")
    /\ IF Owns(e)
       THEN /\ run' = NoRun
            /\ resumable' = NoCheckpoint
            /\ conn' = [conn EXCEPT !.applied = pass[e].edits]
            /\ Goto(e, "publish")
       ELSE Leave(e) /\ UNCHANGED <<run, resumable, conn>>
    /\ UNCHANGED <<source, store, update, tasks, chain, left>>

Publish(e) ==
    /\ At(e, "publish")
    /\ conn' = [conn EXCEPT !.fullDue = @ /\ pass[e].mode # "full"]
    /\ Leave(e)
    /\ UNCHANGED <<source, store, update, run, resumable, tasks, chain, left>>

(* An error of the source or of the database: the run ends partial if a    *)
(* unit was finished, and failed otherwise; after a partial result, even   *)
(* of a run that is lost, the handler may enqueue a continuation.          *)
Throw(e) ==
    /\ pass[e].pc \in PassPC \ {"claim", "publish"}
    /\ Spend("error")
    /\ IF Owns(e)
       THEN /\ run' = NoRun
            /\ resumable' = IF pass[e].progressed THEN run.cursor ELSE NoCheckpoint
       ELSE UNCHANGED <<run, resumable>>
    /\ queued' \in {queued, queued \/ pass[e].progressed}
    /\ Leave(e)
    /\ UNCHANGED <<source, store, conn, update, orphan, chain>>

(* Its worker dies.                                                        *)
Crash(e) ==
    /\ ~At(e, "idle")
    /\ Spend("crash")
    /\ Leave(e)
    /\ orphan' = (orphan \/ pass[e].tracked)
    /\ run' = IF Owns(e) THEN [run EXCEPT !.owner = Lost] ELSE run
    /\ UNCHANGED <<source, store, conn, update, resumable, queued, chain>>

PassStep(e) ==
    \/ Claim(e) \/ ClaimBusy(e) \/ Begin(e) \/ Refresh(e) \/ Rewrite(e) \/ Mark(e)
    \/ Yield(e) \/ Exhaust(e) \/ AssertStillOwnsRun(e) \/ Assign(e) \/ FinishUnit(e)
    \/ Upsert(e) \/ Sweep(e) \/ Drop(e) \/ Finalize(e) \/ Publish(e)

---------------------------------------------------------------------------
(* check_due_permission_syncs *)

(* reapExpiredPermissionRuns: the lease of a run is out when its worker is *)
(* dead, or stalls.                                                        *)
Reap ==
    /\ \/ run.owner = Lost /\ UNCHANGED left
       \/ run.owner \in Exec /\ Spend("stall")
    /\ run' = NoRun
    /\ resumable' = run.cursor
    /\ queued' \in {queued, queued \/ ~Active}
    /\ UNCHANGED <<source, store, conn, update, pass, orphan, chain>>

(* requeueOrphanedPermissionSyncTasks: with no running run, every task     *)
(* that is processing counts as an orphan after a while.                   *)
RequeueOrphan ==
    /\ run.owner = Free /\ orphan
    /\ orphan' = FALSE /\ queued' = TRUE
    /\ UNCHANGED <<source, store, conn, update, run, resumable, pass, chain, left>>

RequeueLive(e) ==
    /\ run.owner = Free /\ pass[e].tracked /\ ~At(e, "claim")
    /\ Set(e, [pass[e] EXCEPT !.tracked = FALSE])
    /\ queued' = TRUE
    /\ UNCHANGED <<source, store, conn, update, run, resumable, orphan, chain, left>>

(* The interval of an auto-sync connector has passed.                      *)
Schedule ==
    /\ conn.vis = AutoSync /\ ~Active
    /\ queued' = TRUE
    /\ UNCHANGED <<source, store, conn, update, run, resumable, pass, orphan, chain,
                   left>>

(* The last full reconcile is a day old.                                   *)
FullReconcileAgesOut ==
    /\ conn.vis = AutoSync /\ ~conn.fullDue
    /\ conn' = [conn EXCEPT !.fullDue = TRUE]
    /\ UNCHANGED <<source, store, update, run, resumable, pass, tasks, chain, left>>

---------------------------------------------------------------------------
(* An edit of the settings: the REST route, the bulk route, the MCP tool *)

(* After the documents: only the REST route starts the first pass of a     *)
(* connector that turns to auto-sync, and the bulk route stops no pass.    *)
AfterOverwrite(u) ==
    IF u.by = "rest" /\ u.was # AutoSync /\ conn'.vis = AutoSync THEN "enqueue"
    ELSE IF u.by # "bulk" /\ u.was = AutoSync /\ (u.edit \/ conn'.vis # AutoSync) THEN "stop"
    ELSE "none"

GotoUpdate(pc) == update' = IF pc = "none" THEN NoUpdate ELSE [update EXCEPT !.pc = pc]

(* Without a new visibility, the documents keep their ACLs; the tool does  *)
(* not bump the ACL epoch.                                                 *)
Request(by, edit) == [pc |-> "bump", was |-> conn.vis, by |-> by, edit |-> edit]
FirstStep(by, vis, edit) ==
    IF vis = conn.vis THEN AfterOverwrite(Request(by, edit))
    ELSE IF by = "tool" THEN "overwrite" ELSE "bump"

(* The connector's row is written.                                         *)
Submit(by, vis, edit) ==
    /\ update.pc = "none" /\ by \in Surface
    /\ vis # conn.vis \/ edit
    /\ by = "bulk" => ~edit
    /\ Spend("update")
    /\ conn' = [conn EXCEPT !.vis = vis, !.edits = IF edit THEN @ + 1 ELSE @]
    /\ LET pc == FirstStep(by, vis, edit)
       IN update' = IF pc = "none" THEN NoUpdate ELSE [Request(by, edit) EXCEPT !.pc = pc]
    /\ Disturb
    /\ UNCHANGED <<source, store, run, resumable, pass, tasks>>

(* bumpAclConfigEpoch                                                      *)
Bump ==
    /\ update.pc = "bump"
    /\ conn' = [conn EXCEPT !.epoch = @ + 1]
    /\ GotoUpdate("overwrite")
    /\ Disturb
    /\ UNCHANGED <<source, store, run, resumable, pass, tasks, left>>

(* refreshConnectorDocumentAccessControlLists does nothing for auto-sync;  *)
(* otherwise it writes every document, which keeps its container_key ...   *)
Overwrite ==
    /\ update.pc = "overwrite"
    /\ UNCHANGED conn
    /\ IF conn.vis = AutoSync
       THEN GotoUpdate(AfterOverwrite(update)) /\ UNCHANGED acl
       ELSE GotoUpdate("clear") /\ acl' = [d \in Doc |-> conn.vis]
    /\ Disturb
    /\ UNCHANGED <<source, key, held, stale, run, resumable, pass, tasks, left>>

(* ... and drops the container rows.                                       *)
Clear ==
    /\ update.pc = "clear"
    /\ UNCHANGED conn
    /\ held' = Nothing /\ stale' = {}
    /\ GotoUpdate(AfterOverwrite(update))
    /\ Disturb
    /\ UNCHANGED <<source, acl, key, run, resumable, pass, tasks, left>>

(* supersedeRunningForConnector                                            *)
Supersede ==
    /\ update.pc = "stop"
    /\ run' = NoRun
    /\ resumable' = IF run.owner = Free THEN resumable ELSE NoCheckpoint
    /\ GotoUpdate(IF conn.vis = AutoSync THEN "queue" ELSE "none")
    /\ UNCHANGED <<source, store, conn, pass, tasks, chain, left>>

(* The pass for the new settings, unless a task is pending or processing.  *)
Enqueue ==
    /\ update.pc \in {"enqueue", "queue"}
    /\ queued' = (queued \/ ~Active)
    /\ GotoUpdate("none")
    /\ UNCHANGED <<source, store, conn, run, resumable, pass, orphan, chain, left>>

UpdateStep == Bump \/ Overwrite \/ Clear \/ Supersede \/ Enqueue

---------------------------------------------------------------------------
(* The source changes: an audience, the place of a document, a container.  *)

Share(c) ==
    /\ c \in live
    /\ version' = [version EXCEPT ![c] = @ + 1]
    /\ UNCHANGED <<live, at>>

Move(d, c) ==
    /\ c \in (live \cup {Nowhere}) \ {at[d]}
    /\ at' = [at EXCEPT ![d] = c]
    /\ UNCHANGED <<live, version>>

Delete(c) ==
    /\ c \in live
    /\ live' = live \ {c}
    /\ at' = [d \in Doc |-> IF at[d] = c THEN Nowhere ELSE at[d]]
    /\ UNCHANGED version

Change ==
    /\ \/ \E c \in Container : Share(c) /\ Spend("change")
       \/ \E d \in Doc, c \in 0..Top : Move(d, c) /\ Spend("change")
       \/ \E c \in Container : Delete(c) /\ Spend("delete")
    /\ Disturb
    /\ UNCHANGED <<store, conn, update, run, resumable, pass, tasks>>

---------------------------------------------------------------------------
Next ==
    \/ \E e \in Exec : Start(e) \/ PassStep(e) \/ Throw(e) \/ Crash(e) \/ RequeueLive(e)
    \/ Reap \/ RequeueOrphan \/ Schedule \/ FullReconcileAgesOut
    \/ \E by \in {"rest", "bulk", "tool"}, vis \in Level \cup {AutoSync}, edit \in BOOLEAN :
         Submit(by, vis, edit)
    \/ UpdateStep
    \/ Change

(* Executions run on, requests end, tasks are dequeued and the due check   *)
(* goes on; nobody has to edit, change or fail anything.                   *)
Fairness ==
    /\ \A e \in Exec : WF_vars(PassStep(e))
    /\ WF_vars(\E e \in Exec : Start(e))
    /\ WF_vars(run.owner = Lost /\ Reap)
    /\ WF_vars(RequeueOrphan)
    /\ WF_vars(Schedule)
    /\ WF_vars(FullReconcileAgesOut)
    /\ WF_vars(UpdateStep)

Spec == Init /\ [][Next]_vars
FairSpec == Spec /\ Fairness

---------------------------------------------------------------------------
(* Properties *)

Readable(d) == \/ acl[d] \in Level
               \/ acl[d] = Shared /\ key[d] # Nowhere /\ held[key[d]] > 0

(* Left by a visibility of before the passes, in a container whose row was *)
(* dropped with that visibility and that is gone from the source.          *)
Forgotten(d) == acl[d] \in Level /\ key[d] \notin live \cup {Nowhere}

AudiencesTrue == \A c \in live : held[c] \in {0, version[c]}
InSync ==
    /\ \A c \in live : held[c] = version[c]
    /\ \A d \in Doc :
         IF at[d] # Nowhere THEN Placed(d, at[d]) ELSE ~Readable(d) \/ Forgotten(d)

(* The newest settings win: once a request that sets a connector-level     *)
(* visibility has ended, every document has it, whatever passes computed   *)
(* before (bumpAclConfigEpoch, refreshConnectorDocumentAccessControlLists).*)
NewestConfigWins ==
    update.pc = "none" /\ conn.vis # AutoSync => \A d \in Doc : acl[d] = conn.vis

(* A pass, or a chain of an interrupted pass and those that resume it, that*)
(* nothing from outside disturbed is worth its success: a delta leaves no  *)
(* audience that is out of date, and a full reconcile leaves every         *)
(* document where the source has it (runClaimedPass, its resume, its       *)
(* marks and its two sweeps).                                              *)
Reconciled ==
    [][\A e \in Exec :
         At(e, "finalize") /\ Owns(e) /\ pass'[e].pc = "publish" =>
           /\ chain = "delta" /\ pass[e].mode = "delta" => AudiencesTrue
           /\ chain = "full" => InSync]_vars

(* An audience that is stored is never replaced by an older one, whoever   *)
(* wakes up late (the fence of KbContainerAclModel.upsertMany).            *)
RevocationSticks ==
    [][\A c \in Container : held[c] > 0 /\ held'[c] > 0 => held'[c] >= held[c]]_vars

(* When source, settings and workers come to rest, so do the documents, in *)
(* agreement with them, and a pass has seen the newest settings, although  *)
(* the superseded one's own task may keep a new one from being queued      *)
(* (supersedePermissionSyncAfterSettingsChange).                           *)
EventuallySynced ==
    <>[](IF conn.vis = AutoSync THEN InSync /\ conn.applied = conn.edits
         ELSE \A d \in Doc : acl[d] = conn.vis)
=============================================================================
