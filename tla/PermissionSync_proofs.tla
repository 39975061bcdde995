----------------------- MODULE PermissionSync_proofs -----------------------
(***************************************************************************)
(* Proofs about PermissionSync, for any executions, containers, documents, *)
(* visibilities and bounds, and any sorts of events.                       *)
(***************************************************************************)
EXTENDS PermissionSync, TLAPS

LEMMA IdleType == Idle \in Pass /\ Nothing \in [Container -> Nat]
<1>1. Nothing \in [Container -> Nat] BY DEF Nothing
<1> QED
  BY <1>1, PermissionAssumption
  DEF Idle, Pass, PassPC, Cursor, NoCheckpoint, Nowhere, Mode, PermissionAssumption

LEMMA SetType == ASSUME TypeOK, NEW e \in Exec, NEW p \in Pass, Set(e, p)
                 PROVE  pass' \in [Exec -> Pass]
BY DEF Set, TypeOK

LEMMA GotoType == ASSUME TypeOK, NEW e \in Exec, NEW pc \in PassPC, Goto(e, pc)
                  PROVE  pass' \in [Exec -> Pass]
<1>1. pass[e] \in Pass BY DEF TypeOK
<1>2. [pass[e] EXCEPT !.pc = pc] \in Pass BY <1>1 DEF Pass
<1> QED BY <1>2, SetType DEF Goto

LEMMA LeaveType == ASSUME TypeOK, NEW e \in Exec, Leave(e)
                   PROVE  pass' \in [Exec -> Pass]
BY SetType, IdleType DEF Leave

LEMMA SpendType == ASSUME TypeOK, NEW event, Spend(event)
                   PROVE  left' \in 0..MaxEvents
BY PermissionAssumption DEF Spend, TypeOK, PermissionAssumption

LEMMA NoRunType == NoRun \in [owner : Exec \cup {Free, Lost}, cursor : Cursor]
BY PermissionAssumption DEF NoRun, Cursor, NoCheckpoint, PermissionAssumption

LEMMA TypeInit == Init => TypeOK
<1> SUFFICES ASSUME Init PROVE TypeOK OBVIOUS
<1> USE PermissionAssumption DEF PermissionAssumption
<1>1. acl \in [Doc -> Level \cup {Closed, Shared}] BY DEF Init
<1>2. key \in [Doc -> 0..Top] BY DEF Init, Container, Nowhere
<1>3. held \in [Container -> Nat] BY IdleType DEF Init
<1>4. conn \in ConnRow BY DEF Init, ConnRow
<1>5. update \in Update BY DEF Init, NoUpdate, Update, UpdatePC
<1>6. at \in [Doc -> 0..Top] BY DEF Init, Container
<1>7. resumable \in Cursor BY DEF Init, Cursor, NoCheckpoint
<1>8. run \in [owner : Exec \cup {Free, Lost}, cursor : Cursor] BY NoRunType DEF Init
<1>9. pass \in [Exec -> Pass] BY IdleType DEF Init
<1>10. version \in [Container -> Nat \ {0}] BY DEF Init
<1>11. left \in 0..MaxEvents BY DEF Init
<1>12. live \subseteq Container /\ stale \subseteq Container BY DEF Init
<1> HIDE DEF Init
<1>13. queued = FALSE /\ orphan = FALSE /\ chain = "nothing" BY DEF Init
<1> QED
  BY <1>1, <1>2, <1>3, <1>4, <1>5, <1>6, <1>7, <1>8, <1>9, <1>10, <1>11, <1>12, <1>13
  DEF TypeOK

(* What a pass writes of the documents keeps their types. *)
LEMMA PlaceType == ASSUME TypeOK, NEW docs, NEW c \in 0..Top, Place(docs, c)
                   PROVE  /\ acl' \in [Doc -> Level \cup {Closed, Shared}]
                          /\ key' \in [Doc -> 0..Top]
BY DEF Place, TypeOK

LEMMA FailCloseType == ASSUME TypeOK, NEW e, NEW docs, FailClose(e, docs)
                       PROVE  acl' \in [Doc -> Level \cup {Closed, Shared}]
BY DEF FailClose, TypeOK

LEMMA WroteType == ASSUME TypeOK, NEW e, Wrote(e) \/ Disturb
                   PROVE  chain' \in {"nothing", "delta", "full"}
BY DEF Wrote, Disturb, TypeOK

LEMMA DecideType ==
    ASSUME TypeOK, NEW e \in Exec, NEW mode \in Mode, NEW scope \in SUBSET Container,
           Decide(e, mode, scope)
    PROVE  /\ pass' \in [Exec -> Pass]
           /\ run' \in [owner : Exec \cup {Free, Lost}, cursor : Cursor]
           /\ chain' \in {"nothing", "delta", "full"}
<1> DEFINE resumes == pass[e].from > Nowhere
           pc == IF mode = "delta" THEN "refresh" ELSE IF resumes THEN "next" ELSE "mark"
<1>1. pass[e] \in Pass BY DEF TypeOK
<1>2. Nowhere \in Cursor /\ NoCheckpoint \in Cursor /\ pass[e].from \in Cursor
  BY <1>1, PermissionAssumption DEF Cursor, Nowhere, NoCheckpoint, Pass, PermissionAssumption
<1>3. [pass[e] EXCEPT !.pc = pc, !.mode = mode, !.scope = scope, !.due = FALSE,
                      !.from = NoCheckpoint] \in Pass
  BY <1>1, <1>2 DEF Pass, PassPC
<1>4. pass' \in [Exec -> Pass] BY <1>3, SetType, LeaveType DEF Decide
<1>5. run' \in [owner : Exec \cup {Free, Lost}, cursor : Cursor]
  BY <1>2 DEF Decide, TypeOK
<1>6. chain' \in {"nothing", "delta", "full"} BY DEF Decide, TypeOK
<1> QED BY <1>4, <1>5, <1>6

(* From the dequeue to the decision what to reconcile. *)
LEMMA TypeBegin == ASSUME TypeOK, NEW e \in Exec,
                          Start(e) \/ Claim(e) \/ ClaimBusy(e) \/ Begin(e)
                   PROVE  TypeOK'
<1>1. CASE Start(e)
  <2>1. [Idle EXCEPT !.pc = "claim", !.tracked = TRUE, !.epoch = conn.epoch,
                     !.edits = conn.edits, !.due = conn.fullDue] \in Pass
    BY IdleType DEF TypeOK, ConnRow, Pass, PassPC
  <2>2. pass' \in [Exec -> Pass] BY <1>1, <2>1, SetType DEF Start, TypeOK
  <2> QED BY <1>1, <2>2 DEF Start, TypeOK, source, store
<1>2. CASE Claim(e)
  <2>1. pass[e] \in Pass /\ resumable \in Cursor BY DEF TypeOK
  <2>2. [pass[e] EXCEPT !.pc = "begin", !.from = resumable] \in Pass
    BY <2>1 DEF Pass, PassPC
  <2>3. pass' \in [Exec -> Pass] BY <1>2, <2>2, SetType DEF Claim
  <2>4. run' \in [owner : Exec \cup {Free, Lost}, cursor : Cursor]
    BY <1>2, NoRunType DEF Claim
  <2> QED BY <1>2, <2>3, <2>4 DEF Claim, TypeOK, source, store, tasks
<1>3. CASE ClaimBusy(e)
  BY <1>3, LeaveType DEF ClaimBusy, TypeOK, source, store, tasks
<1>4. CASE Begin(e)
  <2>1. PICK answer \in {"scoped", "full", "failed"} :
         /\ UNCHANGED left \/ Spend("error")
         /\ \E scope \in ScopeFor(e, ModeFor(e, answer)) :
              Decide(e, ModeFor(e, answer), scope)
    BY <1>4, Zenon DEF Begin
  <2>2. PICK scope \in ScopeFor(e, ModeFor(e, answer)) :
          Decide(e, ModeFor(e, answer), scope)
    BY <2>1
  <2>3. ModeFor(e, answer) \in Mode BY DEF ModeFor, Mode
  <2>4. scope \subseteq Container BY <2>2 DEF ScopeFor
  <2>5. left' \in 0..MaxEvents BY <2>1, SpendType DEF TypeOK
  <2>6. /\ pass' \in [Exec -> Pass]
        /\ run' \in [owner : Exec \cup {Free, Lost}, cursor : Cursor]
        /\ chain' \in {"nothing", "delta", "full"}
    BY <2>2, <2>3, <2>4, DecideType
  <2> QED BY <1>4, <2>5, <2>6 DEF Begin, TypeOK, source, store, tasks
<1> QED BY <1>1, <1>2, <1>3, <1>4

(* The enumeration: audiences, marks, containers. *)
LEMMA TypeContainers ==
    ASSUME TypeOK, NEW e \in Exec,
           Refresh(e) \/ Rewrite(e) \/ Mark(e) \/ Yield(e) \/ Exhaust(e) \/ Upsert(e)
    PROVE  TypeOK'
<1>0. /\ pass[e] \in Pass
      /\ Nowhere \in 0..Top
      /\ \A c \in Container : c \in 0..Top
  BY PermissionAssumption DEF TypeOK, Nowhere, Container, PermissionAssumption
<1>1. CASE Refresh(e)
  <2>1. [c \in Container |-> IF c \in live /\ held[c] > 0 THEN version[c] ELSE 0]
          \in [Container -> Nat]
    BY DEF TypeOK
  <2>2. [pass[e] EXCEPT !.pc = "rewrite", !.heard =
           [c \in Container |-> IF c \in live /\ held[c] > 0 THEN version[c] ELSE 0]]
          \in Pass
    BY <1>0, <2>1 DEF Pass, PassPC
  <2>3. pass' \in [Exec -> Pass] BY <1>1, <2>2, SetType DEF Refresh
  <2> QED BY <1>1, <2>3 DEF Refresh, TypeOK, source, store, tasks
<1>2. CASE Rewrite(e)
  <2>1. [pass[e] EXCEPT !.pc = "next", !.heard = Nothing] \in Pass
    BY <1>0, IdleType DEF Pass, PassPC
  <2>2. pass' \in [Exec -> Pass] BY <1>2, <2>1, SetType, LeaveType DEF Rewrite
  <2>3. held' \in [Container -> Nat]
    <3>1. pass[e].heard \in [Container -> Nat] BY <1>0 DEF Pass
    <3> QED BY <1>2, <3>1 DEF Rewrite, TypeOK
  <2>4. stale' \subseteq Container BY <1>2 DEF Rewrite, TypeOK
  <2> QED BY <1>2, <2>2, <2>3, <2>4 DEF Rewrite, TypeOK, source, tasks
<1>3. CASE Mark(e)
  <2>1. pass' \in [Exec -> Pass] BY <1>3, GotoType DEF Mark, PassPC
  <2>2. chain' \in {"nothing", "delta", "full"} BY <1>3, WroteType DEF Mark
  <2>3. stale' \subseteq Container BY <1>3 DEF Mark
  <2> QED BY <1>3, <2>1, <2>2, <2>3 DEF Mark, TypeOK, source, tasks
<1>4. CASE Yield(e)
  <2>1. PICK c \in Coming(e) :
          Set(e, [pass[e] EXCEPT
               !.pc = IF pass[e].unit # Nowhere THEN "assert" ELSE "upsert",
               !.next = c, !.scope = {o \in @ : o > c},
               !.heard = [Nothing EXCEPT ![c] = version[c]]])
    BY <1>4 DEF Yield
  <2>2. c \in Container BY DEF Coming, TypeOK
  <2>3. [Nothing EXCEPT ![c] = version[c]] \in [Container -> Nat]
    BY <2>2, IdleType DEF TypeOK
  <2>4. {o \in pass[e].scope : o > c} \subseteq Container BY <1>0 DEF Pass
  <2>5. [pass[e] EXCEPT
               !.pc = IF pass[e].unit # Nowhere THEN "assert" ELSE "upsert",
               !.next = c, !.scope = {o \in @ : o > c},
               !.heard = [Nothing EXCEPT ![c] = version[c]]] \in Pass
    BY <1>0, <2>2, <2>3, <2>4 DEF Pass, PassPC
  <2>6. pass' \in [Exec -> Pass] BY <2>1, <2>5, SetType
  <2> QED BY <1>4, <2>6 DEF Yield, TypeOK, source, store, tasks
<1>5. CASE Exhaust(e)
  <2>1. [pass[e] EXCEPT
          !.pc = IF pass[e].unit # Nowhere THEN "assert" ELSE Enumerated(e),
          !.next = Nowhere, !.scope = {}, !.heard = Nothing] \in Pass
    BY <1>0, IdleType DEF Pass, PassPC, Enumerated
  <2>2. pass' \in [Exec -> Pass] BY <1>5, <2>1, SetType DEF Exhaust
  <2> QED BY <1>5, <2>2 DEF Exhaust, TypeOK, source, store, tasks
<1>6. CASE Upsert(e)
  <2>1. [pass[e] EXCEPT !.pc = "next", !.unit = pass[e].next, !.next = Nowhere,
                  !.heard = Nothing, !.seen = {d \in Doc : at[d] = pass[e].next},
                  !.pending = {d \in Doc : at[d] = pass[e].next}] \in Pass
    BY <1>0, IdleType DEF Pass, PassPC
  <2>2. pass' \in [Exec -> Pass] BY <1>6, <2>1, SetType, LeaveType DEF Upsert
  <2>3. held' \in [Container -> Nat]
    <3>1. pass[e].next \in Container \/ pass[e].next \notin Container OBVIOUS
    <3>2. pass[e].heard \in [Container -> Nat] BY <1>0 DEF Pass
    <3> QED BY <1>6, <3>1, <3>2 DEF Upsert, TypeOK
  <2>4. stale' \subseteq Container BY <1>6 DEF Upsert, TypeOK
  <2> QED BY <1>6, <2>2, <2>3, <2>4 DEF Upsert, TypeOK, source, tasks
<1> QED BY <1>1, <1>2, <1>3, <1>4, <1>5, <1>6

(* The units, the sweeps, and the end of a pass. *)
LEMMA TypeUnits ==
    ASSUME TypeOK, NEW e \in Exec,
           \/ AssertStillOwnsRun(e) \/ Assign(e) \/ FinishUnit(e) \/ Sweep(e)
           \/ Drop(e) \/ Finalize(e) \/ Publish(e)
    PROVE  TypeOK'
<1>0. /\ pass[e] \in Pass
      /\ Nowhere \in 0..Top
      /\ pass[e].unit \in 0..Top
      /\ pass[e].unit \in Cursor
      /\ NoCheckpoint \in Cursor
  <2>1. pass[e] \in Pass BY DEF TypeOK
  <2> QED BY <2>1, PermissionAssumption
      DEF Pass, Nowhere, Cursor, NoCheckpoint, PermissionAssumption
<1>1. CASE AssertStillOwnsRun(e)
  <2>1. pass' \in [Exec -> Pass]
    BY <1>1, GotoType, LeaveType DEF AssertStillOwnsRun, PassPC
  <2> QED BY <1>1, <2>1 DEF AssertStillOwnsRun, TypeOK, source, store, tasks
<1>2. CASE Assign(e)
  <2>1. PICK d \in pass[e].pending :
         /\ Set(e, [pass[e] EXCEPT !.pending = @ \ {d}])
         /\ Place(IF Current(e) THEN {d} ELSE {}, pass[e].unit)
    BY <1>2 DEF Assign
  <2>2. [pass[e] EXCEPT !.pending = @ \ {d}] \in Pass BY <1>0 DEF Pass
  <2>3. pass' \in [Exec -> Pass] BY <2>1, <2>2, SetType
  <2>4. chain' \in {"nothing", "delta", "full"} BY <1>2, WroteType DEF Assign
  <2>5. /\ acl' \in [Doc -> Level \cup {Closed, Shared}]
        /\ key' \in [Doc -> 0..Top]
    BY <1>0, <2>1, PlaceType
  <2> QED BY <1>2, <2>3, <2>4, <2>5 DEF Assign, TypeOK, source, tasks
<1>3. CASE FinishUnit(e)
  <2>1. [pass[e] EXCEPT !.progressed = TRUE, !.seen = {}, !.unit = Nowhere,
           !.pc = IF pass[e].next # Nowhere THEN "upsert" ELSE Enumerated(e)] \in Pass
    BY <1>0 DEF Pass, PassPC, Enumerated
  <2>2. pass' \in [Exec -> Pass] BY <1>3, <2>1, SetType, LeaveType DEF FinishUnit
  <2>3. run' \in [owner : Exec \cup {Free, Lost}, cursor : Cursor]
    BY <1>0, <1>3 DEF FinishUnit, TypeOK
  <2>4. chain' \in {"nothing", "delta", "full"} BY <1>3, WroteType DEF FinishUnit
  <2>5. acl' \in [Doc -> Level \cup {Closed, Shared}]
    BY <1>3, FailCloseType DEF FinishUnit
  <2> QED BY <1>3, <2>2, <2>3, <2>4, <2>5 DEF FinishUnit, TypeOK, source, tasks
<1>4. CASE Sweep(e)
  <2>1. pass' \in [Exec -> Pass] BY <1>4, GotoType DEF Sweep, PassPC
  <2>2. chain' \in {"nothing", "delta", "full"} BY <1>4, WroteType DEF Sweep
  <2>3. acl' \in [Doc -> Level \cup {Closed, Shared}] BY <1>4, FailCloseType DEF Sweep
  <2> QED BY <1>4, <2>1, <2>2, <2>3 DEF Sweep, TypeOK, source, tasks
<1>5. CASE Drop(e)
  <2>1. pass' \in [Exec -> Pass] BY <1>5, GotoType DEF Drop, PassPC
  <2>2. chain' \in {"nothing", "delta", "full"} BY <1>5, WroteType DEF Drop
  <2>3. acl' \in [Doc -> Level \cup {Closed, Shared}] BY <1>5, FailCloseType DEF Drop
  <2>4. held' \in [Container -> Nat] BY <1>5 DEF Drop, TypeOK
  <2>5. stale' \subseteq Container BY <1>5 DEF Drop
  <2> QED BY <1>5, <2>1, <2>2, <2>3, <2>4, <2>5 DEF Drop, TypeOK, source, tasks
<1>6. CASE Finalize(e)
  <2>1. pass' \in [Exec -> Pass] BY <1>6, GotoType, LeaveType DEF Finalize, PassPC
  <2>2. conn' \in ConnRow
    <3>1. pass[e].edits \in Nat BY <1>0 DEF Pass
    <3> QED BY <1>6, <3>1 DEF Finalize, TypeOK, ConnRow
  <2>3. run' \in [owner : Exec \cup {Free, Lost}, cursor : Cursor]
    BY <1>6, NoRunType DEF Finalize, TypeOK
  <2>4. resumable' \in Cursor BY <1>0, <1>6 DEF Finalize, TypeOK
  <2> QED BY <1>6, <2>1, <2>2, <2>3, <2>4 DEF Finalize, TypeOK, source, store, tasks
<1>7. CASE Publish(e)
  <2>1. conn' \in ConnRow BY <1>7 DEF Publish, TypeOK, ConnRow
  <2> QED BY <1>7, <2>1, LeaveType DEF Publish, TypeOK, source, store, tasks
<1> QED BY <1>1, <1>2, <1>3, <1>4, <1>5, <1>6, <1>7

(* What goes wrong with a pass, and the due check. *)
LEMMA TypeFaults ==
    ASSUME TypeOK,
           \/ \E e \in Exec : Throw(e) \/ Crash(e) \/ RequeueLive(e)
           \/ Reap \/ RequeueOrphan \/ Schedule \/ FullReconcileAgesOut
    PROVE  TypeOK'
<1>0. NoCheckpoint \in Cursor
  BY PermissionAssumption DEF Cursor, NoCheckpoint, PermissionAssumption
<1>1. ASSUME NEW e \in Exec, Throw(e) PROVE TypeOK'
  <2>1. pass' \in [Exec -> Pass] BY <1>1, LeaveType DEF Throw
  <2>2. left' \in 0..MaxEvents BY <1>1, SpendType DEF Throw
  <2>3. run' \in [owner : Exec \cup {Free, Lost}, cursor : Cursor]
    BY <1>1, NoRunType DEF Throw, TypeOK
  <2>4. resumable' \in Cursor BY <1>0, <1>1 DEF Throw, TypeOK
  <2>5. queued' \in BOOLEAN
    <3>1. pass[e].progressed \in BOOLEAN BY DEF TypeOK, Pass
    <3> QED BY <1>1, <3>1 DEF Throw, TypeOK
  <2> QED BY <1>1, <2>1, <2>2, <2>3, <2>4, <2>5 DEF Throw, TypeOK, source, store
<1>2. ASSUME NEW e \in Exec, Crash(e) PROVE TypeOK'
  <2>1. pass' \in [Exec -> Pass] BY <1>2, LeaveType DEF Crash
  <2>2. left' \in 0..MaxEvents BY <1>2, SpendType DEF Crash
  <2>3. run' \in [owner : Exec \cup {Free, Lost}, cursor : Cursor]
    BY <1>2 DEF Crash, TypeOK
  <2>4. orphan' \in BOOLEAN
    <3>1. pass[e].tracked \in BOOLEAN BY DEF TypeOK, Pass
    <3> QED BY <1>2, <3>1 DEF Crash, TypeOK
  <2> QED BY <1>2, <2>1, <2>2, <2>3, <2>4 DEF Crash, TypeOK, source, store
<1>3. ASSUME NEW e \in Exec, RequeueLive(e) PROVE TypeOK'
  <2>1. pass[e] \in Pass BY DEF TypeOK
  <2>2. [pass[e] EXCEPT !.tracked = FALSE] \in Pass BY <2>1 DEF Pass
  <2>3. pass' \in [Exec -> Pass] BY <1>3, <2>2, SetType DEF RequeueLive
  <2> QED BY <1>3, <2>3 DEF RequeueLive, TypeOK, source, store
<1>4. CASE Reap
  <2>1. left' \in 0..MaxEvents BY <1>4, SpendType DEF Reap, TypeOK
  <2>2. run' \in [owner : Exec \cup {Free, Lost}, cursor : Cursor]
    BY <1>4, NoRunType DEF Reap
  <2>3. resumable' \in Cursor BY <1>4 DEF Reap, TypeOK
  <2>4. queued' \in BOOLEAN BY <1>4 DEF Reap, TypeOK
  <2> QED BY <1>4, <2>1, <2>2, <2>3, <2>4 DEF Reap, TypeOK, source, store
<1>5. CASE RequeueOrphan BY <1>5 DEF RequeueOrphan, TypeOK, source, store
<1>6. CASE Schedule BY <1>6 DEF Schedule, TypeOK, source, store
<1>7. CASE FullReconcileAgesOut
  <2>1. conn' \in ConnRow BY <1>7 DEF FullReconcileAgesOut, TypeOK, ConnRow
  <2> QED BY <1>7, <2>1 DEF FullReconcileAgesOut, TypeOK, source, store, tasks
<1> QED BY <1>1, <1>2, <1>3, <1>4, <1>5, <1>6, <1>7

(* The settings, and the source. *)
LEMMA GotoUpdateType ==
    ASSUME TypeOK, NEW pc \in UpdatePC, GotoUpdate(pc)
    PROVE  update' \in Update
<1>1. NoUpdate \in Update BY DEF NoUpdate, Update, UpdatePC
<1>2. [update EXCEPT !.pc = pc] \in Update
  <2>1. update \in Update BY DEF TypeOK
  <2> QED BY <2>1 DEF Update
<1> QED BY <1>1, <1>2 DEF GotoUpdate

LEMMA AfterOverwriteType == ASSUME NEW u PROVE AfterOverwrite(u) \in UpdatePC
BY DEF AfterOverwrite, UpdatePC

LEMMA TypeUpdate ==
    ASSUME TypeOK,
           \/ \E by \in {"rest", "bulk", "tool"}, vis \in Level \cup {AutoSync}, edit \in BOOLEAN :
                Submit(by, vis, edit)
           \/ UpdateStep \/ Change
    PROVE  TypeOK'
<1>0. NoCheckpoint \in Cursor
  BY PermissionAssumption DEF Cursor, NoCheckpoint, PermissionAssumption
<1>1. ASSUME NEW by \in {"rest", "bulk", "tool"}, NEW vis \in Level \cup {AutoSync},
             NEW edit \in BOOLEAN, Submit(by, vis, edit)
      PROVE  TypeOK'
  <2>1. conn' \in ConnRow
    <3>1. conn \in ConnRow BY DEF TypeOK
    <3>2. \A n \in Nat : [conn EXCEPT !.vis = vis, !.edits = n] \in ConnRow
      BY <3>1 DEF ConnRow
    <3>3. (IF edit THEN conn.edits + 1 ELSE conn.edits) \in Nat BY <3>1 DEF ConnRow
    <3> QED BY <1>1, <3>2, <3>3 DEF Submit
  <2>2. left' \in 0..MaxEvents BY <1>1, SpendType DEF Submit
  <2>3. chain' \in {"nothing", "delta", "full"} BY <1>1, WroteType DEF Submit
  <2>4. update' \in Update
    <3>1. conn.vis \in Level \cup {AutoSync} BY DEF TypeOK, ConnRow
    <3>2. Request(by, edit) \in Update BY <3>1 DEF Request, Update, UpdatePC
    <3>3. FirstStep(by, vis, edit) \in UpdatePC
      BY AfterOverwriteType DEF FirstStep, UpdatePC
    <3>4. [Request(by, edit) EXCEPT !.pc = FirstStep(by, vis, edit)] \in Update
      BY <3>2, <3>3 DEF Update
    <3>5. NoUpdate \in Update BY DEF NoUpdate, Update, UpdatePC
    <3> QED BY <1>1, <3>4, <3>5 DEF Submit
  <2> QED BY <1>1, <2>1, <2>2, <2>3, <2>4 DEF Submit, TypeOK, source, store, tasks
<1>2. CASE Bump
  <2>1. conn' \in ConnRow BY <1>2 DEF Bump, TypeOK, ConnRow
  <2>2. update' \in Update BY <1>2, GotoUpdateType DEF Bump, UpdatePC
  <2>3. chain' \in {"nothing", "delta", "full"} BY <1>2, WroteType DEF Bump
  <2> QED BY <1>2, <2>1, <2>2, <2>3 DEF Bump, TypeOK, source, store, tasks
<1>3. CASE Overwrite
  <2>1. update' \in Update
    BY <1>3, GotoUpdateType, AfterOverwriteType DEF Overwrite, UpdatePC
  <2>2. chain' \in {"nothing", "delta", "full"} BY <1>3, WroteType DEF Overwrite
  <2>3. acl' \in [Doc -> Level \cup {Closed, Shared}]
    BY <1>3 DEF Overwrite, TypeOK, ConnRow
  <2> QED BY <1>3, <2>1, <2>2, <2>3 DEF Overwrite, TypeOK, source, tasks
<1>4. CASE Clear
  <2>1. update' \in Update BY <1>4, GotoUpdateType, AfterOverwriteType DEF Clear
  <2>2. chain' \in {"nothing", "delta", "full"} BY <1>4, WroteType DEF Clear
  <2>3. held' \in [Container -> Nat] BY <1>4, IdleType DEF Clear
  <2> QED BY <1>4, <2>1, <2>2, <2>3 DEF Clear, TypeOK, source, tasks
<1>5. CASE Supersede
  <2>1. update' \in Update BY <1>5, GotoUpdateType DEF Supersede, UpdatePC
  <2>2. run' \in [owner : Exec \cup {Free, Lost}, cursor : Cursor]
    BY <1>5, NoRunType DEF Supersede
  <2>3. resumable' \in Cursor BY <1>0, <1>5 DEF Supersede, TypeOK
  <2> QED BY <1>5, <2>1, <2>2, <2>3 DEF Supersede, TypeOK, source, store, tasks
<1>6. CASE Enqueue
  <2>1. update' \in Update BY <1>6, GotoUpdateType DEF Enqueue, UpdatePC
  <2> QED BY <1>6, <2>1 DEF Enqueue, TypeOK, source, store
<1>7. CASE Change
  <2>1. /\ live' \subseteq Container
        /\ at' \in [Doc -> 0..Top]
        /\ version' \in [Container -> Nat \ {0}]
    <3>1. ASSUME NEW c \in Container, Share(c)
          PROVE  version' \in [Container -> Nat \ {0}]
      <4>1. version[c] + 1 \in Nat \ {0} BY DEF TypeOK
      <4> QED BY <3>1, <4>1 DEF Share, TypeOK
    <3>2. ASSUME NEW d \in Doc, NEW c \in 0..Top, Move(d, c)
          PROVE  at' \in [Doc -> 0..Top]
      BY <3>2 DEF Move, TypeOK
    <3>3. ASSUME NEW c \in Container, Delete(c)
          PROVE  at' \in [Doc -> 0..Top] /\ live' \subseteq Container
      BY <3>3, PermissionAssumption DEF Delete, TypeOK, Nowhere, PermissionAssumption
    <3> QED BY <1>7, <3>1, <3>2, <3>3 DEF Change, Share, Move, Delete, TypeOK
  <2>2. left' \in 0..MaxEvents BY <1>7, SpendType DEF Change
  <2>3. chain' \in {"nothing", "delta", "full"} BY <1>7, WroteType DEF Change
  <2> QED BY <1>7, <2>1, <2>2, <2>3 DEF Change, TypeOK, store, tasks
<1> QED BY <1>1, <1>2, <1>3, <1>4, <1>5, <1>6, <1>7 DEF UpdateStep

(* Every reachable state of the source, the stored audiences, the          *)
(* documents, the settings, the run and the passes has the declared types. *)
LEMMA TypeNext == TypeOK /\ [Next]_vars => TypeOK'
<1> SUFFICES ASSUME TypeOK, [Next]_vars PROVE TypeOK' OBVIOUS
<1>1. CASE UNCHANGED vars BY <1>1 DEF vars, source, store, tasks, TypeOK
<1>2. CASE Next BY <1>2, TypeBegin, TypeContainers, TypeUnits, TypeFaults, TypeUpdate
                DEF Next, PassStep
<1> QED BY <1>1, <1>2

THEOREM TypeCorrect == Spec => []TypeOK
BY TypeInit, TypeNext, PTL DEF Spec
---------------------------------------------------------------------------
(* The newest settings win.  A pass read its ACL epoch from the row, so it *)
(* is never ahead; once the epoch is bumped for a connector-level          *)
(* visibility every pass is behind, so none touches the documents that are *)
(* then overwritten.                                                       *)
EpochInv ==
    /\ \A e \in Exec : ~At(e, "idle") => pass[e].epoch <= conn.epoch
    /\ conn.vis # AutoSync /\ update.pc # "bump" =>
          \A e \in Exec : ~At(e, "idle") => pass[e].epoch < conn.epoch
    /\ conn.vis # AutoSync /\ update.pc \notin {"bump", "overwrite"} =>
          \A d \in Doc : acl[d] = conn.vis

(* What an execution may do to the documents, and to the others.           *)
Modest(e) ==
    /\ \A f \in Exec : f # e => pass'[f] = pass[f]
    /\ pass'[e].pc = "idle" \/ pass'[e].epoch = pass[e].epoch
    /\ update' = update /\ conn'.vis = conn.vis /\ conn'.epoch = conn.epoch
    /\ acl' = acl \/ Current(e)

LEMMA ModestKeeps ==
    ASSUME TypeOK, TypeOK', EpochInv, NEW e \in Exec, ~At(e, "idle"), Modest(e)
    PROVE  EpochInv'
<1>1. /\ \A f \in Exec : pass[f].epoch \in Nat /\ pass'[f].epoch \in Nat
      /\ conn.epoch \in Nat /\ conn'.epoch \in Nat
  BY DEF TypeOK, Pass, ConnRow
<1>2. Current(e) => conn.vis = AutoSync \/ update.pc = "bump"
  BY <1>1 DEF Current, EpochInv
<1>3. \A f \in Exec : ~At(f, "idle")' => ~At(f, "idle") /\ pass'[f].epoch = pass[f].epoch
  BY DEF Modest, At
<1>4. (\A f \in Exec : ~At(f, "idle") => pass[f].epoch <= conn.epoch)'
  BY <1>3 DEF Modest, EpochInv
<1>5. (conn.vis # AutoSync /\ update.pc # "bump" =>
          \A f \in Exec : ~At(f, "idle") => pass[f].epoch < conn.epoch)'
  BY <1>3 DEF Modest, EpochInv
<1>6. (conn.vis # AutoSync /\ update.pc \notin {"bump", "overwrite"} =>
          \A d \in Doc : acl[d] = conn.vis)'
  BY <1>2 DEF Modest, EpochInv
<1> QED BY <1>4, <1>5, <1>6 DEF EpochInv

LEMMA SetModest ==
    ASSUME TypeOK, NEW e \in Exec, NEW p, Set(e, p),
           p.pc = "idle" \/ p.epoch = pass[e].epoch
    PROVE  /\ \A f \in Exec : f # e => pass'[f] = pass[f]
           /\ pass'[e].pc = "idle" \/ pass'[e].epoch = pass[e].epoch
BY DEF Set, TypeOK

LEMMA StaysModest ==
    ASSUME TypeOK, NEW e \in Exec, \/ Leave(e)
                                   \/ \E pc \in PassPC : Goto(e, pc)
    PROVE  /\ \A f \in Exec : f # e => pass'[f] = pass[f]
           /\ pass'[e].pc = "idle" \/ pass'[e].epoch = pass[e].epoch
<1>1. pass[e] \in Pass BY DEF TypeOK
<1>2. CASE Leave(e) BY <1>2, SetModest DEF Leave, Idle
<1>3. ASSUME NEW pc \in PassPC, Goto(e, pc)
      PROVE  /\ \A f \in Exec : f # e => pass'[f] = pass[f]
             /\ pass'[e].pc = "idle" \/ pass'[e].epoch = pass[e].epoch
  <2>1. [pass[e] EXCEPT !.pc = pc].epoch = pass[e].epoch BY <1>1 DEF Pass
  <2> QED BY <1>3, <2>1, SetModest DEF Goto
<1> QED BY <1>2, <1>3

LEMMA FailCloseModest == ASSUME TypeOK, NEW e, NEW docs, FailClose(e, docs)
                         PROVE  acl' = acl \/ Current(e)
BY DEF FailClose, TypeOK

LEMMA PassModest ==
    ASSUME TypeOK, NEW e \in Exec,
           PassStep(e) \/ Throw(e) \/ Crash(e) \/ RequeueLive(e)
    PROVE  Modest(e)
<1>0. pass[e] \in Pass BY DEF TypeOK
<1> DEFINE Own == /\ \A f \in Exec : f # e => pass'[f] = pass[f]
                  /\ pass'[e].pc = "idle" \/ pass'[e].epoch = pass[e].epoch
<1>1. CASE Claim(e)
  <2>1. [pass[e] EXCEPT !.pc = "begin", !.from = resumable].epoch = pass[e].epoch
    BY <1>0 DEF Pass
  <2>2. Own BY <1>1, <2>1, SetModest DEF Claim
  <2> QED BY <1>1, <2>2 DEF Claim, Modest, store
<1>2. CASE ClaimBusy(e)
  BY <1>2, StaysModest DEF ClaimBusy, Modest, store
<1>3. CASE Begin(e)
  <2>1. PICK mode, scope : Decide(e, mode, scope) BY <1>3 DEF Begin
  <2> DEFINE pc == IF mode = "delta" THEN "refresh"
                   ELSE IF pass[e].from > Nowhere THEN "next" ELSE "mark"
  <2>2. [pass[e] EXCEPT !.pc = pc, !.mode = mode, !.scope = scope, !.due = FALSE,
                        !.from = NoCheckpoint].epoch = pass[e].epoch
    BY <1>0 DEF Pass
  <2>3. Own BY <2>1, <2>2, SetModest, StaysModest DEF Decide
  <2> QED BY <1>3, <2>3 DEF Begin, Modest, store
<1>4. CASE Refresh(e)
  <2>1. \A h : [pass[e] EXCEPT !.pc = "rewrite", !.heard = h].epoch = pass[e].epoch
    BY <1>0 DEF Pass
  <2>2. Own BY <1>4, <2>1, SetModest DEF Refresh
  <2> QED BY <1>4, <2>2 DEF Refresh, Modest, store
<1>5. CASE Rewrite(e)
  <2>1. [pass[e] EXCEPT !.pc = "next", !.heard = Nothing].epoch = pass[e].epoch
    BY <1>0 DEF Pass
  <2>2. Own BY <1>5, <2>1, SetModest, StaysModest DEF Rewrite
  <2> QED BY <1>5, <2>2 DEF Rewrite, Modest
<1>6. CASE Mark(e)
  BY <1>6, StaysModest DEF Mark, Modest, PassPC
<1>7. CASE Yield(e)
  <2>1. PICK pc, c, S, h :
          Set(e, [pass[e] EXCEPT !.pc = pc, !.next = c, !.scope = S, !.heard = h])
    BY <1>7, Zenon DEF Yield
  <2>2. [pass[e] EXCEPT !.pc = pc, !.next = c, !.scope = S, !.heard = h].epoch
          = pass[e].epoch
    BY <1>0 DEF Pass
  <2>3. Own BY <2>1, <2>2, SetModest
  <2> QED BY <1>7, <2>3 DEF Yield, Modest, store
<1>8. CASE Exhaust(e)
  <2>1. PICK pc, c, S, h :
          Set(e, [pass[e] EXCEPT !.pc = pc, !.next = c, !.scope = S, !.heard = h])
    BY <1>8, Zenon DEF Exhaust
  <2>2. [pass[e] EXCEPT !.pc = pc, !.next = c, !.scope = S, !.heard = h].epoch
          = pass[e].epoch
    BY <1>0 DEF Pass
  <2>3. Own BY <2>1, <2>2, SetModest
  <2> QED BY <1>8, <2>3 DEF Exhaust, Modest, store
<1>9. CASE AssertStillOwnsRun(e)
  BY <1>9, StaysModest DEF AssertStillOwnsRun, Modest, PassPC, store
<1>10. CASE Assign(e)
  <2>1. \A S : [pass[e] EXCEPT !.pending = S].epoch = pass[e].epoch
    BY <1>0 DEF Pass
  <2>2. Own BY <1>10, <2>1, SetModest DEF Assign
  <2>3. acl' = acl \/ Current(e) BY <1>10 DEF Assign, Place, TypeOK
  <2> QED BY <1>10, <2>2, <2>3 DEF Assign, Modest
<1>11. CASE FinishUnit(e)
  <2>1. \A pc : [pass[e] EXCEPT !.progressed = TRUE, !.seen = {}, !.unit = Nowhere,
                                !.pc = pc].epoch = pass[e].epoch
    BY <1>0 DEF Pass
  <2>2. Own BY <1>11, <2>1, SetModest, StaysModest DEF FinishUnit
  <2>3. acl' = acl \/ Current(e) BY <1>11, FailCloseModest DEF FinishUnit
  <2> QED BY <1>11, <2>2, <2>3 DEF FinishUnit, Modest
<1>12. CASE Upsert(e)
  <2>1. CASE Leave(e) BY <1>12, <2>1, StaysModest DEF Upsert, Modest
  <2>2. CASE ~Leave(e)
    <3>1. PICK u, S, T :
            Set(e, [pass[e] EXCEPT !.pc = "next", !.unit = u, !.next = Nowhere,
                      !.heard = Nothing, !.seen = S, !.pending = T])
      BY <1>12, <2>2, Zenon DEF Upsert
    <3>2. [pass[e] EXCEPT !.pc = "next", !.unit = u, !.next = Nowhere,
             !.heard = Nothing, !.seen = S, !.pending = T].epoch = pass[e].epoch
      BY <1>0 DEF Pass
    <3>3. Own BY <3>1, <3>2, SetModest
    <3> QED BY <1>12, <3>3 DEF Upsert, Modest
  <2> QED BY <2>1, <2>2
<1>13. CASE Sweep(e)
  <2>1. acl' = acl \/ Current(e) BY <1>13, FailCloseModest DEF Sweep
  <2> QED BY <1>13, <2>1, StaysModest DEF Sweep, Modest, PassPC
<1>14. CASE Drop(e)
  <2>1. acl' = acl \/ Current(e) BY <1>14, FailCloseModest DEF Drop
  <2> QED BY <1>14, <2>1, StaysModest DEF Drop, Modest, PassPC
<1>15. CASE Finalize(e)
  <2>1. conn'.vis = conn.vis /\ conn'.epoch = conn.epoch
    BY <1>15 DEF Finalize, TypeOK, ConnRow
  <2> QED BY <1>15, <2>1, StaysModest DEF Finalize, Modest, PassPC, store
<1>16. CASE Publish(e)
  <2>1. conn'.vis = conn.vis /\ conn'.epoch = conn.epoch
    BY <1>16 DEF Publish, TypeOK, ConnRow
  <2> QED BY <1>16, <2>1, StaysModest DEF Publish, Modest, store
<1>17. CASE Throw(e) BY <1>17, StaysModest DEF Throw, Modest, store
<1>18. CASE Crash(e) BY <1>18, StaysModest DEF Crash, Modest, store
<1>19. CASE RequeueLive(e)
  <2>1. [pass[e] EXCEPT !.tracked = FALSE].epoch = pass[e].epoch BY <1>0 DEF Pass
  <2>2. Own BY <1>19, <2>1, SetModest DEF RequeueLive
  <2> QED BY <1>19, <2>2 DEF RequeueLive, Modest, store
<1> QED
  BY <1>1, <1>2, <1>3, <1>4, <1>5, <1>6, <1>7, <1>8, <1>9, <1>10, <1>11, <1>12, <1>13,
     <1>14, <1>15, <1>16, <1>17, <1>18, <1>19 DEF PassStep
LEMMA EpochInit == Init => EpochInv
BY DEF Init, EpochInv, At, Idle, NoUpdate

LEMMA UpdateEpoch ==
    ASSUME TypeOK, EpochInv, "tool" \notin Surface,
           \/ \E by \in {"rest", "bulk", "tool"}, vis \in Level \cup {AutoSync},
                 edit \in BOOLEAN : Submit(by, vis, edit)
           \/ UpdateStep
    PROVE  EpochInv'
<1>0. /\ \A f \in Exec : pass[f].epoch \in Nat
      /\ conn.epoch \in Nat /\ conn \in ConnRow /\ update \in Update
  BY DEF TypeOK, Pass, ConnRow
<1>1. ASSUME NEW by \in {"rest", "bulk", "tool"}, NEW vis \in Level \cup {AutoSync},
             NEW edit \in BOOLEAN, Submit(by, vis, edit)
      PROVE  EpochInv'
  <2>1. /\ pass' = pass /\ acl' = acl
        /\ conn'.vis = vis /\ conn'.epoch = conn.epoch
        /\ update.pc = "none" /\ by # "tool"
    BY <1>0, <1>1 DEF Submit, ConnRow, store
  <2>2. CASE vis # conn.vis
    <3>1. update'.pc = "bump"
      BY <1>1, <2>1, <2>2 DEF Submit, FirstStep, Request
    <3> QED BY <2>1, <3>1 DEF EpochInv, At
  <2>3. CASE vis = conn.vis
    <3>1. vis # AutoSync => update'.pc = "none"
      BY <1>1, <2>1, <2>3 DEF Submit, FirstStep, AfterOverwrite, Request, NoUpdate
    <3> QED BY <2>1, <2>3, <3>1 DEF EpochInv, At
  <2> QED BY <2>2, <2>3
<1>2. CASE Bump
  <2>1. /\ pass' = pass /\ acl' = acl
        /\ conn'.vis = conn.vis /\ conn'.epoch = conn.epoch + 1
    BY <1>0, <1>2 DEF Bump, ConnRow, store
  <2>2. update'.pc = "overwrite" BY <1>0, <1>2 DEF Bump, GotoUpdate, Update
  <2> QED BY <1>0, <2>1, <2>2 DEF EpochInv, At
<1>3. CASE Overwrite
  <2>1. pass' = pass /\ conn' = conn BY <1>3 DEF Overwrite
  <2>2. conn.vis # AutoSync => \A d \in Doc : acl'[d] = conn.vis BY <1>3 DEF Overwrite
  <2>3. update.pc # "bump" BY <1>3 DEF Overwrite
  <2> QED BY <2>1, <2>2, <2>3 DEF EpochInv, At
<1>4. CASE Clear
  BY <1>4 DEF Clear, EpochInv, At
<1>5. CASE Supersede
  BY <1>5 DEF Supersede, EpochInv, At, store
<1>6. CASE Enqueue
  BY <1>6 DEF Enqueue, EpochInv, At, store
<1> QED BY <1>1, <1>2, <1>3, <1>4, <1>5, <1>6 DEF UpdateStep

LEMMA EpochNext ==
    ASSUME TypeOK, TypeOK', EpochInv, "tool" \notin Surface, [Next]_vars
    PROVE  EpochInv'
<1>1. CASE UNCHANGED vars BY <1>1 DEF vars, store, EpochInv, At
<1>2. ASSUME NEW e \in Exec, Start(e) PROVE EpochInv'
  <2>1. CASE conn.vis = AutoSync
    <3> DEFINE p == [Idle EXCEPT !.pc = "claim", !.tracked = TRUE, !.epoch = conn.epoch,
                                 !.edits = conn.edits, !.due = conn.fullDue]
    <3>0. Set(e, p) /\ conn' = conn /\ p.epoch = conn.epoch
      BY <1>2, <2>1 DEF Start, Idle
    <3> HIDE DEF p
    <3>1. /\ \A f \in Exec : f # e => pass'[f] = pass[f]
          /\ pass'[e].epoch = conn.epoch
          /\ conn' = conn
      BY <3>0 DEF Set, TypeOK
    <3>2. conn.epoch \in Nat BY DEF TypeOK, ConnRow
    <3> QED BY <2>1, <3>1, <3>2 DEF EpochInv, At
  <2>2. CASE conn.vis # AutoSync
    BY <1>2, <2>2 DEF Start, EpochInv, At, store
  <2> QED BY <2>1, <2>2
<1>3. ASSUME NEW e \in Exec, PassStep(e) \/ Throw(e) \/ Crash(e) \/ RequeueLive(e)
      PROVE  EpochInv'
  <2>1. CASE At(e, "idle")
    <3>1. Crash(e) => FALSE BY <2>1 DEF Crash
    <3>2. RequeueLive(e)
      BY <1>3, <2>1, <3>1
      DEF At, PassPC, PassStep, Throw, Claim, ClaimBusy, Begin, Refresh, Rewrite, Mark,
          Yield, Exhaust, AssertStillOwnsRun, Assign, FinishUnit, Upsert, Sweep, Drop,
          Finalize, Publish
    <3>3. pass'[e].pc = "idle" /\ \A f \in Exec : f # e => pass'[f] = pass[f]
      BY <2>1, <3>2 DEF RequeueLive, Set, At, TypeOK, Pass
    <3> QED BY <3>2, <3>3 DEF EpochInv, At, RequeueLive, store
  <2>2. CASE ~At(e, "idle") BY <1>3, <2>2, PassModest, ModestKeeps
  <2> QED BY <2>1, <2>2
<1>4. CASE Reap \/ RequeueOrphan \/ Schedule
  BY <1>4 DEF Reap, RequeueOrphan, Schedule, EpochInv, At, store
<1>5. CASE FullReconcileAgesOut
  <2>1. conn'.vis = conn.vis /\ conn'.epoch = conn.epoch
    BY <1>5 DEF FullReconcileAgesOut, TypeOK, ConnRow
  <2> QED BY <1>5, <2>1 DEF FullReconcileAgesOut, EpochInv, At, store
<1>6. CASE Change
  BY <1>6 DEF Change, EpochInv, At, store
<1> QED BY <1>1, <1>2, <1>3, <1>4, <1>5, <1>6, UpdateEpoch DEF Next

(* Where every surface bumps the epoch (the MCP tool does not), a request  *)
(* for a connector-level visibility decides the ACL of every document,     *)
(* whatever passes of before, slow or lost, still write.                   *)
THEOREM NewestConfigWinsHolds ==
    ASSUME "tool" \notin Surface
    PROVE  Spec => []NewestConfigWins
<1>1. EpochInv => NewestConfigWins BY DEF EpochInv, NewestConfigWins
<1>2. TypeOK /\ TypeOK' /\ EpochInv /\ [Next]_vars => EpochInv' BY EpochNext
<1> QED BY <1>1, <1>2, EpochInit, TypeCorrect, PTL DEF Spec

---------------------------------------------------------------------------
(* A stored audience never goes back: what is stored, and what a pass has  *)
(* heard, is no newer than the source; and the pass that owns the run has  *)
(* heard nothing older than what is stored, for only it could have stored. *)
HeardInv ==
    /\ \A c \in Container : held[c] <= version[c]
    /\ \A e \in Exec, c \in Container : pass[e].heard[c] <= version[c]
    /\ \A e \in Exec : At(e, "idle") \/ At(e, "claim") => pass[e].heard = Nothing
    /\ \A e \in Exec, c \in Container :
         Owns(e) /\ pass[e].heard[c] > 0 => held[c] <= pass[e].heard[c]
(* A step that stores nothing new, and after which no pass has heard more. *)
Quiet ==
    /\ \A c \in Container : held'[c] \in {0, held[c]} /\ version[c] <= version'[c]
    /\ \A f \in Exec :
         \/ pass'[f] = pass[f] /\ (run'.owner = f => run.owner = f)
         \/ pass'[f].heard = Nothing
         \/ /\ pass'[f].heard = pass[f].heard
            /\ pass'[f].pc \notin {"idle", "claim"}
            /\ run'.owner = f => run.owner = f

LEMMA QuietKeeps ==
    ASSUME TypeOK, TypeOK', HeardInv, Quiet
    PROVE  HeardInv'
<1>0. /\ \A c \in Container : /\ held[c] \in Nat /\ held'[c] \in Nat
                              /\ version[c] \in Nat /\ version'[c] \in Nat
                              /\ Nothing[c] = 0
      /\ \A f \in Exec, c \in Container : /\ pass[f].heard[c] \in Nat
                                         /\ pass'[f].heard[c] \in Nat
  BY DEF TypeOK, Pass, Nothing
<1>1. (\A c \in Container : held[c] <= version[c])'
  BY <1>0 DEF Quiet, HeardInv
<1>2. \A f \in Exec, c \in Container : pass'[f].heard[c] \in {0, pass[f].heard[c]}
  BY <1>0 DEF Quiet
<1>3. (\A f \in Exec, c \in Container : pass[f].heard[c] <= version[c])'
  BY <1>0, <1>2 DEF Quiet, HeardInv
<1>4. (\A f \in Exec : At(f, "idle") \/ At(f, "claim") => pass[f].heard = Nothing)'
  BY DEF Quiet, HeardInv, At
<1>5. ASSUME NEW f \in Exec, NEW c \in Container, Owns(f)', pass'[f].heard[c] > 0
      PROVE  held'[c] <= pass'[f].heard[c]
  <2>1. Owns(f) /\ pass'[f].heard[c] = pass[f].heard[c]
    BY <1>0, <1>5 DEF Quiet, Owns
  <2> QED BY <1>0, <1>5, <2>1 DEF Quiet, HeardInv
<1> QED BY <1>1, <1>3, <1>4, <1>5 DEF HeardInv

(* What a pass hears is what the source says now. *)
LEMMA HearKeeps ==
    ASSUME TypeOK, TypeOK', HeardInv, NEW e \in Exec, NEW p \in Pass, Set(e, p),
           p.pc \notin {"idle", "claim"},
           \A c \in Container : p.heard[c] \in {0, version[c]},
           held' = held, version' = version, run' = run
    PROVE  HeardInv'
<1>0. /\ \A c \in Container : held[c] \in Nat /\ version[c] \in Nat
      /\ \A f \in Exec, c \in Container : pass[f].heard[c] \in Nat
  BY DEF TypeOK, Pass
<1>1. pass'[e] = p /\ \A f \in Exec : f # e => pass'[f] = pass[f]
  BY DEF Set, TypeOK
<1>2. (\A c \in Container : held[c] <= version[c])'
  BY DEF HeardInv
<1>3. (\A f \in Exec, c \in Container : pass[f].heard[c] <= version[c])'
  BY <1>0, <1>1 DEF HeardInv
<1>4. (\A f \in Exec : At(f, "idle") \/ At(f, "claim") => pass[f].heard = Nothing)'
  BY <1>1 DEF HeardInv, At
<1>5. (\A f \in Exec, c \in Container :
         Owns(f) /\ pass[f].heard[c] > 0 => held[c] <= pass[f].heard[c])'
  BY <1>0, <1>1 DEF HeardInv, Owns
<1> QED BY <1>2, <1>3, <1>4, <1>5 DEF HeardInv

(* A pass that stores owns the run; it forgets what it heard.              *)
LEMMA StoreKeeps ==
    ASSUME TypeOK, TypeOK', HeardInv, NEW e \in Exec, pass'[e].heard = Nothing,
           \A f \in Exec : f # e => pass'[f] = pass[f],
           version' = version, run' = run,
           \A c \in Container : held'[c] \in {held[c], pass[e].heard[c]},
           held' = held \/ Owns(e)
    PROVE  HeardInv'
<1>0. /\ \A c \in Container : /\ held[c] \in Nat /\ version[c] \in Nat
                              /\ held'[c] \in Nat /\ Nothing[c] = 0
      /\ \A f \in Exec, c \in Container : pass[f].heard[c] \in Nat
  BY DEF TypeOK, Pass, Nothing
<1>1. (\A c \in Container : held[c] <= version[c])'
  BY <1>0 DEF HeardInv
<1>2. (\A f \in Exec, c \in Container : pass[f].heard[c] <= version[c])'
  BY <1>0 DEF HeardInv
<1>3. (\A f \in Exec : At(f, "idle") \/ At(f, "claim") => pass[f].heard = Nothing)'
  BY DEF HeardInv, At
<1>4. ASSUME NEW f \in Exec, NEW c \in Container, Owns(f)', pass'[f].heard[c] > 0
      PROVE  held'[c] <= pass'[f].heard[c]
  <2>1. f # e BY <1>0, <1>4
  <2>2. Owns(f) /\ ~Owns(e) BY <1>4, <2>1 DEF Owns
  <2>3. held' = held /\ pass'[f] = pass[f] BY <2>1, <2>2
  <2> QED BY <1>4, <2>2, <2>3 DEF HeardInv
<1> QED BY <1>1, <1>2, <1>3, <1>4 DEF HeardInv
LEMMA HeardInit == Init => HeardInv
<1> SUFFICES ASSUME Init PROVE HeardInv OBVIOUS
<1>1. \A c \in Container : Nothing[c] = 0 BY DEF Nothing
<1>2. \A e \in Exec : pass[e].heard = Nothing BY DEF Init, Idle
<1> QED BY <1>1, <1>2 DEF Init, HeardInv

(* What Rewrite and Upsert store is what the pass has heard, and the pass  *)
(* owns the run if that differs from what is stored.                       *)
LEMMA RewriteStores ==
    ASSUME TypeOK, NEW e \in Exec, Rewrite(e)
    PROVE  /\ pass'[e].heard = Nothing
           /\ \A f \in Exec : f # e => pass'[f] = pass[f]
           /\ \A c \in Container : held'[c] \in {held[c], pass[e].heard[c]}
           /\ \A c \in Container : held'[c] # held[c] => pass[e].heard[c] # 0
           /\ held' = held \/ Owns(e)
<1>0. pass[e] \in Pass BY DEF TypeOK
<1> DEFINE p == [pass[e] EXCEPT !.pc = "next", !.heard = Nothing]
<1>1. p.heard = Nothing BY <1>0 DEF Pass
<1>2. Idle.heard = Nothing BY DEF Idle
<1>3. Leave(e) \/ Set(e, p) BY DEF Rewrite
<1> HIDE DEF p
<1>4. /\ pass'[e].heard = Nothing
      /\ \A f \in Exec : f # e => pass'[f] = pass[f]
  BY <1>1, <1>2, <1>3 DEF Leave, Set, TypeOK
<1>5. \A c \in Container : held'[c] \in {held[c], pass[e].heard[c]}
  BY DEF Rewrite
<1>6. \A c \in Container : held'[c] # held[c] => pass[e].heard[c] # 0
  BY DEF Rewrite
<1>7. held' = held \/ Owns(e)
  <2> DEFINE changed == {c \in Container : pass[e].heard[c] \notin {0, held[c]}}
  <2>1. CASE changed = {} BY <2>1 DEF Rewrite, TypeOK
  <2>2. CASE changed # {} BY <2>2 DEF Rewrite
  <2> QED BY <2>1, <2>2
<1> QED BY <1>4, <1>5, <1>6, <1>7

LEMMA UpsertStores ==
    ASSUME TypeOK, NEW e \in Exec, Upsert(e)
    PROVE  /\ pass'[e].heard = Nothing
           /\ \A f \in Exec : f # e => pass'[f] = pass[f]
           /\ \A c \in Container : held'[c] \in {held[c], pass[e].heard[c]}
           /\ held' = held \/ Owns(e)
<1>0. pass[e] \in Pass BY DEF TypeOK
<1>1. Leave(e) \/ \E u, S, T :
        Set(e, [pass[e] EXCEPT !.pc = "next", !.unit = u, !.next = Nowhere,
                  !.heard = Nothing, !.seen = S, !.pending = T])
  BY Zenon DEF Upsert
<1>2. Idle.heard = Nothing BY DEF Idle
<1>3. /\ pass'[e].heard = Nothing
      /\ \A f \in Exec : f # e => pass'[f] = pass[f]
  <2>1. CASE Leave(e) BY <1>2, <2>1 DEF Leave, Set, TypeOK
  <2>2. ASSUME NEW u, NEW S, NEW T,
               Set(e, [pass[e] EXCEPT !.pc = "next", !.unit = u, !.next = Nowhere,
                         !.heard = Nothing, !.seen = S, !.pending = T])
        PROVE  /\ pass'[e].heard = Nothing
               /\ \A f \in Exec : f # e => pass'[f] = pass[f]
    BY <1>0, <2>2 DEF Set, TypeOK, Pass
  <2> QED BY <1>1, <2>1, <2>2
<1>4. \A c \in Container : held'[c] \in {held[c], pass[e].heard[c]}
  BY DEF Upsert, TypeOK
<1>5. held' = held \/ Owns(e)
  <2>1. CASE Differs(e, pass[e].next) BY <2>1 DEF Upsert
  <2>2. CASE ~Differs(e, pass[e].next)
    BY <2>2 DEF Upsert, Differs, TypeOK
  <2> QED BY <2>1, <2>2
<1> QED BY <1>3, <1>4, <1>5

LEMMA PassHeard ==
    ASSUME TypeOK, TypeOK', HeardInv, NEW e \in Exec, PassStep(e)
    PROVE  HeardInv'
<1>0. pass[e] \in Pass BY DEF TypeOK
<1>1. CASE Claim(e)
  <2>1. [pass[e] EXCEPT !.pc = "begin", !.from = resumable].heard = pass[e].heard
    BY <1>0 DEF Pass
  <2>2. pass[e].heard = Nothing BY <1>1 DEF HeardInv, Claim
  <2>3. pass'[e].heard = Nothing BY <1>1, <2>1, <2>2 DEF Claim, Set, TypeOK
  <2>4. \A f \in Exec : f # e => pass'[f] = pass[f] /\ run'.owner # f
    BY <1>1 DEF Claim, Set, TypeOK, NoRun
  <2>5. held' = held /\ version' = version BY <1>1 DEF Claim, source, store
  <2>6. Quiet BY <2>3, <2>4, <2>5 DEF Quiet, TypeOK
  <2> QED BY <2>6, QuietKeeps
<1>2. CASE Refresh(e)
  <2> DEFINE h == [c \in Container |-> IF c \in live /\ held[c] > 0 THEN version[c] ELSE 0]
             p == [pass[e] EXCEPT !.pc = "rewrite", !.heard = h]
  <2>1. h \in [Container -> Nat] BY DEF TypeOK
  <2>2. p \in Pass BY <1>0, <2>1 DEF Pass, PassPC
  <2>3. p.pc = "rewrite" /\ p.heard = h BY <1>0 DEF Pass
  <2>4. Set(e, p) /\ held' = held /\ version' = version /\ run' = run
    BY <1>2 DEF Refresh, source, store
  <2>5. \A c \in Container : h[c] \in {0, version[c]} OBVIOUS
  <2> HIDE DEF p, h
  <2> QED BY <2>2, <2>3, <2>4, <2>5, HearKeeps
<1>3. CASE Rewrite(e)
  <2>1. version' = version /\ run' = run BY <1>3 DEF Rewrite, source
  <2> QED BY <1>3, <2>1, RewriteStores, StoreKeeps
<1>4. CASE Yield(e)
  <2>1. PICK c \in Coming(e) :
          Set(e, [pass[e] EXCEPT
               !.pc = IF pass[e].unit # Nowhere THEN "assert" ELSE "upsert",
               !.next = c, !.scope = {o \in @ : o > c},
               !.heard = [Nothing EXCEPT ![c] = version[c]]])
    BY <1>4 DEF Yield
  <2> DEFINE h == [Nothing EXCEPT ![c] = version[c]]
             p == [pass[e] EXCEPT
                     !.pc = IF pass[e].unit # Nowhere THEN "assert" ELSE "upsert",
                     !.next = c, !.scope = {o \in @ : o > c}, !.heard = h]
  <2>2. c \in Container /\ c \in 0..Top
    <3>1. c \in Container BY DEF Coming, TypeOK
    <3> QED BY <3>1, PermissionAssumption DEF Container, PermissionAssumption
  <2>3. h \in [Container -> Nat] BY <2>2, IdleType DEF TypeOK
  <2>4. {o \in pass[e].scope : o > c} \subseteq Container BY <1>0 DEF Pass
  <2>5. p \in Pass BY <1>0, <2>2, <2>3, <2>4 DEF Pass, PassPC
  <2>6. p.pc \notin {"idle", "claim"} /\ p.heard = h BY <1>0 DEF Pass
  <2>7. Set(e, p) BY <2>1
  <2>8. held' = held /\ version' = version /\ run' = run
    BY <1>4 DEF Yield, source, store
  <2>9. \A o \in Container : h[o] \in {0, version[o]} BY <2>2 DEF Nothing
  <2> HIDE DEF p, h
  <2> QED BY <2>5, <2>6, <2>7, <2>8, <2>9, HearKeeps
<1>5. CASE Upsert(e)
  <2>1. version' = version /\ run' = run BY <1>5 DEF Upsert, source
  <2> QED BY <1>5, <2>1, UpsertStores, StoreKeeps
<1>6. CASE Exhaust(e)
  <2> DEFINE p == [pass[e] EXCEPT
                     !.pc = IF pass[e].unit # Nowhere THEN "assert" ELSE Enumerated(e),
                     !.next = Nowhere, !.scope = {}, !.heard = Nothing]
  <2>1. p.heard = Nothing BY <1>0 DEF Pass
  <2>2. Set(e, p) BY <1>6 DEF Exhaust
  <2> HIDE DEF p
  <2>3. pass'[e].heard = Nothing /\ \A f \in Exec : f # e => pass'[f] = pass[f]
    BY <2>1, <2>2 DEF Set, TypeOK
  <2>4. held' = held /\ version' = version /\ run' = run
    BY <1>6 DEF Exhaust, source, store
  <2>5. Quiet BY <2>3, <2>4 DEF Quiet, TypeOK
  <2> QED BY <2>5, QuietKeeps
<1> DEFINE Kept == \/ pass'[e].heard = Nothing
                   \/ /\ pass'[e].heard = pass[e].heard
                      /\ pass'[e].pc \notin {"idle", "claim"}
           Others == \A f \in Exec : f # e => pass'[f] = pass[f]
<1>7. Leave(e) => Kept /\ Others BY DEF Leave, Set, TypeOK, Idle
<1>8. \A pc \in PassPC \ {"claim"} : Goto(e, pc) => Kept /\ Others
  BY <1>0 DEF Goto, Set, TypeOK, Pass, PassPC
<1>9. CASE \/ ClaimBusy(e) \/ Begin(e) \/ Mark(e) \/ AssertStillOwnsRun(e) \/ Assign(e)
           \/ FinishUnit(e) \/ Sweep(e) \/ Drop(e) \/ Finalize(e) \/ Publish(e)
  <2>1. version' = version
    BY <1>9 DEF ClaimBusy, Begin, Mark, AssertStillOwnsRun, Assign, FinishUnit, Sweep,
                Drop, Finalize, Publish, source
  <2>2. \A c \in Container : held'[c] \in {0, held[c]}
    BY <1>9 DEF ClaimBusy, Begin, Mark, AssertStillOwnsRun, Assign, FinishUnit, Sweep,
                Drop, Finalize, Publish, store
  <2>3. Kept /\ Others
    <3>1. CASE ClaimBusy(e) BY <1>7, <3>1 DEF ClaimBusy
    <3>2. CASE Begin(e)
      <4>1. PICK mode, scope : Decide(e, mode, scope) BY <3>2 DEF Begin
      <4> DEFINE pc == IF mode = "delta" THEN "refresh"
                       ELSE IF pass[e].from > Nowhere THEN "next" ELSE "mark"
                 p == [pass[e] EXCEPT !.pc = pc, !.mode = mode, !.scope = scope,
                         !.due = FALSE, !.from = NoCheckpoint]
      <4>2. p.heard = pass[e].heard /\ p.pc \notin {"idle", "claim"} BY <1>0 DEF Pass
      <4>3. Leave(e) \/ Set(e, p) BY <4>1 DEF Decide
      <4> HIDE DEF p
      <4> QED BY <1>7, <4>2, <4>3 DEF Set, TypeOK
    <3>3. CASE Mark(e) BY <1>8, <3>3 DEF Mark, PassPC
    <3>4. CASE AssertStillOwnsRun(e) BY <1>7, <1>8, <3>4 DEF AssertStillOwnsRun, PassPC
    <3>5. CASE Assign(e)
      <4>1. PICK S : Set(e, [pass[e] EXCEPT !.pending = S])
        BY <3>5, Zenon DEF Assign
      <4>2. /\ [pass[e] EXCEPT !.pending = S].heard = pass[e].heard
            /\ [pass[e] EXCEPT !.pending = S].pc = "assign"
        BY <1>0, <3>5 DEF Pass, Assign, At
      <4> QED BY <4>1, <4>2 DEF Set, TypeOK
    <3>6. CASE FinishUnit(e)
      <4> DEFINE p == [pass[e] EXCEPT !.progressed = TRUE, !.seen = {}, !.unit = Nowhere,
                  !.pc = IF pass[e].next # Nowhere THEN "upsert" ELSE Enumerated(e)]
      <4>1. p.heard = pass[e].heard /\ p.pc \notin {"idle", "claim"}
        BY <1>0 DEF Pass, Enumerated
      <4>2. Leave(e) \/ Set(e, p) BY <3>6 DEF FinishUnit
      <4> HIDE DEF p
      <4> QED BY <1>7, <4>1, <4>2 DEF Set, TypeOK
    <3>7. CASE Sweep(e) BY <1>8, <3>7 DEF Sweep, PassPC
    <3>8. CASE Drop(e) BY <1>8, <3>8 DEF Drop, PassPC
    <3>9. CASE Finalize(e) BY <1>7, <1>8, <3>9 DEF Finalize, PassPC
    <3>10. CASE Publish(e) BY <1>7, <3>10 DEF Publish
    <3> QED BY <1>9, <3>1, <3>2, <3>3, <3>4, <3>5, <3>6, <3>7, <3>8, <3>9, <3>10
  <2>4. \A f \in Exec : run'.owner = f => run.owner = f
    <3>1. NoRun.owner = Free /\ \A f \in Exec : f # Free
      BY PermissionAssumption DEF NoRun, PermissionAssumption
    <3>2. Begin(e) => run'.owner = run.owner
      <4>1. ASSUME NEW mode, NEW scope, Decide(e, mode, scope)
            PROVE  run'.owner = run.owner
        BY <4>1 DEF Decide, TypeOK
      <4> QED BY <4>1 DEF Begin
    <3>3. FinishUnit(e) => run'.owner = run.owner BY DEF FinishUnit, TypeOK
    <3>4. Finalize(e) => run' = NoRun \/ run' = run BY DEF Finalize
    <3>5. ClaimBusy(e) \/ Mark(e) \/ AssertStillOwnsRun(e) \/ Assign(e) \/ Sweep(e)
            \/ Drop(e) \/ Publish(e) => run' = run
      BY DEF ClaimBusy, Mark, AssertStillOwnsRun, Assign, Sweep, Drop, Publish
    <3> QED BY <1>9, <3>1, <3>2, <3>3, <3>4, <3>5
  <2>5. Quiet BY <2>1, <2>2, <2>3, <2>4 DEF Quiet, TypeOK
  <2> QED BY <2>5, QuietKeeps
<1> QED BY <1>1, <1>2, <1>3, <1>4, <1>5, <1>6, <1>9 DEF PassStep
LEMMA HeardNext ==
    ASSUME TypeOK, TypeOK', HeardInv, [Next]_vars
    PROVE  HeardInv'
<1>0. NoRun.owner = Free /\ \A f \in Exec : f # Free /\ f # Lost
  BY PermissionAssumption DEF NoRun, PermissionAssumption
<1>1. CASE UNCHANGED vars
  <2>1. Quiet BY <1>1 DEF vars, source, store, Quiet, TypeOK
  <2> QED BY <2>1, QuietKeeps
<1>2. ASSUME NEW e \in Exec, Start(e) PROVE HeardInv'
  <2>1. [Idle EXCEPT !.pc = "claim", !.tracked = TRUE, !.epoch = conn.epoch,
                     !.edits = conn.edits, !.due = conn.fullDue].heard = Nothing
    BY DEF Idle
  <2>2. \A f \in Exec : pass'[f] = pass[f] \/ pass'[f].heard = Nothing
    BY <1>2, <2>1 DEF Start, Set, TypeOK
  <2>3. Quiet BY <1>2, <2>2 DEF Start, Quiet, TypeOK, source, store
  <2> QED BY <2>3, QuietKeeps
<1>3. ASSUME NEW e \in Exec, PassStep(e) PROVE HeardInv' BY <1>3, PassHeard
<1>4. ASSUME NEW e \in Exec, Throw(e) \/ Crash(e) PROVE HeardInv'
  <2>1. \A f \in Exec : pass'[f] = pass[f] \/ pass'[f].heard = Nothing
    BY <1>4 DEF Throw, Crash, Leave, Set, Idle, TypeOK
  <2>2. \A f \in Exec : run'.owner = f => run.owner = f
    BY <1>0, <1>4 DEF Throw, Crash, TypeOK
  <2>3. held' = held /\ version' = version BY <1>4 DEF Throw, Crash, source, store
  <2>4. Quiet BY <2>1, <2>2, <2>3 DEF Quiet, TypeOK
  <2> QED BY <2>4, QuietKeeps
<1>5. ASSUME NEW e \in Exec, RequeueLive(e) PROVE HeardInv'
  <2>1. pass[e] \in Pass BY DEF TypeOK
  <2>2. pass'[e].heard = pass[e].heard /\ pass'[e].pc = pass[e].pc
    BY <1>5, <2>1 DEF RequeueLive, Set, TypeOK, Pass
  <2>3. \A f \in Exec : f # e => pass'[f] = pass[f]
    BY <1>5 DEF RequeueLive, Set, TypeOK
  <2>4. pass[e].pc = "idle" => pass[e].heard = Nothing BY DEF HeardInv, At
  <2>5. held' = held /\ version' = version /\ run' = run
    BY <1>5 DEF RequeueLive, source, store
  <2>6. Quiet BY <1>5, <2>2, <2>3, <2>4, <2>5 DEF Quiet, RequeueLive, At, TypeOK
  <2> QED BY <2>6, QuietKeeps
<1>6. CASE Reap \/ RequeueOrphan \/ Schedule \/ FullReconcileAgesOut
  <2>1. /\ held' = held /\ version' = version /\ pass' = pass
        /\ run' = run \/ run' = NoRun
    BY <1>6 DEF Reap, RequeueOrphan, Schedule, FullReconcileAgesOut, source, store
  <2>2. Quiet BY <1>0, <2>1 DEF Quiet, TypeOK
  <2> QED BY <2>2, QuietKeeps
<1>7. CASE \/ \E by \in {"rest", "bulk", "tool"}, vis \in Level \cup {AutoSync},
               edit \in BOOLEAN : Submit(by, vis, edit)
           \/ UpdateStep
  <2>1. version' = version /\ pass' = pass
    BY <1>7 DEF Submit, UpdateStep, Bump, Overwrite, Clear, Supersede, Enqueue, source
  <2>2. run' = run \/ run' = NoRun
    BY <1>7 DEF Submit, UpdateStep, Bump, Overwrite, Clear, Supersede, Enqueue
  <2>3. held' = held \/ held' = Nothing
    BY <1>7 DEF Submit, UpdateStep, Bump, Overwrite, Clear, Supersede, Enqueue, store
  <2>4. Quiet BY <1>0, <2>1, <2>2, <2>3 DEF Quiet, TypeOK, Nothing
  <2> QED BY <2>4, QuietKeeps
<1>8. CASE Change
  <2>1. held' = held /\ pass' = pass /\ run' = run BY <1>8 DEF Change, store
  <2>2. \A c \in Container : version[c] <= version'[c]
    BY <1>8 DEF Change, Share, Move, Delete, TypeOK
  <2>3. Quiet BY <2>1, <2>2 DEF Quiet
  <2> QED BY <2>3, QuietKeeps
<1> QED BY <1>1, <1>2, <1>3, <1>4, <1>5, <1>6, <1>7, <1>8 DEF Next

LEMMA NeverBack ==
    ASSUME TypeOK, TypeOK', HeardInv, [Next]_vars, NEW c \in Container,
           held[c] > 0, held'[c] > 0
    PROVE  held'[c] >= held[c]
<1>0. held[c] \in Nat /\ held'[c] \in Nat BY DEF TypeOK
<1>1. ASSUME NEW e \in Exec, Rewrite(e) \/ Upsert(e) PROVE held'[c] >= held[c]
  <2>1. held'[c] \in {held[c], pass[e].heard[c]} /\ (held' = held \/ Owns(e))
    BY <1>1, RewriteStores, UpsertStores
  <2> QED BY <1>0, <2>1 DEF HeardInv
<1>2. ASSUME NEW e \in Exec,
             Start(e) \/ PassStep(e) \/ Throw(e) \/ Crash(e) \/ RequeueLive(e),
             ~Rewrite(e), ~Upsert(e)
      PROVE  held'[c] \in {0, held[c]}
  <2>1. CASE Drop(e) BY <2>1 DEF Drop
  <2>2. CASE ~Drop(e)
    BY <1>2, <2>2
    DEF Start, PassStep, Throw, Crash, RequeueLive, Claim, ClaimBusy, Begin, Refresh, Mark,
        Yield, Exhaust, AssertStillOwnsRun, Assign, FinishUnit, Sweep, Finalize, Publish,
        store
  <2> QED BY <2>1, <2>2
<1>3. CASE UNCHANGED vars BY <1>0, <1>3 DEF vars, store
<1>4. CASE Reap \/ RequeueOrphan \/ Schedule \/ FullReconcileAgesOut \/ Change
  BY <1>0, <1>4
  DEF Reap, RequeueOrphan, Schedule, FullReconcileAgesOut, Change, store
<1>5. CASE \/ \E by \in {"rest", "bulk", "tool"}, vis \in Level \cup {AutoSync},
               edit \in BOOLEAN : Submit(by, vis, edit)
           \/ UpdateStep
  <2>1. held' = held \/ held' = Nothing
    BY <1>5 DEF Submit, UpdateStep, Bump, Overwrite, Clear, Supersede, Enqueue, store
  <2> QED BY <1>0, <2>1 DEF Nothing
<1> QED BY <1>0, <1>1, <1>2, <1>3, <1>4, <1>5 DEF Next

(* An audience that is stored is replaced only by a newer one, however     *)
(* late a pass that lost its run wakes up, and whoever writes meanwhile.   *)
THEOREM RevocationSticksHolds == Spec => RevocationSticks
<1>1. TypeOK /\ TypeOK' /\ HeardInv /\ [Next]_vars => HeardInv' BY HeardNext
<1>2. TypeOK /\ TypeOK' /\ HeardInv /\ [Next]_vars =>
        [\A c \in Container : held[c] > 0 /\ held'[c] > 0 => held'[c] >= held[c]]_vars
  BY NeverBack
<1> QED BY <1>1, <1>2, HeardInit, TypeCorrect, PTL DEF Spec, RevocationSticks

---------------------------------------------------------------------------
(* What an undisturbed pass is worth.  All that follows is about the pass  *)
(* that owns the run, or the checkpoint that the next one resumes, since   *)
(* `chain` was last set: until something sets it back, nobody else writes  *)
(* the store, and the source stays as it is.                               *)

Enumerating == {"next", "assert", "assign", "upsert"}
Reconciling == Enumerating \cup {"sweep", "drop", "finalize"}

(* A pass p: the containers to come are those above the unit that is open  *)
(* and the one that was yielded.                                           *)
ShapeStart(p) ==
    /\ p.pc \in {"idle", "claim", "begin"} =>
          p.unit = Nowhere /\ p.next = Nowhere /\ p.scope = {} /\ ~p.progressed
    /\ p.pc \in {"refresh", "rewrite", "mark"} => p.unit = Nowhere /\ p.next = Nowhere
    /\ p.mode = "delta" => p.pc \notin {"mark", "sweep", "drop"}
    /\ p.mode # "delta" => p.pc \notin {"refresh", "rewrite"}
ShapeUnit(p) ==
    /\ p.pc = "next" => p.next = Nowhere
    /\ p.pc = "upsert" => p.unit = Nowhere /\ p.next # Nowhere
    /\ p.pc \in {"assert", "assign"} =>
          p.unit # Nowhere /\ (p.next = Nowhere => p.scope = {})
    /\ p.pc \in {"sweep", "drop", "finalize"} =>
          p.scope = {} /\ p.unit = Nowhere /\ p.next = Nowhere
    /\ \A o \in p.scope : p.unit < o /\ p.next < o
    /\ p.next # Nowhere => p.unit < p.next
Shape(p) == ShapeStart(p) /\ ShapeUnit(p)

(* The run: only a pass in its middle owns it, and it has no checkpoint    *)
(* before the pass has begun.                                              *)
RunShape ==
    /\ run.owner = Free => run.cursor = NoCheckpoint
    /\ \A e \in Exec : Owns(e) => /\ pass[e].pc \in PassPC \ {"claim", "publish"}
                                  /\ At(e, "begin") => run.cursor = NoCheckpoint

AtLive == \A d \in Doc : at[d] \in live \cup {Nowhere}

Shapes == AtLive /\ RunShape /\ \A e \in Exec : Shape(pass[e])

LEMMA SetOne ==
    ASSUME TypeOK, NEW e \in Exec, NEW p, Set(e, p)
    PROVE  pass'[e] = p /\ \A f \in Exec : f # e => pass'[f] = pass[f]
BY DEF Set, TypeOK

LEMMA SetShapes ==
    ASSUME TypeOK, Shapes, NEW e \in Exec, NEW p, Set(e, p), Shape(p)
    PROVE  \A f \in Exec : Shape(pass'[f])
BY SetOne DEF Shapes

LEMMA IdleShape == Shape(Idle)
BY DEF Shape, ShapeStart, ShapeUnit, Idle, Nowhere

LEMMA LeaveShapes ==
    ASSUME TypeOK, Shapes, NEW e \in Exec, Leave(e)
    PROVE  (\A f \in Exec : Shape(pass'[f])) /\ pass'[e].pc = "idle"
<1>1. Idle.pc = "idle" BY DEF Idle
<1> QED BY <1>1, SetShapes, SetOne, IdleShape DEF Leave

(* A step of pass e that leaves the run to whom it belongs.                *)
LEMMA KeepsRun ==
    ASSUME TypeOK, Shapes, NEW e \in Exec, run' = run,
           \A f \in Exec : f # e => pass'[f] = pass[f],
           Owns(e) => pass'[e].pc \in PassPC \ {"claim", "publish", "begin"}
    PROVE  RunShape'
<1>1. ASSUME NEW f \in Exec, Owns(f)'
      PROVE  /\ pass'[f].pc \in PassPC \ {"claim", "publish"}
             /\ pass'[f].pc = "begin" => run.cursor = NoCheckpoint
  <2>1. Owns(f) BY <1>1 DEF Owns
  <2>2. CASE f = e BY <2>1, <2>2
  <2>3. CASE f # e BY <2>1, <2>3 DEF Shapes, RunShape, At
  <2> QED BY <2>2, <2>3
<1> QED BY <1>1 DEF RunShape, Shapes, At

(* Only e may own the run after it.                                        *)
LEMMA TakesRun ==
    ASSUME TypeOK, Shapes, NEW e \in Exec, run'.owner \in {e, Free, Lost},
           run'.owner = Free => run'.cursor = NoCheckpoint,
           run'.owner = e => /\ pass'[e].pc \in PassPC \ {"claim", "publish"}
                             /\ pass'[e].pc = "begin" => run'.cursor = NoCheckpoint
    PROVE  RunShape'
BY PermissionAssumption DEF RunShape, Owns, At, PermissionAssumption

LEMMA NoRunIs == NoRun.owner = Free /\ NoRun.cursor = NoCheckpoint
BY DEF NoRun

LEMMA KeepsSource == ASSUME AtLive, UNCHANGED source PROVE AtLive'
BY DEF AtLive, source

LEMMA CursorNumbers ==
    ASSUME TypeOK, NEW e \in Exec
    PROVE  /\ Top \in Nat /\ 0..Top \subseteq Int /\ Cursor \subseteq Int
           /\ pass[e] \in Pass
           /\ pass[e].unit \in 0..Top /\ pass[e].next \in 0..Top
           /\ pass[e].scope \subseteq 1..Top /\ pass[e].from \in Cursor
<1>1. pass[e] \in Pass BY DEF TypeOK
<1>2. Top \in Nat BY PermissionAssumption DEF PermissionAssumption
<1>3. 0..Top \subseteq Int BY <1>2
<1>4. Cursor \subseteq Int BY <1>2 DEF Cursor
<1> QED BY <1>1, <1>2, <1>3, <1>4 DEF Pass, Container


LEMMA ShapeBegin ==
    ASSUME TypeOK, Shapes, NEW e \in Exec,
           Start(e) \/ Claim(e) \/ ClaimBusy(e) \/ Begin(e) \/ Publish(e)
    PROVE  (\A f \in Exec : Shape(pass'[f])) /\ RunShape'
<1> USE CursorNumbers
<1>0. Shape(pass[e]) BY DEF Shapes
<1>1. CASE Start(e)
  <2> DEFINE p == [Idle EXCEPT !.pc = "claim", !.tracked = TRUE,
                                !.epoch = conn.epoch, !.edits = conn.edits,
                                !.due = conn.fullDue]
  <2>1. Shape(p)
    BY DEF Shape, ShapeStart, ShapeUnit, Idle, Nowhere
  <2>2. Set(e, p) \/ pass' = pass BY <1>1 DEF Start
  <2> HIDE DEF p
  <2>3. run' = run /\ At(e, "idle") BY <1>1 DEF Start
  <2>4. ~Owns(e) BY <2>3 DEF Shapes, RunShape, At, PassPC
  <2>5. \A f \in Exec : f # e => pass'[f] = pass[f] BY <2>2, SetOne
  <2>6. RunShape' BY <2>3, <2>4, <2>5, KeepsRun
  <2>7. \A f \in Exec : Shape(pass'[f]) BY <2>1, <2>2, SetShapes DEF Shapes
  <2> QED BY <2>6, <2>7
<1>2. CASE Claim(e)
  <2> DEFINE p == [pass[e] EXCEPT !.pc = "begin", !.from = resumable]
  <2>1. Set(e, p) /\ run' = [NoRun EXCEPT !.owner = e] /\ At(e, "claim")
    BY <1>2 DEF Claim
  <2>2. p.pc = "begin" /\ p.unit = pass[e].unit /\ p.next = pass[e].next
        /\ p.scope = pass[e].scope /\ p.mode = pass[e].mode
        /\ p.progressed = pass[e].progressed
    BY DEF Pass
  <2> HIDE DEF p
  <2>3. Shape(p) BY <1>0, <2>1, <2>2 DEF Shape, ShapeStart, ShapeUnit, At
  <2>4. run'.owner = e /\ run'.cursor = NoCheckpoint BY <2>1 DEF NoRun
  <2>5. pass'[e].pc = "begin" BY <2>1, <2>2, SetOne
  <2>6. RunShape' BY <2>4, <2>5, TakesRun DEF PassPC
  <2> QED BY <2>1, <2>3, <2>6, SetShapes
<1>3. CASE ClaimBusy(e)
  <2>1. Leave(e) /\ run' = run /\ At(e, "claim") BY <1>3 DEF ClaimBusy
  <2>2. ~Owns(e) BY <2>1 DEF Shapes, RunShape, At
  <2>3. \A f \in Exec : f # e => pass'[f] = pass[f] BY <2>1, SetOne DEF Leave
  <2> QED BY <2>1, <2>2, <2>3, KeepsRun, LeaveShapes
<1>4. CASE Begin(e)
  <2> PICK answer \in {"scoped", "full", "failed"} :
          \E scope \in ScopeFor(e, ModeFor(e, answer)) :
             Decide(e, ModeFor(e, answer), scope)
    BY <1>4 DEF Begin
  <2>1. PICK scope \in ScopeFor(e, ModeFor(e, answer)) :
           Decide(e, ModeFor(e, answer), scope)
    OBVIOUS
  <2> PICK mode \in Mode : mode = ModeFor(e, answer)
    BY DEF ModeFor, Mode
  <2> DEFINE pc == IF mode = "delta" THEN "refresh"
                   ELSE IF pass[e].from > Nowhere THEN "next" ELSE "mark"
             p == [pass[e] EXCEPT !.pc = pc, !.mode = mode, !.scope = scope,
                                  !.due = FALSE, !.from = NoCheckpoint]
  <2>2. scope \subseteq 1..Top BY DEF ScopeFor, Container
  <2>3. pass[e].unit = Nowhere /\ pass[e].next = Nowhere
    BY <1>0, <1>4 DEF Shape, ShapeStart, Begin, At
  <2>4. CASE Owns(e)
    <3>1. Set(e, p) /\ run'.owner = run.owner
      BY <2>1, <2>4 DEF Decide, TypeOK
    <3>2. p.pc = pc /\ p.unit = Nowhere /\ p.next = Nowhere
          /\ p.scope = scope /\ p.mode = mode
      BY <2>3 DEF Pass
    <3>3. pc \in {"refresh", "next", "mark"} /\ (pc = "refresh" <=> mode = "delta")
      OBVIOUS
    <3> HIDE DEF p, pc
    <3>7. \A o \in scope : Nowhere < o BY <2>2 DEF Nowhere
    <3>8. ShapeStart(p) BY <3>2, <3>3 DEF ShapeStart
    <3>9. ShapeUnit(p) BY <3>2, <3>3, <3>7 DEF ShapeUnit
    <3>4. Shape(p) BY <3>8, <3>9 DEF Shape
    <3>5. pass'[e].pc \in PassPC \ {"claim", "publish", "begin"}
      BY <3>1, <3>2, <3>3, SetOne DEF PassPC
    <3>6. RunShape'
      BY <2>4, <3>1, <3>5, TakesRun, PermissionAssumption
      DEF PermissionAssumption, Owns
    <3> QED BY <3>1, <3>4, <3>6, SetShapes
  <2>5. CASE ~Owns(e)
    <3>1. Leave(e) /\ run' = run BY <2>1, <2>5 DEF Decide
    <3>2. \A f \in Exec : f # e => pass'[f] = pass[f] BY <3>1, SetOne DEF Leave
    <3> QED BY <2>5, <3>1, <3>2, KeepsRun, LeaveShapes
  <2> QED BY <2>4, <2>5
<1>5. CASE Publish(e)
  <2>1. Leave(e) /\ run' = run /\ At(e, "publish") BY <1>5 DEF Publish
  <2>2. ~Owns(e) BY <2>1 DEF Shapes, RunShape, At
  <2>3. \A f \in Exec : f # e => pass'[f] = pass[f] BY <2>1, SetOne DEF Leave
  <2> QED BY <2>1, <2>2, <2>3, KeepsRun, LeaveShapes
<1> QED BY <1>1, <1>2, <1>3, <1>4, <1>5

(* A step of pass e within its pass, to state p, or out of it.             *)
LEMMA StepShapes ==
    ASSUME TypeOK, Shapes, NEW e \in Exec, run' = run, NEW p,
           \/ Leave(e) /\ ~Owns(e)
           \/ Set(e, p) /\ Shape(p) /\ p.pc \in PassPC \ {"claim", "publish", "begin"}
    PROVE  (\A f \in Exec : Shape(pass'[f])) /\ RunShape'
<1>1. CASE Leave(e) /\ ~Owns(e)
  <2>1. \A f \in Exec : f # e => pass'[f] = pass[f] BY <1>1, SetOne DEF Leave
  <2> QED BY <1>1, <2>1, KeepsRun, LeaveShapes
<1>2. CASE Set(e, p) /\ Shape(p) /\ p.pc \in PassPC \ {"claim", "publish", "begin"}
  BY <1>2, KeepsRun, SetOne, SetShapes
<1> QED BY <1>1, <1>2

LEMMA GotoShape ==
    ASSUME TypeOK, NEW e \in Exec, NEW pc
    PROVE  LET p == [pass[e] EXCEPT !.pc = pc] IN
           /\ p.pc = pc /\ p.unit = pass[e].unit /\ p.next = pass[e].next
           /\ p.scope = pass[e].scope /\ p.mode = pass[e].mode
           /\ p.progressed = pass[e].progressed
BY DEF TypeOK, Pass

LEMMA ShapeContainers ==
    ASSUME TypeOK, Shapes, NEW e \in Exec,
           Refresh(e) \/ Rewrite(e) \/ Mark(e) \/ Yield(e) \/ Exhaust(e)
    PROVE  (\A f \in Exec : Shape(pass'[f])) /\ RunShape'
<1> USE CursorNumbers DEF PassPC
<1>0. Shape(pass[e]) BY DEF Shapes
<1>1. CASE Refresh(e)
  <2> DEFINE h == [c \in Container |-> IF c \in live /\ held[c] > 0 THEN version[c] ELSE 0]
             p == [pass[e] EXCEPT !.pc = "rewrite", !.heard = h]
  <2>1. Set(e, p) /\ run' = run /\ At(e, "refresh") BY <1>1 DEF Refresh
  <2>2. p.pc = "rewrite" /\ p.unit = pass[e].unit /\ p.next = pass[e].next
        /\ p.scope = pass[e].scope /\ p.mode = pass[e].mode
    BY DEF Pass
  <2> HIDE DEF p, h
  <2>3. Shape(p) BY <1>0, <2>1, <2>2 DEF Shape, ShapeStart, ShapeUnit, At
  <2> QED BY <2>1, <2>2, <2>3, StepShapes
<1>2. CASE Rewrite(e)
  <2> DEFINE p == [pass[e] EXCEPT !.pc = "next", !.heard = Nothing]
  <2>1. (Leave(e) /\ ~Owns(e)) \/ Set(e, p) BY <1>2 DEF Rewrite
  <2>2. run' = run /\ At(e, "rewrite") BY <1>2 DEF Rewrite
  <2>3. p.pc = "next" /\ p.unit = pass[e].unit /\ p.next = pass[e].next
        /\ p.scope = pass[e].scope /\ p.mode = pass[e].mode
    BY DEF Pass
  <2> HIDE DEF p
  <2>4. Shape(p) BY <1>0, <2>2, <2>3 DEF Shape, ShapeStart, ShapeUnit, At
  <2> QED BY <2>1, <2>2, <2>3, <2>4, StepShapes
<1>3. CASE Mark(e)
  <2> DEFINE p == [pass[e] EXCEPT !.pc = "next"]
  <2>1. Set(e, p) /\ run' = run /\ At(e, "mark") BY <1>3 DEF Mark, Goto
  <2>2. p.pc = "next" /\ p.unit = pass[e].unit /\ p.next = pass[e].next
        /\ p.scope = pass[e].scope /\ p.mode = pass[e].mode
    BY GotoShape
  <2> HIDE DEF p
  <2>3. Shape(p) BY <1>0, <2>1, <2>2 DEF Shape, ShapeStart, ShapeUnit, At
  <2> QED BY <2>1, <2>2, <2>3, StepShapes
<1>4. CASE Yield(e)
  <2>1. PICK c \in Coming(e) :
          /\ \A o \in Coming(e) : c <= o
          /\ Set(e, [pass[e] EXCEPT
               !.pc = IF pass[e].unit # Nowhere THEN "assert" ELSE "upsert",
               !.next = c, !.scope = {o \in pass[e].scope : o > c},
               !.heard = [Nothing EXCEPT ![c] = version[c]]])
    BY <1>4 DEF Yield
  <2> DEFINE pc == IF pass[e].unit # Nowhere THEN "assert" ELSE "upsert"
             rest == {o \in pass[e].scope : o > c}
             h == [Nothing EXCEPT ![c] = version[c]]
             p == [pass[e] EXCEPT !.pc = pc, !.next = c, !.scope = rest, !.heard = h]
  <2>2. Set(e, p) /\ run' = run /\ At(e, "next") BY <1>4, <2>1 DEF Yield
  <2>3. p.pc = pc /\ p.unit = pass[e].unit /\ p.next = c
        /\ p.scope = rest /\ p.mode = pass[e].mode
    BY DEF Pass
  <2>4. pc \in {"assert", "upsert"} /\ (pc = "upsert" <=> pass[e].unit = Nowhere)
    OBVIOUS
  <2>5. c \in pass[e].scope /\ c \in 1..Top BY DEF Coming
  <2>6. pass[e].unit < c /\ \A o \in rest : pass[e].unit < o /\ c < o
    BY <1>0, <2>5 DEF Shape, ShapeUnit
  <2> HIDE DEF p, pc, rest, h
  <2>7. Shape(p)
    BY <2>3, <2>4, <2>5, <2>6 DEF Shape, ShapeStart, ShapeUnit, Nowhere
  <2> QED BY <2>2, <2>3, <2>4, <2>7, StepShapes
<1>5. CASE Exhaust(e)
  <2> DEFINE pc == IF pass[e].unit # Nowhere THEN "assert" ELSE Enumerated(e)
             p == [pass[e] EXCEPT !.pc = pc, !.next = Nowhere, !.scope = {},
                                  !.heard = Nothing]
  <2>1. Set(e, p) /\ run' = run /\ At(e, "next") BY <1>5 DEF Exhaust
  <2>2. p.pc = pc /\ p.unit = pass[e].unit /\ p.next = Nowhere
        /\ p.scope = {} /\ p.mode = pass[e].mode
    BY DEF Pass
  <2>3. /\ pass[e].unit # Nowhere => pc = "assert"
        /\ pass[e].unit = Nowhere =>
              pc \in {"sweep", "finalize"} /\ (pass[e].mode = "delta" => pc = "finalize")
    BY DEF Enumerated
  <2> HIDE DEF p, pc
  <2>4. Shape(p) BY <2>2, <2>3 DEF Shape, ShapeStart, ShapeUnit
  <2> QED BY <2>1, <2>2, <2>3, <2>4, StepShapes
<1> QED BY <1>1, <1>2, <1>3, <1>4, <1>5

LEMMA ShapeUnits ==
    ASSUME TypeOK, Shapes, NEW e \in Exec,
           \/ AssertStillOwnsRun(e) \/ Assign(e) \/ FinishUnit(e)
           \/ Upsert(e) \/ Sweep(e) \/ Drop(e)
    PROVE  (\A f \in Exec : Shape(pass'[f])) /\ RunShape'
<1> USE CursorNumbers DEF PassPC
<1>0. Shape(pass[e]) BY DEF Shapes
<1>1. CASE AssertStillOwnsRun(e)
  <2> DEFINE p == [pass[e] EXCEPT !.pc = "assign"]
  <2>1. (Leave(e) /\ ~Owns(e)) \/ Set(e, p) BY <1>1 DEF AssertStillOwnsRun, Goto
  <2>2. run' = run /\ At(e, "assert") BY <1>1 DEF AssertStillOwnsRun
  <2>3. p.pc = "assign" /\ p.unit = pass[e].unit /\ p.next = pass[e].next
        /\ p.scope = pass[e].scope /\ p.mode = pass[e].mode
    BY GotoShape
  <2> HIDE DEF p
  <2>4. Shape(p) BY <1>0, <2>2, <2>3 DEF Shape, ShapeStart, ShapeUnit, At
  <2> QED BY <2>1, <2>2, <2>3, <2>4, StepShapes
<1>2. CASE Assign(e)
  <2>1. PICK d \in pass[e].pending :
          Set(e, [pass[e] EXCEPT !.pending = pass[e].pending \ {d}])
    BY <1>2 DEF Assign
  <2> DEFINE p == [pass[e] EXCEPT !.pending = pass[e].pending \ {d}]
  <2>2. run' = run /\ At(e, "assign") BY <1>2 DEF Assign
  <2>3. p.pc = pass[e].pc /\ p.unit = pass[e].unit /\ p.next = pass[e].next
        /\ p.scope = pass[e].scope /\ p.mode = pass[e].mode
    BY DEF Pass
  <2>5. Set(e, p) BY <2>1
  <2> HIDE DEF p
  <2>4. Shape(p) BY <1>0, <2>2, <2>3 DEF Shape, ShapeStart, ShapeUnit, At
  <2> QED BY <2>2, <2>3, <2>4, <2>5, StepShapes DEF At
<1>3. CASE FinishUnit(e)
  <2> DEFINE pc == IF pass[e].next # Nowhere THEN "upsert" ELSE Enumerated(e)
             p == [pass[e] EXCEPT !.progressed = TRUE, !.seen = {}, !.unit = Nowhere,
                                  !.pc = pc]
  <2>1. At(e, "assign") BY <1>3 DEF FinishUnit
  <2>2. p.pc = pc /\ p.unit = Nowhere /\ p.next = pass[e].next
        /\ p.scope = pass[e].scope /\ p.mode = pass[e].mode
    BY DEF Pass
  <2>3. /\ pass[e].next # Nowhere => pc = "upsert"
        /\ pass[e].next = Nowhere =>
              pc \in {"sweep", "finalize"} /\ (pass[e].mode = "delta" => pc = "finalize")
    BY DEF Enumerated
  <2>4. CASE Owns(e)
    <3>1. Set(e, p) /\ run' = [run EXCEPT !.cursor = pass[e].unit]
      BY <1>3, <2>4 DEF FinishUnit
    <3> HIDE DEF p, pc
    <3>2. pass[e].unit # Nowhere /\ (pass[e].next = Nowhere => pass[e].scope = {})
      BY <1>0, <2>1 DEF Shape, ShapeUnit, At
    <3>3. \A o \in pass[e].scope : Nowhere < o
      BY DEF Nowhere
    <3>4. pass[e].next # Nowhere => Nowhere < pass[e].next BY DEF Nowhere
    <3>5. \A o \in pass[e].scope : pass[e].next < o
      BY <1>0 DEF Shape, ShapeUnit
    <3>6. ShapeStart(p) BY <2>2, <2>3 DEF ShapeStart
    <3>7. ShapeUnit(p) BY <2>2, <2>3, <3>2, <3>3, <3>4, <3>5 DEF ShapeUnit
    <3>8. run'.owner = e BY <2>4, <3>1 DEF TypeOK, Owns
    <3>9. pass'[e].pc = pc /\ pc \in {"upsert", "sweep", "finalize"}
      BY <2>2, <2>3, <3>1, SetOne
    <3>10. RunShape'
      BY <3>8, <3>9, TakesRun, PermissionAssumption DEF PermissionAssumption
    <3> QED BY <3>1, <3>6, <3>7, <3>10, SetShapes DEF Shape
  <2>5. CASE ~Owns(e)
    BY <1>3, <2>5, StepShapes DEF FinishUnit
  <2> QED BY <2>4, <2>5
<1>4. CASE Upsert(e)
  <2> DEFINE s == {d \in Doc : at[d] = pass[e].next}
             p == [pass[e] EXCEPT !.pc = "next", !.unit = pass[e].next, !.next = Nowhere,
                                  !.heard = Nothing, !.seen = s, !.pending = s]
  <2>1. (Leave(e) /\ ~Owns(e)) \/ Set(e, p) BY <1>4 DEF Upsert
  <2>2. run' = run /\ At(e, "upsert") BY <1>4 DEF Upsert
  <2>3. p.pc = "next" /\ p.unit = pass[e].next /\ p.next = Nowhere
        /\ p.scope = pass[e].scope /\ p.mode = pass[e].mode
    BY DEF Pass
  <2> HIDE DEF p, s
  <2>4. \A o \in pass[e].scope : pass[e].next < o /\ Nowhere < o
    BY <1>0 DEF Shape, ShapeUnit, Nowhere
  <2>5. ShapeStart(p) BY <2>3 DEF ShapeStart
  <2>6. ShapeUnit(p) BY <2>3, <2>4 DEF ShapeUnit
  <2> QED BY <2>1, <2>2, <2>3, <2>5, <2>6, StepShapes DEF Shape
<1>5. CASE Sweep(e) \/ Drop(e)
  <2> DEFINE p(pc) == [pass[e] EXCEPT !.pc = pc]
  <2>1. PICK pc \in {"drop", "finalize"} : Set(e, p(pc))
    BY <1>5 DEF Sweep, Drop, Goto
  <2>2. run' = run /\ pass[e].pc \in {"sweep", "drop"} BY <1>5 DEF Sweep, Drop, At
  <2>3. p(pc).pc = pc /\ p(pc).unit = pass[e].unit /\ p(pc).next = pass[e].next
        /\ p(pc).scope = pass[e].scope /\ p(pc).mode = pass[e].mode
    BY GotoShape
  <2> HIDE DEF p
  <2>4. Shape(p(pc)) BY <1>0, <2>2, <2>3 DEF Shape, ShapeStart, ShapeUnit
  <2> QED BY <2>1, <2>2, <2>3, <2>4, StepShapes
<1> QED BY <1>1, <1>2, <1>3, <1>4, <1>5

(* Nobody owns the run after it. *)
LEMMA FreesRun ==
    ASSUME TypeOK, Shapes, run' = NoRun
    PROVE  RunShape'
BY NoRunIs, PermissionAssumption DEF RunShape, Owns, PermissionAssumption

LEMMA ShapeEnds ==
    ASSUME TypeOK, Shapes, NEW e \in Exec,
           Finalize(e) \/ Throw(e) \/ Crash(e) \/ RequeueLive(e)
    PROVE  (\A f \in Exec : Shape(pass'[f])) /\ RunShape'
<1> USE CursorNumbers
<1>0. Shape(pass[e]) BY DEF Shapes
<1>1. CASE Finalize(e)
  <2>1. CASE Owns(e)
    <3> DEFINE p == [pass[e] EXCEPT !.pc = "publish"]
    <3>1. Set(e, p) /\ run' = NoRun /\ At(e, "finalize")
      BY <1>1, <2>1 DEF Finalize, Goto
    <3>2. p.pc = "publish" /\ p.unit = pass[e].unit /\ p.next = pass[e].next
          /\ p.scope = pass[e].scope /\ p.mode = pass[e].mode
      BY GotoShape
    <3> HIDE DEF p
    <3>3. Shape(p) BY <1>0, <3>1, <3>2 DEF Shape, ShapeStart, ShapeUnit, At
    <3> QED BY <3>1, <3>3, FreesRun, SetShapes
  <2>2. CASE ~Owns(e)
    BY <1>1, <2>2, StepShapes DEF Finalize
  <2> QED BY <2>1, <2>2
<1>2. CASE Throw(e)
  <2>1. CASE Owns(e)
    BY <1>2, <2>1, FreesRun, LeaveShapes DEF Throw
  <2>2. CASE ~Owns(e)
    BY <1>2, <2>2, StepShapes DEF Throw
  <2> QED BY <2>1, <2>2
<1>3. CASE Crash(e)
  <2>1. CASE Owns(e)
    <3>1. run'.owner = Lost BY <1>3, <2>1 DEF Crash, TypeOK
    <3>2. RunShape'
      BY <3>1, PermissionAssumption DEF RunShape, Owns, Free, Lost, PermissionAssumption
    <3> QED BY <1>3, <3>2, LeaveShapes DEF Crash
  <2>2. CASE ~Owns(e)
    BY <1>3, <2>2, StepShapes DEF Crash
  <2> QED BY <2>1, <2>2
<1>4. CASE RequeueLive(e)
  <2> DEFINE p == [pass[e] EXCEPT !.tracked = FALSE]
  <2>1. Set(e, p) /\ run' = run /\ run.owner = Free BY <1>4 DEF RequeueLive
  <2>2. p.pc = pass[e].pc /\ p.unit = pass[e].unit /\ p.next = pass[e].next
        /\ p.scope = pass[e].scope /\ p.mode = pass[e].mode
        /\ p.progressed = pass[e].progressed
    BY DEF Pass
  <2> HIDE DEF p
  <2>3. Shape(p) BY <1>0, <2>2 DEF Shape, ShapeStart, ShapeUnit
  <2>4. ~Owns(e) BY <2>1, PermissionAssumption DEF Owns, PermissionAssumption
  <2>5. \A f \in Exec : f # e => pass'[f] = pass[f] BY <2>1, SetOne
  <2> QED BY <2>1, <2>3, <2>4, <2>5, KeepsRun, SetShapes
<1> QED BY <1>1, <1>2, <1>3, <1>4

(* Every step keeps the shapes. *)
LEMMA ShapesNext == TypeOK /\ Shapes /\ [Next]_vars => Shapes'
<1> SUFFICES ASSUME TypeOK, Shapes, [Next]_vars PROVE Shapes' OBVIOUS
<1>0. AtLive BY DEF Shapes
<1>1. ASSUME NEW e \in Exec, Start(e) \/ PassStep(e) \/ Throw(e) \/ Crash(e) \/ RequeueLive(e)
      PROVE  Shapes'
  <2>1. UNCHANGED source
    BY <1>1 DEF PassStep, Start, Claim, ClaimBusy, Begin, Refresh, Rewrite, Mark, Yield,
       Exhaust, AssertStillOwnsRun, Assign, FinishUnit, Upsert, Sweep, Drop, Finalize,
       Publish, Throw, Crash, RequeueLive
  <2>2. (\A f \in Exec : Shape(pass'[f])) /\ RunShape'
    BY <1>1, ShapeBegin, ShapeContainers, ShapeUnits, ShapeEnds DEF PassStep
  <2> QED BY <1>0, <2>1, <2>2, KeepsSource DEF Shapes
<1>2. ASSUME UNCHANGED <<run, pass>>, AtLive' PROVE Shapes'
  BY <1>2 DEF Shapes, RunShape, Shape, ShapeStart, ShapeUnit, Owns, At
<1>3. ASSUME run' = NoRun, UNCHANGED <<source, pass>> PROVE Shapes'
  <2>1. RunShape' BY <1>3, FreesRun
  <2> QED BY <1>0, <1>3, <2>1, KeepsSource DEF Shapes
<1>4. CASE Reap \/ Supersede BY <1>3, <1>4 DEF Reap, Supersede
<1>5. ASSUME \/ RequeueOrphan \/ Schedule \/ FullReconcileAgesOut
             \/ Bump \/ Overwrite \/ Clear \/ Enqueue \/ UNCHANGED vars
      PROVE  Shapes'
  BY <1>0, <1>2, <1>5, KeepsSource
  DEF RequeueOrphan, Schedule, FullReconcileAgesOut, Bump, Overwrite, Clear, Enqueue, vars
<1>6. ASSUME NEW by \in {"rest", "bulk", "tool"}, NEW vis \in Level \cup {AutoSync},
             NEW edit \in BOOLEAN, Submit(by, vis, edit)
      PROVE  Shapes'
  BY <1>0, <1>2, <1>6, KeepsSource DEF Submit
<1>7. CASE Change
  <2>1. UNCHANGED <<run, pass>> BY <1>7 DEF Change
  <2>2. CASE \E c \in Container : Share(c)
    BY <1>0, <1>2, <2>1, <2>2 DEF Share, AtLive
  <2>3. CASE \E d \in Doc, c \in 0..Top : Move(d, c)
    <3>1. PICK d \in Doc, c \in 0..Top : Move(d, c) BY <2>3
    <3>2. c \in live \cup {Nowhere} /\ at' = [at EXCEPT ![d] = c] /\ live' = live
      BY <3>1 DEF Move
    <3> QED BY <1>0, <1>2, <2>1, <3>2 DEF AtLive, TypeOK
  <2>4. CASE \E c \in Container : Delete(c)
    BY <1>0, <1>2, <2>1, <2>4 DEF Delete, AtLive
  <2> QED BY <1>7, <2>2, <2>3, <2>4 DEF Change
<1> QED BY <1>1, <1>4, <1>5, <1>6, <1>7 DEF Next, UpdateStep

---------------------------------------------------------------------------
LEMMA ShapesInit == Init => Shapes
<1> SUFFICES ASSUME Init PROVE Shapes OBVIOUS
<1>1. AtLive BY DEF Init, AtLive
<1>2. \A e \in Exec : Shape(pass[e]) BY IdleShape DEF Init
<1>3. RunShape
  BY PermissionAssumption DEF Init, RunShape, NoRun, Owns, PermissionAssumption
<1> QED BY <1>1, <1>2, <1>3 DEF Shapes

(* Container c is done: its audience is stored as it is in the source, the *)
(* documents in it are placed, and those that have left it are closed.     *)
Done(c) ==
    /\ held[c] = version[c] /\ c \notin stale
    /\ \A d \in Doc : /\ at[d] = c => Placed(d, c)
                      /\ key[d] = c /\ at[d] # c => acl[d] = Closed

(* The rows of containers that are gone carry the mark.                    *)
Marked == \A c \in Container \ live : held[c] > 0 => c \in stale

(* A checkpoint at k is true: what lies before it need not be seen again.  *)
UpTo(k) == k > Nowhere => Marked /\ \A c \in live : c <= k => Done(c)
Checkpointed ==
    /\ UpTo(run.cursor)
    /\ run.owner = Free => UpTo(resumable)
    /\ \A e \in Exec : Owns(e) /\ At(e, "begin") => UpTo(pass[e].from)

(* A full pass p: what it has behind it is done, the container it holds    *)
(* was heard of as it is, the open unit has what p has not still to place, *)
(* and at the end nothing is left to do.                                   *)
FullStart(p) ==
    /\ p.epoch = conn.epoch /\ p.mode # "delta"
    /\ p.pc = "mark" => run.cursor = Nowhere /\ p.scope = Container
    /\ p.pc # "mark" => Marked
FullDone(p) ==
    p.pc \in Reconciling => \A c \in live \ (p.scope \cup {p.unit, p.next}) : Done(c)
FullNext(p) ==
    p.next # Nowhere => p.next \in live /\ p.heard[p.next] = version[p.next]
FullUnit(p) ==
    p.unit # Nowhere =>
       /\ held[p.unit] = version[p.unit] /\ p.unit \notin stale
       /\ p.seen = {d \in Doc : at[d] = p.unit} /\ p.pending \subseteq p.seen
       /\ \A d \in p.seen \ p.pending : Placed(d, p.unit)
FullEnd(p) == p.pc = "finalize" => InSync
FullPass(p) == FullStart(p) /\ FullDone(p) /\ FullNext(p) /\ FullUnit(p) /\ FullEnd(p)

(* A delta p: once the stored audiences were heard again, none is old.     *)
DeltaPass(p) ==
    p.mode = "delta" =>
      /\ p.pc = "rewrite" =>
           p.heard = [c \in Container |-> IF c \in live /\ held[c] > 0 THEN version[c] ELSE 0]
      /\ p.pc \notin {"refresh", "rewrite"} => AudiencesTrue
      /\ p.next # Nowhere => p.heard[p.next] = version[p.next]

Begun(e) == Owns(e) /\ ~At(e, "begin")
FullInv == chain = "full" =>
    Checkpointed /\ \A e \in Exec : Begun(e) => FullPass(pass[e])
DeltaInv == chain = "delta" => \A e \in Exec : Begun(e) => DeltaPass(pass[e])
ChainInv == Shapes /\ FullInv /\ DeltaInv

LEMMA DisturbChain == ASSUME Disturb PROVE FullInv' /\ DeltaInv'
BY DEF Disturb, FullInv, DeltaInv

LEMMA StillUpTo ==
    ASSUME UNCHANGED <<source, store>>
    PROVE  /\ Marked' = Marked /\ InSync' = InSync /\ AudiencesTrue' = AudiencesTrue
           /\ \A k : UpTo(k) => UpTo(k)'
           /\ \A c : Done(c) => Done(c)'
<1> USE DEF source, store
<1>1. Marked' = Marked BY DEF Marked
<1>2. \A c : Done(c) => Done(c)' BY DEF Done, Placed
<1>3. InSync' = InSync BY DEF InSync, Placed, Readable, Forgotten
<1>4. AudiencesTrue' = AudiencesTrue BY DEF AudiencesTrue
<1>5. \A k : UpTo(k) => UpTo(k)' BY <1>1, <1>2 DEF UpTo
<1> QED BY <1>1, <1>2, <1>3, <1>4, <1>5

(* A step that touches neither the source nor the store nor the pass that  *)
(* owns the run.                                                           *)
LEMMA StillChain ==
    ASSUME TypeOK, FullInv, DeltaInv,
           UNCHANGED <<source, store, run, resumable, chain>>, conn'.epoch = conn.epoch,
           \A e \in Exec : Owns(e) => pass'[e] = pass[e]
    PROVE  FullInv' /\ DeltaInv'
<1> USE StillUpTo
<1>1. \A e \in Exec : Begun(e)' => Begun(e) /\ pass'[e] = pass[e]
  BY DEF Begun, Owns, At
<1>2. ASSUME chain = "full" PROVE Checkpointed'
  BY <1>2 DEF FullInv, Checkpointed, Owns, At
<1>3. ASSUME chain = "full", NEW e \in Exec, Begun(e)' PROVE FullPass(pass[e])'
  <2> PICK p : p = pass[e] OBVIOUS
  <2>1. FullPass(p) /\ pass'[e] = p BY <1>1, <1>3 DEF FullInv
  <2>2. FullStart(p)' BY <2>1 DEF FullPass, FullStart
  <2>3. FullDone(p)' BY <2>1 DEF FullPass, FullDone, source
  <2>4. FullNext(p)' BY <2>1 DEF FullPass, FullNext, source
  <2>5. FullUnit(p)' BY <2>1 DEF FullPass, FullUnit, source, store, Placed
  <2>6. FullEnd(p)' BY <2>1 DEF FullPass, FullEnd, store
  <2>7. FullPass(p)' BY <2>2, <2>3, <2>4, <2>5, <2>6 DEF FullPass
  <2> QED BY <2>1, <2>7
<1>4. ASSUME chain = "delta", NEW e \in Exec, Begun(e)' PROVE DeltaPass(pass[e])'
  <2> PICK p : p = pass[e] OBVIOUS
  <2>1. DeltaPass(p) /\ pass'[e] = p BY <1>1, <1>4 DEF DeltaInv
  <2>2. DeltaPass(p)' BY <2>1 DEF DeltaPass, source, store
  <2> QED BY <2>1, <2>2
<1> QED BY <1>2, <1>3, <1>4 DEF FullInv, DeltaInv

LEMMA OwnerKnows ==
    ASSUME FullInv, DeltaInv, NEW e \in Exec, Owns(e), ~At(e, "begin")
    PROVE  /\ chain = "full" => UpTo(run.cursor) /\ FullPass(pass[e])
           /\ chain = "delta" => DeltaPass(pass[e])
BY DEF FullInv, DeltaInv, Begun, Checkpointed

LEMMA OwnerChain ==
    ASSUME NEW e \in Exec, NEW q, run'.owner = e, pass'[e] = q, q.pc # "begin",
           chain' = "full" => UpTo(run.cursor)' /\ FullPass(q)',
           chain' = "delta" => DeltaPass(q)'
    PROVE  FullInv' /\ DeltaInv'
<1>1. e # Free BY PermissionAssumption DEF PermissionAssumption
<1>2. \A f \in Exec : Begun(f)' => f = e BY DEF Begun, Owns
<1>3. ASSUME chain' = "full" PROVE Checkpointed'
  BY <1>1, <1>3 DEF Checkpointed, Owns, At
<1>4. ASSUME chain' = "full", NEW f \in Exec, Begun(f)' PROVE FullPass(pass[f])'
  BY <1>2, <1>4
<1>5. ASSUME chain' = "delta", NEW f \in Exec, Begun(f)' PROVE DeltaPass(pass[f])'
  BY <1>2, <1>5
<1> QED BY <1>3, <1>4, <1>5 DEF FullInv, DeltaInv

(* A step of a pass that does not own the run, and writes nothing. *)
LEMMA OtherChain ==
    ASSUME TypeOK, FullInv, DeltaInv, NEW e \in Exec, ~Owns(e),
           UNCHANGED <<source, store, run, resumable, chain>>, conn'.epoch = conn.epoch,
           \A f \in Exec : f # e => pass'[f] = pass[f]
    PROVE  FullInv' /\ DeltaInv'
BY StillChain

LEMMA ChainBegin ==
    ASSUME TypeOK, ChainInv, NEW e \in Exec,
           Start(e) \/ Claim(e) \/ ClaimBusy(e) \/ Begin(e) \/ Publish(e)
    PROVE  FullInv' /\ DeltaInv'
<1> USE DEF ChainInv
<1>0. ASSUME NEW p, Set(e, p) PROVE \A f \in Exec : f # e => pass'[f] = pass[f]
  BY <1>0, SetOne
<1>1. CASE Start(e) \/ ClaimBusy(e) \/ Publish(e)
  <2>1. ~Owns(e)
    BY <1>1 DEF Shapes, RunShape, Start, ClaimBusy, Publish, At, PassPC
  <2>2. \A f \in Exec : f # e => pass'[f] = pass[f]
    BY <1>0, <1>1 DEF Start, ClaimBusy, Publish, Leave
  <2>3. conn'.epoch = conn.epoch BY <1>1 DEF Start, ClaimBusy, Publish, TypeOK, ConnRow
  <2>4. UNCHANGED <<source, store, run, resumable, chain>>
    BY <1>1 DEF Start, ClaimBusy, Publish
  <2> QED BY <2>1, <2>2, <2>3, <2>4, OtherChain
<1>2. CASE Claim(e)
  <2>1. /\ run.owner = Free /\ run'.owner = e /\ run'.cursor = NoCheckpoint
        /\ UNCHANGED <<source, store, chain>>
    BY <1>2 DEF Claim, NoRun
  <2>2. pass'[e] = [pass[e] EXCEPT !.pc = "begin", !.from = resumable]
    BY <1>2, SetOne DEF Claim
  <2>3. pass'[e].pc = "begin" /\ pass'[e].from = resumable
    BY <2>2, CursorNumbers DEF Pass
  <2>4. \A f \in Exec : ~Begun(f)' BY <2>1, <2>3 DEF Begun, Owns, At
  <2>5. ASSUME chain = "full" PROVE Checkpointed'
    <3>1. UpTo(resumable)' /\ resumable' = resumable
      BY <1>2, <2>1, <2>5, StillUpTo DEF FullInv, Checkpointed, Claim
    <3>2. UpTo(run.cursor)' BY <2>1 DEF UpTo, NoCheckpoint, Nowhere
    <3>3. run'.owner # Free BY <2>1, PermissionAssumption DEF PermissionAssumption
    <3>4. ASSUME NEW f \in Exec, Owns(f)' PROVE UpTo(pass[f].from)'
      BY <2>1, <2>3, <3>1, <3>4 DEF Owns
    <3> QED BY <3>2, <3>3, <3>4 DEF Checkpointed
  <2> QED BY <2>1, <2>4, <2>5 DEF FullInv, DeltaInv
<1>3. CASE Begin(e)
  <2> PICK answer \in {"scoped", "full", "failed"} :
          \E scope \in ScopeFor(e, ModeFor(e, answer)) :
             Decide(e, ModeFor(e, answer), scope)
    BY <1>3 DEF Begin
  <2>1. PICK scope \in ScopeFor(e, ModeFor(e, answer)) :
           Decide(e, ModeFor(e, answer), scope)
    OBVIOUS
  <2>2. UNCHANGED <<source, store, conn, resumable>> /\ At(e, "begin")
    BY <1>3 DEF Begin
  <2>3. CASE ~Owns(e)
    <3>1. Leave(e) /\ UNCHANGED <<run, chain>> BY <2>1, <2>3 DEF Decide
    <3> QED BY <1>0, <2>2, <2>3, <3>1, OtherChain DEF Leave
  <2>4. CASE Owns(e)
    <3> PICK mode \in Mode : mode = ModeFor(e, answer) BY DEF ModeFor, Mode
    <3> PICK p \in Pass : p = pass[e] BY DEF TypeOK
    <3> DEFINE pc == IF mode = "delta" THEN "refresh"
                     ELSE IF p.from > Nowhere THEN "next" ELSE "mark"
    <3> PICK q : q = [p EXCEPT !.pc = pc, !.mode = mode, !.scope = scope,
                               !.due = FALSE, !.from = NoCheckpoint]
      OBVIOUS
    <3>1. /\ pass'[e] = q
          /\ run'.cursor = (IF p.from > Nowhere THEN p.from ELSE Nowhere)
          /\ run'.owner = e
          /\ chain' = (IF ~Current(e) \/ conn.vis # AutoSync THEN "nothing"
                       ELSE IF p.from > Nowhere THEN chain
                       ELSE IF mode = "delta" THEN "delta" ELSE "full")
      BY <2>1, <2>4, SetOne DEF Decide, TypeOK, Owns
    <3>2. /\ q.pc = pc /\ q.mode = mode /\ q.scope = scope /\ q.epoch = p.epoch
          /\ q.unit = p.unit /\ q.next = p.next
      BY DEF Pass
    <3>3. p.unit = Nowhere /\ p.next = Nowhere
      BY <2>2 DEF Shapes, Shape, ShapeStart, At
    <3>4. p.from \in Cursor /\ Cursor \subseteq Int /\ Top \in Nat
      BY CursorNumbers
    <3>5. mode = "delta" => p.from = NoCheckpoint
      BY DEF ModeFor
    <3>6. mode # "delta" => scope = {c \in Container : c >= p.from}
      BY DEF ScopeFor
    <3>7. ASSUME chain' = "delta" PROVE DeltaPass(q)'
      <4>1. mode # "delta" \/ pc = "refresh" OBVIOUS
      <4> QED BY <3>2, <3>3, <4>1 DEF DeltaPass
    <3>8. ASSUME chain' = "full" PROVE UpTo(run.cursor)' /\ FullPass(q)'
      <4>1. mode # "delta" /\ Current(e) /\ (p.from > Nowhere => chain = "full")
        BY <3>1, <3>5, <3>8 DEF Nowhere, NoCheckpoint
      <4>2. CASE p.from > Nowhere
        <5>1. UpTo(p.from) BY <2>2, <2>4, <4>1, <4>2 DEF FullInv, Checkpointed
        <5>2. UpTo(p.from)' BY <2>2, <5>1, StillUpTo
        <5>3. pc = "next" /\ Marked /\ \A c \in live : c <= p.from => Done(c)
          BY <4>1, <4>2, <5>1 DEF UpTo
        <5>4. FullStart(q)'
          BY <2>2, <3>2, <4>1, <5>3, StillUpTo DEF FullStart, Current
        <5>5. ASSUME NEW c \in live, c \notin scope PROVE Done(c)
          <6>1. c \in Container BY <5>5 DEF TypeOK
          <6>2. c \in Int BY <3>4, <6>1 DEF Container
          <6>3. c <= p.from BY <3>4, <3>6, <4>1, <5>5, <6>1, <6>2
          <6> QED BY <5>3, <6>3
        <5>6. FullDone(q)'
          BY <2>2, <3>2, <5>5, StillUpTo DEF FullDone, source
        <5>7. FullNext(q)' /\ FullUnit(q)' /\ FullEnd(q)'
          BY <3>2, <3>3, <5>3 DEF FullNext, FullUnit, FullEnd
        <5> QED BY <3>1, <4>2, <5>2, <5>4, <5>6, <5>7 DEF FullPass
      <4>3. CASE ~(p.from > Nowhere)
        <5>1. pc = "mark" BY <4>1, <4>3
        <5>7. p.from \in Int BY <3>4
        <5>8. \A c \in Container : c >= p.from
          BY <3>4, <4>3, <5>7 DEF Container, Nowhere
        <5>2. scope = Container BY <3>6, <4>1, <5>8
        <5>3. UpTo(run.cursor)' BY <3>1, <4>3 DEF UpTo, Nowhere
        <5>4. FullStart(q)'
          BY <2>2, <3>1, <3>2, <4>1, <4>3, <5>1, <5>2 DEF FullStart, Current
        <5>5. FullDone(q)' BY <3>2, <5>1 DEF FullDone, Reconciling, Enumerating
        <5>6. FullNext(q)' /\ FullUnit(q)' /\ FullEnd(q)'
          BY <3>2, <3>3, <5>1 DEF FullNext, FullUnit, FullEnd
        <5> QED BY <5>3, <5>4, <5>5, <5>6 DEF FullPass
      <4> QED BY <4>2, <4>3
    <3>9. q.pc # "begin" BY <3>2
    <3> QED BY <3>1, <3>7, <3>8, <3>9, OwnerChain
  <2> QED BY <2>3, <2>4
<1> QED BY <1>1, <1>2, <1>3

(* A step of the owner e to state q that writes nothing: what is left to   *)
(* show are the parts of its pass that it changes.                         *)
LEMMA ReadChain ==
    ASSUME TypeOK, ChainInv, NEW e \in Exec, NEW p \in Pass, NEW q,
           p = pass[e], pass'[e] = q, q.pc # "begin", ~At(e, "begin"), Owns(e),
           UNCHANGED <<source, store, run, chain>>, conn'.epoch = conn.epoch,
           FullPass(p) => FullPass(q), DeltaPass(p) => DeltaPass(q)
    PROVE  FullInv' /\ DeltaInv'
<1>1. chain = "full" => UpTo(run.cursor) /\ FullPass(q)
  BY OwnerKnows DEF ChainInv
<1>2. chain = "delta" => DeltaPass(q) BY OwnerKnows DEF ChainInv
<1>3. ASSUME FullPass(q) PROVE FullPass(q)'
  <2>1. FullStart(q)' BY <1>3, StillUpTo DEF FullPass, FullStart
  <2>2. FullDone(q)' BY <1>3, StillUpTo DEF FullPass, FullDone, source
  <2>3. FullNext(q)' BY <1>3 DEF FullPass, FullNext, source
  <2>4. FullUnit(q)' BY <1>3 DEF FullPass, FullUnit, source, store, Placed
  <2>5. FullEnd(q)' BY <1>3, StillUpTo DEF FullPass, FullEnd, store
  <2> QED BY <2>1, <2>2, <2>3, <2>4, <2>5 DEF FullPass
<1>4. ASSUME DeltaPass(q) PROVE DeltaPass(q)'
  BY <1>4, StillUpTo DEF DeltaPass, source, store
<1>5. run'.owner = e BY DEF Owns
<1>6. chain' = "full" => UpTo(run.cursor)' BY <1>1, StillUpTo
<1> QED BY <1>1, <1>2, <1>3, <1>4, <1>5, <1>6, OwnerChain

LEMMA ChainContainers ==
    ASSUME TypeOK, ChainInv, NEW e \in Exec,
           Refresh(e) \/ Yield(e) \/ Exhaust(e) \/ AssertStillOwnsRun(e)
    PROVE  FullInv' /\ DeltaInv'
<1> PICK p \in Pass : p = pass[e] BY DEF TypeOK
<1>0. Shape(p) BY DEF Shapes, ChainInv
<1>1. /\ UNCHANGED <<source, store, run, resumable, chain, conn>> /\ conn'.epoch = conn.epoch
      /\ p.pc \in {"refresh", "next", "assert"}
  BY DEF Refresh, Yield, Exhaust, AssertStillOwnsRun, At
<1>2. CASE ~Owns(e)
  <2>1. \A f \in Exec : f # e => pass'[f] = pass[f]
    BY SetOne DEF Refresh, Yield, Exhaust, AssertStillOwnsRun, Leave, Goto
  <2> QED BY <1>1, <1>2, <2>1, OtherChain DEF ChainInv
<1>3. CASE Owns(e) /\ Refresh(e)
  <2> DEFINE h == [c \in Container |-> IF c \in live /\ held[c] > 0 THEN version[c] ELSE 0]
  <2> PICK q : q = [p EXCEPT !.pc = "rewrite", !.heard = h] OBVIOUS
  <2>1. pass'[e] = q /\ p.pc = "refresh" BY <1>3, SetOne DEF Refresh, At
  <2>2. q.pc = "rewrite" /\ q.next = p.next /\ q.heard = h BY DEF Pass
  <2>3. p.mode = "delta" /\ p.next = Nowhere BY <1>0, <2>1 DEF Shape, ShapeStart
  <2>4. ~FullPass(p) BY <2>3 DEF FullPass, FullStart
  <2>5. DeltaPass(q) BY <2>2, <2>3 DEF DeltaPass
  <2> QED BY <1>1, <1>3, <2>1, <2>2, <2>4, <2>5, ReadChain DEF At
<1>4. CASE Owns(e) /\ Yield(e)
  <2>1. PICK c \in Coming(e) :
          /\ \A o \in Coming(e) : c <= o
          /\ Set(e, [pass[e] EXCEPT
               !.pc = IF pass[e].unit # Nowhere THEN "assert" ELSE "upsert",
               !.next = c, !.scope = {o \in pass[e].scope : o > c},
               !.heard = [Nothing EXCEPT ![c] = version[c]]])
    BY <1>4 DEF Yield
  <2> PICK pc : pc = IF p.unit # Nowhere THEN "assert" ELSE "upsert" OBVIOUS
  <2> PICK rest : rest = {o \in p.scope : o > c} OBVIOUS
  <2> PICK h : h = [Nothing EXCEPT ![c] = version[c]] OBVIOUS
  <2> PICK q : q = [p EXCEPT !.pc = pc, !.next = c, !.scope = rest, !.heard = h]
    OBVIOUS
  <2>2. pass'[e] = q /\ p.pc = "next" BY <1>4, <2>1, SetOne DEF Yield, At
  <2>3. /\ q.pc = pc /\ q.next = c /\ q.scope = rest /\ q.heard = h
        /\ q.epoch = p.epoch /\ q.mode = p.mode /\ q.unit = p.unit /\ q.seen = p.seen
        /\ q.pending = p.pending
    BY DEF Pass
  <2>4. pc \in {"assert", "upsert"} OBVIOUS
  <2>5. c \in live /\ c \in p.scope /\ c \in Container BY DEF Coming, TypeOK
  <2>6. h[c] = version[c] BY <2>5 DEF Nothing
  <2>7. p.next = Nowhere BY <1>0, <2>2 DEF Shape, ShapeUnit
  <2>8. ASSUME NEW o \in live, o \in p.scope PROVE o = c \/ o \in rest
    <3>1. c <= o BY <2>1, <2>8 DEF Coming
    <3>2. o \in Int /\ c \in Int
      BY <2>5, CursorNumbers, <2>8 DEF Container, TypeOK
    <3> QED BY <2>8, <3>1, <3>2
  <2>9. ASSUME FullPass(p) PROVE FullPass(q)
    <3>1. FullStart(q) BY <2>2, <2>3, <2>4, <2>9 DEF FullPass, FullStart
    <3>2. \A o \in live : o # Nowhere BY DEF TypeOK, Container, Nowhere
    <3>3. \A o \in live \ (rest \cup {p.unit, c}) : Done(o)
      BY <2>2, <2>7, <2>8, <2>9, <3>2 DEF FullPass, FullDone, Reconciling, Enumerating
    <3>4. FullDone(q) BY <2>3, <3>3 DEF FullDone
    <3>5. FullNext(q) BY <2>3, <2>5, <2>6 DEF FullNext
    <3>6. FullUnit(q) BY <2>3, <2>9 DEF FullPass, FullUnit
    <3>7. FullEnd(q) BY <2>3, <2>4 DEF FullEnd
    <3> QED BY <3>1, <3>4, <3>5, <3>6, <3>7 DEF FullPass
  <2>10. ASSUME DeltaPass(p) PROVE DeltaPass(q)
    BY <2>2, <2>3, <2>4, <2>6, <2>10 DEF DeltaPass
  <2> QED BY <1>1, <1>4, <2>2, <2>3, <2>4, <2>9, <2>10, ReadChain DEF At
<1>5. CASE Owns(e) /\ Exhaust(e)
  <2> PICK pc : pc = IF p.unit # Nowhere THEN "assert" ELSE Enumerated(e) OBVIOUS
  <2> PICK q : q = [p EXCEPT !.pc = pc, !.next = Nowhere, !.scope = {}, !.heard = Nothing]
    OBVIOUS
  <2>1. pass'[e] = q /\ p.pc = "next" /\ Coming(e) = {}
    BY <1>5, SetOne DEF Exhaust, At
  <2>2. /\ q.pc = pc /\ q.next = Nowhere /\ q.scope = {}
        /\ q.epoch = p.epoch /\ q.mode = p.mode /\ q.unit = p.unit /\ q.seen = p.seen
        /\ q.pending = p.pending
    BY DEF Pass
  <2>3. /\ pc \in {"assert", "sweep", "finalize"}
        /\ p.mode # "delta" => pc # "finalize"
    BY DEF Enumerated
  <2>4. p.next = Nowhere BY <1>0, <2>1 DEF Shape, ShapeUnit
  <2>5. ASSUME FullPass(p) PROVE FullPass(q)
    <3>1. FullStart(q) BY <2>1, <2>2, <2>3, <2>5 DEF FullPass, FullStart
    <3>2. \A o \in live : o \notin p.scope BY <2>1 DEF Coming
    <3>3. \A o \in live \ {p.unit, Nowhere} : Done(o)
      BY <2>1, <2>4, <2>5, <3>2 DEF FullPass, FullDone, Reconciling, Enumerating
    <3>4. FullDone(q) BY <2>2, <3>3 DEF FullDone
    <3>5. FullNext(q) BY <2>2 DEF FullNext
    <3>6. FullUnit(q) BY <2>2, <2>5 DEF FullPass, FullUnit
    <3>8. p.mode # "delta" BY <2>5 DEF FullPass, FullStart
    <3>7. FullEnd(q) BY <2>2, <2>3, <3>8 DEF FullEnd
    <3> QED BY <3>1, <3>4, <3>5, <3>6, <3>7 DEF FullPass
  <2>6. ASSUME DeltaPass(p) PROVE DeltaPass(q)
    BY <2>1, <2>2, <2>3, <2>6 DEF DeltaPass
  <2> QED BY <1>1, <1>5, <2>1, <2>2, <2>3, <2>5, <2>6, ReadChain DEF At
<1>6. CASE Owns(e) /\ AssertStillOwnsRun(e)
  <2> PICK q : q = [p EXCEPT !.pc = "assign"] OBVIOUS
  <2>1. pass'[e] = q /\ p.pc = "assert"
    BY <1>6, SetOne DEF AssertStillOwnsRun, At, Goto
  <2>2. /\ q.pc = "assign" /\ q.next = p.next /\ q.scope = p.scope /\ q.heard = p.heard
        /\ q.epoch = p.epoch /\ q.mode = p.mode /\ q.unit = p.unit /\ q.seen = p.seen
        /\ q.pending = p.pending
    BY DEF Pass
  <2>3. ASSUME FullPass(p) PROVE FullPass(q)
    <3>1. FullStart(q) /\ FullDone(q) /\ FullNext(q)
      BY <2>1, <2>2, <2>3
      DEF FullPass, FullStart, FullDone, FullNext, Reconciling, Enumerating
    <3>2. FullUnit(q) BY <2>2, <2>3 DEF FullPass, FullUnit
    <3>3. FullEnd(q) BY <2>2 DEF FullEnd
    <3> QED BY <3>1, <3>2, <3>3 DEF FullPass
  <2>4. ASSUME DeltaPass(p) PROVE DeltaPass(q)
    BY <2>1, <2>2, <2>4 DEF DeltaPass
  <2> QED BY <1>1, <1>6, <2>1, <2>2, <2>3, <2>4, ReadChain DEF At
<1> QED BY <1>2, <1>3, <1>4, <1>5, <1>6

(* A step that writes the store is the owner's, or ends the history. *)
LEMMA WroteChain ==
    ASSUME NEW e \in Exec, ~Owns(e), Wrote(e)
    PROVE  FullInv' /\ DeltaInv'
BY DisturbChain DEF Wrote

LEMMA ChainRewrite ==
    ASSUME TypeOK, ChainInv, NEW e \in Exec, Rewrite(e)
    PROVE  FullInv' /\ DeltaInv'
<1> PICK p \in Pass : p = pass[e] BY DEF TypeOK
<1> PICK changed : changed = {c \in Container : p.heard[c] \notin {0, held[c]}} OBVIOUS
<1>0. Shape(p) BY DEF Shapes, ChainInv
<1>1. /\ UNCHANGED <<source, acl, key, run, resumable, chain, conn>> /\ p.pc = "rewrite"
      /\ UNCHANGED source
  BY DEF Rewrite, At
<1>2. \/ changed # {} /\ ~Owns(e) /\ Leave(e) /\ UNCHANGED <<held, stale>>
      \/ /\ ~(changed # {} /\ ~Owns(e))
         /\ held' = [c \in Container |-> IF c \in changed THEN p.heard[c] ELSE held[c]]
         /\ stale' = stale \ changed
         /\ Set(e, [p EXCEPT !.pc = "next", !.heard = Nothing])
  BY DEF Rewrite
<1>3. CASE ~Owns(e)
  <2>1. held' = held /\ stale' = stale BY <1>2, <1>3 DEF TypeOK
  <2>2. \A f \in Exec : f # e => pass'[f] = pass[f] BY <1>2, SetOne DEF Leave
  <2> QED BY <1>1, <1>3, <2>1, <2>2, OtherChain DEF ChainInv, store
<1>4. CASE Owns(e)
  <2> PICK q : q = [p EXCEPT !.pc = "next", !.heard = Nothing] OBVIOUS
  <2>1. /\ pass'[e] = q
        /\ held' = [c \in Container |-> IF c \in changed THEN p.heard[c] ELSE held[c]]
    BY <1>2, <1>4, SetOne
  <2>2. q.pc = "next" /\ q.next = p.next BY DEF Pass
  <2>3. p.mode = "delta" /\ p.next = Nowhere BY <1>0, <1>1 DEF Shape, ShapeStart
  <2>4. ~At(e, "begin") BY <1>1 DEF At
  <2>5. chain # "full"
    BY <1>4, <2>3, <2>4, OwnerKnows DEF ChainInv, FullPass, FullStart
  <2>6. ASSUME chain = "delta" PROVE DeltaPass(q)'
    <3>1. \A c \in Container :
            p.heard[c] = IF c \in live /\ held[c] > 0 THEN version[c] ELSE 0
      BY <1>1, <1>4, <2>3, <2>4, <2>6, OwnerKnows DEF ChainInv, DeltaPass
    <3>2. ASSUME NEW c \in live PROVE held'[c] \in {0, version[c]}
      <4>1. c \in Container /\ held[c] \in Nat /\ version[c] \in Nat \ {0}
        BY <3>2 DEF TypeOK
      <4>2. held'[c] = IF c \in changed THEN p.heard[c] ELSE held[c]
        BY <2>1, <4>1
      <4>3. c \in changed <=> p.heard[c] # 0 /\ p.heard[c] # held[c] BY <4>1
      <4>4. p.heard[c] = IF held[c] > 0 THEN version[c] ELSE 0 BY <3>1, <3>2, <4>1
      <4> QED BY <4>1, <4>2, <4>3, <4>4
    <3>3. AudiencesTrue' BY <1>1, <3>2 DEF AudiencesTrue, source
    <3> QED BY <2>2, <2>3, <3>3 DEF DeltaPass
  <2>7. run'.owner = e BY <1>1, <1>4 DEF Owns
  <2> QED BY <1>1, <2>1, <2>2, <2>5, <2>6, <2>7, OwnerChain
<1> QED BY <1>3, <1>4

LEMMA ChainMark ==
    ASSUME TypeOK, ChainInv, NEW e \in Exec, Mark(e)
    PROVE  FullInv' /\ DeltaInv'
<1> PICK p \in Pass : p = pass[e] BY DEF TypeOK
<1> PICK q : q = [p EXCEPT !.pc = "next"] OBVIOUS
<1>0. Shape(p) BY DEF Shapes, ChainInv
<1>1. /\ UNCHANGED <<source, acl, key, held, run, resumable, conn>> /\ p.pc = "mark"
      /\ stale' = {c \in Container : held[c] > 0} /\ pass'[e] = q /\ Wrote(e)
  BY SetOne DEF Mark, At, Goto
<1>2. CASE Owns(e)
  <2>1. /\ q.pc = "next" /\ q.next = p.next /\ q.scope = p.scope /\ q.unit = p.unit
        /\ q.epoch = p.epoch /\ q.mode = p.mode
    BY DEF Pass
  <2>2. p.unit = Nowhere /\ p.next = Nowhere /\ p.mode # "delta"
    BY <1>0, <1>1 DEF Shape, ShapeStart
  <2>3. ~At(e, "begin") /\ chain' = chain /\ run'.owner = e
    BY <1>1, <1>2 DEF At, Wrote, Owns
  <2>4. ASSUME chain = "full" PROVE UpTo(run.cursor)' /\ FullPass(q)'
    <3>1. FullStart(p) BY <1>2, <2>3, <2>4, OwnerKnows DEF ChainInv, FullPass
    <3>2. Marked' BY <1>1 DEF Marked, source
    <3>3. FullStart(q)' BY <1>1, <2>1, <2>2, <3>1, <3>2 DEF FullStart
    <3>4. \A c \in live : c \in p.scope BY <1>1, <3>1 DEF FullStart, TypeOK
    <3>5. FullDone(q)' BY <1>1, <2>1, <3>4 DEF FullDone, source
    <3>6. FullNext(q)' /\ FullUnit(q)' /\ FullEnd(q)'
      BY <2>1, <2>2 DEF FullNext, FullUnit, FullEnd
    <3>7. UpTo(run.cursor)' BY <1>1, <3>1 DEF FullStart, UpTo, Nowhere
    <3> QED BY <3>3, <3>5, <3>6, <3>7 DEF FullPass
  <2>5. DeltaPass(q)' BY <2>1, <2>2 DEF DeltaPass
  <2> QED BY <1>1, <2>1, <2>3, <2>4, <2>5, OwnerChain
<1> QED BY <1>1, <1>2, WroteChain

LEMMA ChainUpsert ==
    ASSUME TypeOK, ChainInv, NEW e \in Exec, Upsert(e)
    PROVE  FullInv' /\ DeltaInv'
<1> PICK p \in Pass : p = pass[e] BY DEF TypeOK
<1> PICK c : c = p.next OBVIOUS
<1> PICK written : written = IF Differs(e, c) THEN {c} ELSE {} OBVIOUS
<1> PICK docs : docs = {d \in Doc : at[d] = c} OBVIOUS
<1> PICK q : q = [p EXCEPT !.pc = "next", !.unit = c, !.next = Nowhere,
                  !.heard = Nothing, !.seen = docs, !.pending = docs]
  OBVIOUS
<1>0. Shape(p) BY DEF Shapes, ChainInv
<1>1. UNCHANGED <<source, acl, key, run, resumable, chain, conn>> /\ p.pc = "upsert"
  BY DEF Upsert, At
<1>2. \/ written # {} /\ ~Owns(e) /\ Leave(e) /\ UNCHANGED <<held, stale>>
      \/ /\ ~(written # {} /\ ~Owns(e))
         /\ held' = [held EXCEPT ![c] = p.heard[c]] /\ stale' = stale \ written
         /\ Set(e, q)
  BY DEF Upsert
<1>3. p.next # Nowhere /\ p.unit = Nowhere BY <1>0, <1>1 DEF Shape, ShapeUnit
<1>4. c \in Container
  BY <1>3, CursorNumbers DEF Container, Nowhere
<1>5. CASE ~Owns(e)
  <2>3. ASSUME written = {} PROVE held' = held /\ stale' = stale
    <3>1. held[c] = p.heard[c] BY <2>3 DEF Differs
    <3>2. held' = [held EXCEPT ![c] = held[c]] \/ held' = held BY <1>2, <3>1
    <3>3. held' = held BY <1>4, <3>2 DEF TypeOK
    <3>4. stale' = stale BY <1>2, <2>3
    <3> QED BY <3>3, <3>4
  <2>1. held' = held /\ stale' = stale BY <1>2, <1>5, <2>3
  <2>2. \A f \in Exec : f # e => pass'[f] = pass[f] BY <1>2, SetOne DEF Leave
  <2> QED BY <1>1, <1>5, <2>1, <2>2, OtherChain DEF ChainInv, store
<1>6. CASE Owns(e)
  <2>1. /\ pass'[e] = q
        /\ held' = [held EXCEPT ![c] = p.heard[c]] /\ stale' = stale \ written
    BY <1>2, <1>6, SetOne
  <2>2. /\ q.pc = "next" /\ q.unit = c /\ q.next = Nowhere /\ q.scope = p.scope
        /\ q.seen = docs /\ q.pending = docs /\ q.epoch = p.epoch /\ q.mode = p.mode
    BY DEF Pass
  <2>3. ~At(e, "begin") /\ run'.owner = e BY <1>1, <1>6 DEF At, Owns
  <2>4. held'[c] = p.heard[c] /\ c \notin stale' /\ stale' \subseteq stale
        /\ \A o \in Container : o # c => held'[o] = held[o] /\ (o \in stale' <=> o \in stale)
    BY <1>4, <2>1 DEF TypeOK, Differs
  <2>5. ASSUME chain = "full" PROVE UpTo(run.cursor)' /\ FullPass(q)'
    <3>1. FullPass(p) /\ UpTo(run.cursor)
      BY <1>6, <2>3, <2>5, OwnerKnows DEF ChainInv
    <3>2. c \in live /\ p.heard[c] = version[c] BY <1>3, <3>1 DEF FullPass, FullNext
    <3>3. Marked' BY <1>1, <2>4, <3>1, <3>2 DEF FullPass, FullStart, Marked, source
    <3>4. ASSUME NEW o \in live, Done(o) PROVE Done(o)'
      <4>1. o \in Container BY <3>4 DEF TypeOK
      <4> QED BY <1>1, <2>4, <3>2, <3>4, <4>1 DEF Done, Placed, source
    <3>5. UpTo(run.cursor)' BY <1>1, <3>1, <3>3, <3>4 DEF UpTo, source
    <3>6. FullStart(q)' BY <1>1, <2>2, <3>1, <3>3 DEF FullPass, FullStart
    <3>7. ASSUME NEW o \in live \ (q.scope \cup {q.unit, q.next}) PROVE Done(o)'
      <4>1. o \notin p.scope \cup {p.unit, p.next} BY <1>3, <2>2, <3>7
      <4> QED
        BY <1>1, <3>1, <3>4, <4>1 DEF FullPass, FullDone, Reconciling, Enumerating
    <3>8. FullDone(q)' BY <1>1, <3>7 DEF FullDone, source
    <3>9. FullNext(q)' /\ FullEnd(q)' BY <2>2 DEF FullNext, FullEnd
    <3>10. FullUnit(q)' BY <1>1, <2>2, <2>4, <3>2 DEF FullUnit, source
    <3> QED BY <3>5, <3>6, <3>8, <3>9, <3>10 DEF FullPass
  <2>6. ASSUME chain = "delta" PROVE DeltaPass(q)'
    <3>1. ASSUME p.mode = "delta" PROVE AudiencesTrue'
      <4>1. AudiencesTrue /\ p.heard[c] = version[c]
        BY <1>1, <1>3, <1>6, <2>3, <2>6, <3>1, OwnerKnows DEF ChainInv, DeltaPass
      <4>2. ASSUME NEW o \in live PROVE held'[o] \in {0, version[o]}
        <5>1. o \in Container BY <4>2 DEF TypeOK
        <5> QED BY <2>4, <4>1, <5>1 DEF AudiencesTrue
      <4> QED BY <1>1, <4>2 DEF AudiencesTrue, source
    <3> QED BY <2>2, <3>1 DEF DeltaPass
  <2> QED BY <1>1, <2>1, <2>2, <2>3, <2>5, <2>6, OwnerChain
<1> QED BY <1>5, <1>6

LEMMA ChainAssign ==
    ASSUME TypeOK, ChainInv, NEW e \in Exec, Assign(e)
    PROVE  FullInv' /\ DeltaInv'
<1> PICK p \in Pass : p = pass[e] BY DEF TypeOK
<1> PICK d \in p.pending :
      /\ Set(e, [p EXCEPT !.pending = p.pending \ {d}])
      /\ Place(IF Current(e) THEN {d} ELSE {}, p.unit)
  BY DEF Assign
<1> PICK q : q = [p EXCEPT !.pending = p.pending \ {d}] OBVIOUS
<1>0. Shape(p) BY DEF Shapes, ChainInv
<1>1. /\ UNCHANGED <<source, held, stale, run, resumable, conn>> /\ p.pc = "assign"
      /\ pass'[e] = q /\ Wrote(e)
  BY SetOne DEF Assign, At
<1>2. CASE Owns(e)
  <2>1. /\ q.pc = p.pc /\ q.next = p.next /\ q.scope = p.scope /\ q.unit = p.unit
        /\ q.epoch = p.epoch /\ q.mode = p.mode /\ q.heard = p.heard /\ q.seen = p.seen
        /\ q.pending = p.pending \ {d}
    BY DEF Pass
  <2>2. p.unit # Nowhere BY <1>0, <1>1 DEF Shape, ShapeUnit
  <2>3. ~At(e, "begin") /\ chain' = chain /\ run'.owner = e
    BY <1>1, <1>2 DEF At, Wrote, Owns
  <2>4. ASSUME chain = "full" PROVE UpTo(run.cursor)' /\ FullPass(q)'
    <3>1. FullPass(p) /\ UpTo(run.cursor)
      BY <1>2, <2>3, <2>4, OwnerKnows DEF ChainInv
    <3>2. Current(e) BY <3>1 DEF FullPass, FullStart, Current
    <3>3. d \in Doc /\ at[d] = p.unit /\ d \in p.seen BY <2>2, <3>1 DEF FullPass, FullUnit
    <3>4. /\ acl'[d] = Shared /\ key'[d] = p.unit
          /\ \A x \in Doc : x # d => acl'[x] = acl[x] /\ key'[x] = key[x]
      BY <3>2, <3>3 DEF Place
    <3>5. ASSUME NEW c, Done(c) PROVE Done(c)'
      BY <1>1, <3>3, <3>4, <3>5 DEF Done, Placed, source
    <3>6. Marked' BY <1>1, <3>1 DEF FullPass, FullStart, Marked, source
    <3>7. UpTo(run.cursor)' BY <1>1, <3>1, <3>5, <3>6 DEF UpTo, source
    <3>8. FullStart(q)' BY <1>1, <2>1, <3>1, <3>6 DEF FullPass, FullStart
    <3>9. FullDone(q)' BY <1>1, <2>1, <3>1, <3>5 DEF FullPass, FullDone, source
    <3>10. FullNext(q)' BY <1>1, <2>1, <3>1 DEF FullPass, FullNext, source
    <3>11. \A x \in p.seen \ (p.pending \ {d}) : Placed(x, p.unit)'
      <4>1. p.seen \subseteq Doc BY DEF Pass
      <4> QED BY <2>2, <3>1, <3>4, <4>1 DEF FullPass, FullUnit, Placed
    <3>12. FullUnit(q)' BY <1>1, <2>1, <3>1, <3>11 DEF FullPass, FullUnit, source
    <3>13. FullEnd(q)' BY <1>1, <2>1 DEF FullEnd
    <3> QED BY <3>7, <3>8, <3>9, <3>10, <3>12, <3>13 DEF FullPass
  <2>5. ASSUME chain = "delta" PROVE DeltaPass(q)'
    <3>1. DeltaPass(p) BY <1>2, <2>3, <2>5, OwnerKnows DEF ChainInv
    <3>2. AudiencesTrue => AudiencesTrue' BY <1>1 DEF AudiencesTrue, source
    <3> QED BY <1>1, <2>1, <3>1, <3>2 DEF DeltaPass, source
  <2>6. q.pc # "begin" BY <1>1, <2>1
  <2> QED BY <1>1, <2>3, <2>4, <2>5, <2>6, OwnerChain
<1> QED BY <1>1, <1>2, WroteChain

(* Closing documents that are not placed in a container that is done keeps *)
(* it done.                                                                *)
LEMMA CloseDone ==
    ASSUME TypeOK, NEW e, NEW docs, FailClose(e, docs), UNCHANGED <<source, key>>,
           NEW c, Done(c), held'[c] = held[c], c \notin stale',
           \A d \in docs : d \in Doc => key[d] # c \/ at[d] # c
    PROVE  Done(c)'
<1>1. \A d \in Doc : acl'[d] = acl[d] \/ (d \in docs /\ acl'[d] = Closed)
  BY DEF FailClose
<1> QED BY <1>1 DEF Done, Placed, source

LEMMA ChainFinish ==
    ASSUME TypeOK, ChainInv, NEW e \in Exec, FinishUnit(e)
    PROVE  FullInv' /\ DeltaInv'
<1> PICK p \in Pass : p = pass[e] BY DEF TypeOK
<1> PICK docs : docs = {d \in Doc : key[d] = p.unit /\ d \notin p.seen} OBVIOUS
<1> PICK pc : pc = IF p.next # Nowhere THEN "upsert" ELSE Enumerated(e) OBVIOUS
<1> PICK q : q = [p EXCEPT !.progressed = TRUE, !.seen = {}, !.unit = Nowhere, !.pc = pc]
  OBVIOUS
<1>0. Shape(p) BY DEF Shapes, ChainInv
<1>1. /\ UNCHANGED <<source, key, held, stale, resumable, conn>> /\ p.pc = "assign"
      /\ p.pending = {} /\ FailClose(e, docs) /\ Wrote(e)
  BY DEF FinishUnit, At
<1>2. CASE Owns(e)
  <2>1. /\ q.pc = pc /\ q.next = p.next /\ q.scope = p.scope /\ q.unit = Nowhere
        /\ q.epoch = p.epoch /\ q.mode = p.mode /\ q.heard = p.heard
    BY DEF Pass
  <2>2. /\ p.unit # Nowhere /\ (p.next = Nowhere => p.scope = {})
        /\ (\A o \in p.scope : p.unit < o) /\ (p.next # Nowhere => p.unit < p.next)
    BY <1>0, <1>1 DEF Shape, ShapeUnit
  <2>3. ~At(e, "begin") /\ chain' = chain BY <1>1, <1>2 DEF At, Wrote
  <2>4. pass'[e] = q /\ run' = [run EXCEPT !.cursor = p.unit]
    BY <1>2, SetOne DEF FinishUnit
  <2>5. run'.owner = e /\ run'.cursor = p.unit BY <1>2, <2>4 DEF TypeOK, Owns
  <2>6. pc \in {"upsert", "sweep", "finalize"} /\ (p.mode # "delta" => pc # "finalize")
    BY DEF Enumerated
  <2>7. ASSUME chain = "full" PROVE UpTo(run.cursor)' /\ FullPass(q)'
    <3>1. FullPass(p) BY <1>2, <2>3, <2>7, OwnerKnows DEF ChainInv
    <3>2. Current(e) BY <3>1 DEF FullPass, FullStart, Current
    <3>3. /\ held[p.unit] = version[p.unit] /\ p.unit \notin stale
          /\ \A d \in Doc : at[d] = p.unit <=> d \in p.seen
          /\ \A d \in p.seen : Placed(d, p.unit)
      BY <1>1, <2>2, <3>1 DEF FullPass, FullUnit
    <3>4. \A d \in Doc : acl'[d] = IF d \in docs THEN Closed ELSE acl[d]
      BY <1>1, <3>2 DEF FailClose
    <3>5. Done(p.unit)' BY <1>1, <3>3, <3>4 DEF Done, Placed, source
    <3>6. ASSUME NEW c, Done(c) PROVE Done(c)'
      <4>1. held'[c] = held[c] /\ c \notin stale' BY <1>1, <3>6 DEF Done
      <4>2. \A d \in docs : d \in Doc => key[d] # c \/ at[d] # c BY <3>3
      <4> QED BY <1>1, <3>6, <4>1, <4>2, CloseDone
    <3>7. Marked' BY <1>1, <3>1 DEF FullPass, FullStart, Marked, source
    <3>8. \A c \in live \ (p.scope \cup {p.next}) : Done(c)'
      BY <1>1, <3>1, <3>5, <3>6 DEF FullPass, FullDone, Reconciling, Enumerating
    <3>9. UpTo(p.unit)'
      <4>1. ASSUME NEW c \in live, c <= p.unit PROVE Done(c)'
        <5>1. c \in Int /\ p.unit \in Int /\ p.next \in Int /\ p.scope \subseteq Int
              /\ c # Nowhere
          BY <4>1, CursorNumbers DEF TypeOK, Container, Nowhere
        <5>2. c \notin p.scope /\ c # p.next BY <2>2, <4>1, <5>1
        <5> QED BY <3>8, <5>2
      <4> QED BY <1>1, <3>7, <4>1 DEF UpTo, source
    <3>10. FullStart(q)' BY <1>1, <2>1, <2>6, <3>1, <3>7 DEF FullPass, FullStart
    <3>11. FullDone(q)' BY <1>1, <2>1, <3>8 DEF FullDone, source
    <3>12. FullNext(q)' BY <1>1, <2>1, <3>1 DEF FullPass, FullNext, source
    <3>13. FullUnit(q)' BY <2>1 DEF FullUnit
    <3>14. FullEnd(q)' BY <2>1, <2>6, <3>1 DEF FullPass, FullStart, FullEnd
    <3> QED BY <2>5, <3>9, <3>10, <3>11, <3>12, <3>13, <3>14 DEF FullPass
  <2>8. ASSUME chain = "delta" PROVE DeltaPass(q)'
    <3>1. DeltaPass(p) BY <1>2, <2>3, <2>8, OwnerKnows DEF ChainInv
    <3>2. AudiencesTrue => AudiencesTrue' BY <1>1 DEF AudiencesTrue, source
    <3> QED BY <1>1, <2>1, <2>6, <3>1, <3>2 DEF DeltaPass, source
  <2>9. q.pc # "begin" BY <2>1, <2>6
  <2> QED BY <2>3, <2>4, <2>5, <2>7, <2>8, <2>9, OwnerChain
<1> QED BY <1>1, <1>2, WroteChain

LEMMA ChainSweep ==
    ASSUME TypeOK, ChainInv, NEW e \in Exec, Sweep(e)
    PROVE  FullInv' /\ DeltaInv'
<1> PICK p \in Pass : p = pass[e] BY DEF TypeOK
<1> PICK docs : docs = {d \in Doc : key[d] \in stale} OBVIOUS
<1> PICK q : q = [p EXCEPT !.pc = "drop"] OBVIOUS
<1>0. Shape(p) BY DEF Shapes, ChainInv
<1>1. /\ UNCHANGED <<source, key, held, stale, run, resumable, conn>> /\ p.pc = "sweep"
      /\ FailClose(e, docs) /\ Wrote(e) /\ pass'[e] = q
  BY SetOne DEF Sweep, At, Goto
<1>2. CASE Owns(e)
  <2>1. /\ q.pc = "drop" /\ q.next = p.next /\ q.scope = p.scope /\ q.unit = p.unit
        /\ q.epoch = p.epoch /\ q.mode = p.mode
    BY DEF Pass
  <2>2. p.unit = Nowhere /\ p.next = Nowhere /\ p.mode # "delta"
    BY <1>0, <1>1 DEF Shape, ShapeUnit, ShapeStart
  <2>3. ~At(e, "begin") /\ chain' = chain /\ run'.owner = e
    BY <1>1, <1>2 DEF At, Wrote, Owns
  <2>4. ASSUME chain = "full" PROVE UpTo(run.cursor)' /\ FullPass(q)'
    <3>1. FullPass(p) /\ UpTo(run.cursor)
      BY <1>2, <2>3, <2>4, OwnerKnows DEF ChainInv
    <3>3. ASSUME NEW c, Done(c) PROVE Done(c)'
      <4>1. held'[c] = held[c] /\ c \notin stale' BY <1>1, <3>3 DEF Done
      <4>2. \A d \in docs : key[d] # c BY <3>3 DEF Done
      <4> QED BY <1>1, <3>3, <4>1, <4>2, CloseDone
    <3>4. Marked' BY <1>1, <3>1 DEF FullPass, FullStart, Marked, source
    <3>5. UpTo(run.cursor)' BY <1>1, <3>1, <3>3, <3>4 DEF UpTo, source
    <3>6. FullStart(q)' BY <1>1, <2>1, <3>1, <3>4 DEF FullPass, FullStart
    <3>7. FullDone(q)' BY <1>1, <2>1, <3>1, <3>3 DEF FullPass, FullDone, Reconciling, source
    <3>8. FullNext(q)' /\ FullUnit(q)' BY <2>1, <2>2 DEF FullNext, FullUnit
    <3>9. FullEnd(q)' BY <2>1 DEF FullEnd
    <3> QED BY <3>5, <3>6, <3>7, <3>8, <3>9 DEF FullPass
  <2>5. DeltaPass(q)' BY <2>1, <2>2 DEF DeltaPass
  <2> QED BY <1>1, <2>1, <2>3, <2>4, <2>5, OwnerChain
<1> QED BY <1>1, <1>2, WroteChain

LEMMA ChainDrop ==
    ASSUME TypeOK, ChainInv, NEW e \in Exec, Drop(e)
    PROVE  FullInv' /\ DeltaInv'
<1> PICK p \in Pass : p = pass[e] BY DEF TypeOK
<1> PICK docs : docs = {d \in Doc : key[d] = Nowhere} OBVIOUS
<1> PICK q : q = [p EXCEPT !.pc = "finalize"] OBVIOUS
<1>0. Shape(p) BY DEF Shapes, ChainInv
<1>1. /\ UNCHANGED <<source, key, run, resumable, conn>> /\ p.pc = "drop"
      /\ held' = [c \in Container |-> IF c \in stale THEN 0 ELSE held[c]] /\ stale' = {}
      /\ FailClose(e, docs) /\ Wrote(e) /\ pass'[e] = q
  BY SetOne DEF Drop, At, Goto
<1>2. CASE Owns(e)
  <2>1. /\ q.pc = "finalize" /\ q.next = p.next /\ q.scope = p.scope /\ q.unit = p.unit
        /\ q.epoch = p.epoch /\ q.mode = p.mode
    BY DEF Pass
  <2>2. p.unit = Nowhere /\ p.next = Nowhere /\ p.scope = {} /\ p.mode # "delta"
    BY <1>0, <1>1 DEF Shape, ShapeUnit, ShapeStart
  <2>3. ~At(e, "begin") /\ chain' = chain /\ run'.owner = e
    BY <1>1, <1>2 DEF At, Wrote, Owns
  <2>4. ASSUME chain = "full" PROVE UpTo(run.cursor)' /\ FullPass(q)'
    <3>1. FullPass(p) /\ UpTo(run.cursor)
      BY <1>2, <2>3, <2>4, OwnerKnows DEF ChainInv
    <3>2. Current(e) BY <3>1 DEF FullPass, FullStart, Current
    <3>3. \A c \in live : Done(c) /\ c \in Container /\ c # Nowhere
      BY <1>1, <2>2, <3>1
      DEF FullPass, FullDone, Reconciling, TypeOK, Container, Nowhere
    <3>4. ASSUME NEW c \in live PROVE Done(c)'
      <4>1. Done(c) /\ c \in Container /\ c # Nowhere BY <3>3
      <4>2. held'[c] = held[c] /\ c \notin stale' BY <1>1, <4>1 DEF Done
      <4>3. \A d \in docs : key[d] # c BY <4>1
      <4> QED BY <1>1, <4>1, <4>2, <4>3, CloseDone
    <3>5. Marked'
      <4>1. ASSUME NEW c \in Container \ live PROVE held'[c] = 0
        BY <1>1, <3>1, <4>1 DEF FullPass, FullStart, Marked, TypeOK
      <4> QED BY <1>1, <4>1 DEF Marked, source
    <3>6. UpTo(run.cursor)' BY <1>1, <3>4, <3>5 DEF UpTo, source
    <3>7. FullStart(q)' BY <1>1, <2>1, <3>1, <3>5 DEF FullPass, FullStart
    <3>8. FullDone(q)' BY <1>1, <3>4 DEF FullDone, source
    <3>9. FullNext(q)' /\ FullUnit(q)' BY <2>1, <2>2 DEF FullNext, FullUnit
    <3>10. \A c \in live : held'[c] = version[c] BY <1>1, <3>4 DEF Done, source
    <3>11. ASSUME NEW d \in Doc, at[d] # Nowhere PROVE Placed(d, at[d])'
      <4>1. at[d] \in live BY <3>11 DEF ChainInv, Shapes, AtLive
      <4> QED BY <1>1, <3>4, <4>1 DEF Done, source
    <3>12. ASSUME NEW d \in Doc, at[d] = Nowhere PROVE ~Readable(d)' \/ Forgotten(d)'
      <4>1. /\ acl'[d] = IF key[d] = Nowhere THEN Closed ELSE acl[d]
            /\ Closed \notin Level /\ Closed # Shared /\ Shared \notin Level
        BY <1>1, <3>2, PermissionAssumption
        DEF FailClose, PermissionAssumption, Closed, Shared
      <4>2. CASE key[d] = Nowhere BY <1>1, <4>1, <4>2 DEF Readable
      <4>3. CASE key[d] \in live
        <5>1. acl[d] = Closed BY <3>3, <3>12, <4>3 DEF Done
        <5> QED BY <4>1, <5>1 DEF Readable
      <4>4. CASE key[d] \notin live \cup {Nowhere}
        <5>1. key[d] \in Container
          BY <4>4, CursorNumbers DEF TypeOK, Container, Nowhere
        <5>3. held'[key[d]] = 0
          BY <1>1, <3>1, <4>4, <5>1 DEF FullPass, FullStart, Marked, TypeOK
        <5>4. Readable(d)' => acl'[d] \in Level BY <1>1, <5>3 DEF Readable
        <5> QED BY <1>1, <4>4, <5>4 DEF Forgotten, source
      <4> QED BY <4>2, <4>3, <4>4
    <3>13. InSync' BY <1>1, <3>10, <3>11, <3>12 DEF InSync, source
    <3>14. FullEnd(q)' BY <2>1, <3>13 DEF FullEnd
    <3> QED BY <3>6, <3>7, <3>8, <3>9, <3>14 DEF FullPass
  <2>5. DeltaPass(q)' BY <2>1, <2>2 DEF DeltaPass
  <2> QED BY <1>1, <2>1, <2>3, <2>4, <2>5, OwnerChain
<1> QED BY <1>1, <1>2, WroteChain

LEMMA ChainEnds ==
    ASSUME TypeOK, ChainInv, NEW e \in Exec,
           Finalize(e) \/ Throw(e) \/ Crash(e) \/ RequeueLive(e)
    PROVE  FullInv' /\ DeltaInv'
<1> USE DEF ChainInv
<1>1. UNCHANGED <<source, store, chain>> /\ conn'.epoch = conn.epoch
  BY DEF Finalize, Throw, Crash, RequeueLive, TypeOK, ConnRow
<1>2. \A f \in Exec : f # e => pass'[f] = pass[f]
  BY SetOne DEF Finalize, Throw, Crash, RequeueLive, Leave, Goto
<1>3. ~Owns(e) => UNCHANGED <<run, resumable>>
  BY DEF Finalize, Throw, Crash, RequeueLive
<1>4. CASE ~Owns(e) BY <1>1, <1>2, <1>3, <1>4, OtherChain
<1>5. CASE Owns(e)
  <2>1. ~RequeueLive(e)
    BY <1>5, PermissionAssumption DEF RequeueLive, Owns, PermissionAssumption
  <2>2. /\ run'.owner \in {Free, Lost} /\ run'.cursor \in {run.cursor, NoCheckpoint}
        /\ run'.owner = Free => resumable' \in {run.cursor, NoCheckpoint}
    BY <1>5, <2>1, NoRunIs DEF Finalize, Throw, Crash, TypeOK, Free, Lost
  <2>3. \A f \in Exec : ~Owns(f)'
    BY <2>2, PermissionAssumption DEF Owns, PermissionAssumption
  <2>4. UpTo(NoCheckpoint)' BY DEF UpTo, NoCheckpoint, Nowhere
  <2>5. ASSUME chain = "full" PROVE Checkpointed'
    <3>1. UpTo(run.cursor) BY <2>5 DEF FullInv, Checkpointed
    <3>2. \A k \in {run.cursor, NoCheckpoint} : UpTo(k)' BY <1>1, <2>4, <3>1, StillUpTo
    <3> QED BY <2>2, <2>3, <3>2 DEF Checkpointed
  <2> QED BY <1>1, <2>3, <2>5 DEF FullInv, DeltaInv, Begun
<1> QED BY <1>4, <1>5

(* The run is ended by the due check or by an edit of the settings. *)
LEMMA ChainEnded ==
    ASSUME TypeOK, ChainInv, Reap \/ Supersede
    PROVE  FullInv' /\ DeltaInv'
<1>1. /\ UNCHANGED <<source, store, chain>> /\ run' = NoRun
      /\ \/ resumable' \in {run.cursor, NoCheckpoint}
         \/ run.owner = Free /\ resumable' = resumable
  BY DEF Reap, Supersede
<1>2. \A f \in Exec : ~Owns(f)'
  BY <1>1, NoRunIs, PermissionAssumption DEF Owns, PermissionAssumption
<1>3. UpTo(NoCheckpoint)' BY DEF UpTo, NoCheckpoint, Nowhere
<1>4. ASSUME chain = "full" PROVE Checkpointed'
  <2>1. UpTo(run.cursor) /\ (run.owner = Free => UpTo(resumable))
    BY <1>4 DEF ChainInv, FullInv, Checkpointed
  <2>2. UpTo(resumable)' BY <1>1, <1>3, <2>1, StillUpTo
  <2> QED BY <1>1, <1>2, <1>3, <2>2, NoRunIs DEF Checkpointed
<1> QED BY <1>1, <1>2, <1>4 DEF FullInv, DeltaInv, Begun

LEMMA ChainInit == Init => ChainInv
BY ShapesInit DEF Init, ChainInv, FullInv, DeltaInv

LEMMA ChainNext == TypeOK /\ ChainInv /\ [Next]_vars => ChainInv'
<1> SUFFICES ASSUME TypeOK, ChainInv, [Next]_vars PROVE FullInv' /\ DeltaInv'
  BY ShapesNext DEF ChainInv
<1>1. ASSUME NEW e \in Exec, Start(e) \/ PassStep(e) \/ Throw(e) \/ Crash(e) \/ RequeueLive(e)
      PROVE  FullInv' /\ DeltaInv'
  BY <1>1, ChainBegin, ChainRewrite, ChainMark, ChainContainers, ChainUpsert, ChainAssign,
     ChainFinish, ChainSweep, ChainDrop, ChainEnds DEF PassStep
<1>2. CASE Reap \/ Supersede BY <1>2, ChainEnded
<1>3. CASE RequeueOrphan \/ Schedule \/ FullReconcileAgesOut \/ Enqueue \/ UNCHANGED vars
  <2>1. UNCHANGED <<source, store, run, resumable, chain, pass>>
    BY <1>3 DEF RequeueOrphan, Schedule, FullReconcileAgesOut, Enqueue, vars
  <2>2. conn'.epoch = conn.epoch
    BY <1>3 DEF RequeueOrphan, Schedule, FullReconcileAgesOut, Enqueue, vars, TypeOK, ConnRow
  <2> QED BY <2>1, <2>2, StillChain DEF ChainInv
<1>4. ASSUME \/ Bump \/ Overwrite \/ Clear \/ Change
             \/ \E by \in {"rest", "bulk", "tool"}, vis \in Level \cup {AutoSync},
                   edit \in BOOLEAN : Submit(by, vis, edit)
      PROVE  FullInv' /\ DeltaInv'
  BY <1>4, DisturbChain DEF Bump, Overwrite, Clear, Change, Submit
<1> QED BY <1>1, <1>2, <1>3, <1>4 DEF Next, UpdateStep

LEMMA ChainWorth ==
    TypeOK /\ ChainInv =>
      \A e \in Exec : At(e, "finalize") /\ Owns(e) =>
        /\ chain = "delta" /\ pass[e].mode = "delta" => AudiencesTrue
        /\ chain = "full" => InSync
<1> SUFFICES ASSUME TypeOK, ChainInv, NEW e \in Exec, At(e, "finalize"), Owns(e)
             PROVE  /\ chain = "delta" /\ pass[e].mode = "delta" => AudiencesTrue
                    /\ chain = "full" => InSync
  OBVIOUS
<1>1. pass[e].pc = "finalize" /\ ~At(e, "begin") BY DEF At
<1>2. chain = "full" => InSync
  BY <1>1, OwnerKnows DEF ChainInv, FullPass, FullEnd
<1>3. chain = "delta" /\ pass[e].mode = "delta" => AudiencesTrue
  BY <1>1, OwnerKnows DEF ChainInv, DeltaPass
<1> QED BY <1>2, <1>3

(* Reconciled: a pass that nothing disturbed, with the interrupted ones it *)
(* resumes, is worth its success.                                          *)
THEOREM ReconciledHolds == Spec => Reconciled
<1>1. TypeOK /\ ChainInv =>
        [\A e \in Exec :
           At(e, "finalize") /\ Owns(e) /\ pass'[e].pc = "publish" =>
             /\ chain = "delta" /\ pass[e].mode = "delta" => AudiencesTrue
             /\ chain = "full" => InSync]_vars
  BY ChainWorth
<1> QED BY <1>1, ChainInit, ChainNext, TypeCorrect, PTL DEF Spec, Reconciled
=============================================================================
