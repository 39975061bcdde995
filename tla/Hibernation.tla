----------------------------- MODULE Hibernation -----------------------------
(***************************************************************************)
(* Idle hibernation of one MCP server deployment: replicas of the backend  *)
(* that sweep it to sleep when it is idle, tool calls that stamp their     *)
(* demand, wake it and are dispatched to it, the refresh that repairs a    *)
(* half-finished wake, the Kubernetes object all of them read and write,   *)
(* and the transition lease (ClusterLease) that orders them.               *)
(*                                                                         *)
(* Time is abstract: a row's stamp is `fresh` or older than the idle       *)
(* window and its grace; a lease expires when its holder is dead, or, as a *)
(* fault, while the holder is paused; a reply budget is spent only while   *)
(* something long is waited for, or as a fault.  One install uses the      *)
(* deployment, hibernation stays switched on and allowed, no autoscaler    *)
(* owns the replica count, and every pod can start.  The sessions that the *)
(* clean-up after a hibernation deletes are left out.                      *)
(***************************************************************************)
EXTENDS Naturals

CONSTANTS
    Replica,    \* processes of the backend
    Call,       \* tool calls, each repeated at will
    Nobody,     \* no holder
    Faults,     \* what the environment may break, and where ...
    MaxFaults   \* ... and how often

(* At a replica.  crash: it dies.  stall: it lives, but a lease it holds   *)
(* expires.  k8s: a patch gets no answer.  db: a stamp or a release        *)
(* throws.  slow: a wait takes too long.  At nobody's, operator: the       *)
(* deployment is scaled by hand.                                           *)
FaultKind == {"crash", "stall", "k8s", "operator", "db", "slow"}

ASSUME HibernationAssumption ==
    /\ Faults \subseteq FaultKind \X (Replica \cup {Nobody})
    /\ MaxFaults \in Nat
    /\ Nobody \notin Replica \cup ({"sweep", "wake"} \X Replica)

VARIABLES
    obj,      \* the Deployment: replicas >= 1, our annotation, available
    current,  \* writers whose resourceVersion is still the object's
    fresh,    \* last_used_at is within the idle window and its grace
    cache,    \* cache[p]: the state p believes the deployment is in
    sweep,    \* sweep[p]: where p's sweep is
    wake,     \* wake[p]: the wake p's calls share
    refresh,  \* refresh[p]: the periodic refresh finishes a wake
    call,     \* call[c]: a tool call, and where it runs
    faults,   \* faults still to be injected
    lease, locked, guard

Holder == {"sweep", "wake"} \X Replica
Lease == INSTANCE ClusterLease

gate == <<lease, locked, guard>>
cluster == <<obj, current>>
vars == <<cluster, fresh, cache, sweep, wake, refresh, call, faults, gate>>

Sw(p) == <<"sweep", p>>
Wk(p) == <<"wake", p>>
Rf(p) == <<"refresh", p>>

SweepPC == {"off", "try", "read", "check", "fence", "look", "patch", "commit",
            "end"}
WakePC == {"off", "wait", "look", "fence", "read", "patch", "commit", "await",
           "assert", "release", "settle"}
WakeEnd == {"ok", "retry", "raised"}
CallPC == {"off", "stamp", "enter", "join", "connect", "flight", "again"}
Write == {"begin", "finish", "complete"}
Cached == {"unknown", "running", "hibernated", "waking", "pending"}

TypeOK ==
    /\ obj \in [up : BOOLEAN, marked : BOOLEAN, ready : BOOLEAN]
    /\ current \subseteq {"sweep", "wake", "refresh"} \X Replica
    /\ fresh \in BOOLEAN
    /\ cache \in [Replica -> Cached]
    /\ sweep \in [Replica -> SweepPC]
    /\ wake \in [Replica -> [pc : WakePC, write : Write, end : WakeEnd]]
    /\ refresh \in [Replica -> BOOLEAN]
    /\ call \in [Call -> [pc : CallPC, at : Replica \cup {Nobody}]]
    /\ faults \in 0..MaxFaults
    /\ Lease!TypeOK

Spend(f, p) == <<f, p>> \in Faults /\ faults > 0 /\ faults' = faults - 1

---------------------------------------------------------------------------
(* The object, and what is read off it *)

Asleep == ~obj.up /\ obj.marked
HalfAwake == obj.up /\ obj.marked
Awake == obj.up /\ ~obj.marked

(* refreshState without completing a wake: deriveDeploymentState, with the *)
(* debounce of a running deployment that is not available.                 *)
Observed(p) ==
    CASE Asleep -> {"hibernated"}
      [] HalfAwake -> {"waking"}
      [] ~obj.marked /\ obj.ready -> {"running"}
      [] ~obj.marked /\ ~obj.ready ->
            IF cache[p] = "running" THEN {"running", "pending"}
            ELSE IF cache[p] = "unknown" THEN {"unknown"} ELSE {"pending"}

(* An accepted write gives the object a new resourceVersion. *)
Put(o) == obj' = o /\ current' = {}

(* Mutant: a patch without a resourceVersion precondition. *)
Fits_Always(w) == TRUE

(* The precondition of a patch: nothing was written since w's read. *)
Fits(w) == w \in current

ActiveAt(p) == {c \in Call : call[c].at = p}

(* A call has entered.  The heartbeat stamps for it until it is answered;  *)
(* a call answered with an error counts until it is given up, or repeated  *)
(* and stamped for again, which is within the idle window.  A later        *)
(* repetition is a new call.                                               *)
Demand == \E c \in Call : call[c].pc \notin {"off", "stamp"}
Waking == \E p \in Replica : wake[p].pc # "off"

NoWake == [pc |-> "off", write |-> "begin", end |-> "raised"]
NoCall == [pc |-> "off", at |-> Nobody]

(* A call answered with an error, that its client may repeat. *)
Answered == [pc |-> "again", at |-> Nobody]

Init ==
    /\ obj = [up |-> TRUE, marked |-> FALSE, ready |-> TRUE]
    /\ current = {}
    /\ fresh = TRUE
    /\ cache = [p \in Replica |-> "running"]
    /\ sweep = [p \in Replica |-> "off"]
    /\ wake = [p \in Replica |-> NoWake]
    /\ refresh = [p \in Replica |-> FALSE]
    /\ call = [c \in Call |-> NoCall]
    /\ faults = MaxFaults
    /\ Lease!Init

---------------------------------------------------------------------------
(* The sweep *)

SweepTo(p, pc) == sweep' = [sweep EXCEPT ![p] = pc]

(* hibernateIfIdle, the cheap filter before the lease.  A deployment that  *)
(* is not awake is left alone, and the cache converges on what was seen.   *)
SweepPick(p) ==
    /\ sweep[p] = "off"
    /\ cache[p] = "running"
    /\ ActiveAt(p) = {}
    /\ ~fresh
    /\ \/ Awake /\ SweepTo(p, "try") /\ UNCHANGED cache
       \/ /\ ~Awake
          /\ ~(HalfAwake /\ obj.ready)
          /\ \E s \in Observed(p) : cache' = [cache EXCEPT ![p] = s]
          /\ UNCHANGED sweep
    /\ UNCHANGED <<cluster, fresh, wake, refresh, call, faults, gate>>

SweepAcquire(p) ==
    /\ sweep[p] = "try"
    /\ \/ Lease!Acquire(Sw(p)) /\ SweepTo(p, "read")
       \/ Lease!Held /\ SweepTo(p, "off") /\ UNCHANGED gate
    /\ UNCHANGED <<cluster, fresh, cache, wake, refresh, call, faults>>

(* Mutant: the filter's reading of the usage is good enough. *)
SweepRead_Trusting(p) ==
    /\ sweep[p] = "read"
    /\ SweepTo(p, IF ActiveAt(p) = {} THEN "check" ELSE "end")
    /\ UNCHANGED <<cluster, fresh, cache, wake, refresh, call, faults, gate>>

(* Every demand input once more, under the lease. *)
SweepRead(p) ==
    /\ sweep[p] = "read"
    /\ SweepTo(p, IF ActiveAt(p) = {} /\ ~fresh THEN "check" ELSE "end")
    /\ UNCHANGED <<cluster, fresh, cache, wake, refresh, call, faults, gate>>

(* The cache, the live object, and assertOwned. *)
SweepCheck(p) ==
    /\ sweep[p] = "check"
    /\ Lease!Assert(Sw(p))
    /\ SweepTo(p, IF cache[p] = "running" /\ Awake /\ guard'[Sw(p)] = "owned"
                  THEN "fence" ELSE "end")
    /\ UNCHANGED <<cluster, fresh, cache, wake, refresh, call, faults>>

(* K8sDeployment.hibernate runs as a fenced mutation. *)
SweepFence(p) ==
    /\ sweep[p] = "fence"
    /\ \/ Lease!Fence(Sw(p)) /\ SweepTo(p, "look")
       \/ Lease!FenceLost(Sw(p)) /\ SweepTo(p, "end")
    /\ UNCHANGED <<cluster, fresh, cache, wake, refresh, call, faults>>

(* transitionWrite reads the object it is about to patch, and gives up on  *)
(* any other shape; what it saw of a sleeping one goes to the cache.       *)
SweepLook(p) ==
    /\ sweep[p] = "look"
    /\ \/ /\ Awake
          /\ current' = current \cup {Sw(p)}
          /\ SweepTo(p, "patch")
          /\ UNCHANGED <<cache, gate>>
       \/ /\ ~Awake
          /\ cache' = [cache EXCEPT ![p] = IF Asleep THEN "hibernated" ELSE @]
          /\ Lease!Commit(Sw(p))
          /\ SweepTo(p, "end")
          /\ UNCHANGED current
    /\ UNCHANGED <<obj, fresh, wake, refresh, call, faults>>

(* Zero replicas and our annotation, in one patch. *)
Sleep == Put([up |-> FALSE, marked |-> TRUE, ready |-> FALSE])

SweepLands(p) == sweep[p] = "patch" /\ Fits(Sw(p)) /\ Sleep

(* The patch lands; or a conflict, and one attempt is all; or no answer,   *)
(* whether it landed or not, and hibernate throws after a refresh.         *)
SweepPatch(p) ==
    \/ /\ SweepLands(p)
       /\ SweepTo(p, "commit")
       /\ UNCHANGED <<fresh, cache, wake, refresh, call, faults, gate>>
    \/ /\ sweep[p] = "patch" /\ ~Fits(Sw(p))
       /\ SweepTo(p, "end")
       /\ Lease!Commit(Sw(p))
       /\ UNCHANGED <<cluster, fresh, cache, wake, refresh, call, faults>>
    \/ /\ sweep[p] = "patch" /\ Spend("k8s", p)
       /\ SweepLands(p) \/ UNCHANGED cluster
       /\ Lease!Rollback(Sw(p))
       /\ SweepTo(p, "end")
       /\ UNCHANGED <<fresh, cache, wake, refresh, call>>

(* The clean-up of sessions and listeners, up to the release, is left out. *)
SweepCommit(p) ==
    /\ sweep[p] = "commit"
    /\ Lease!Commit(Sw(p))
    /\ cache' = [cache EXCEPT ![p] = "hibernated"]
    /\ SweepTo(p, "end")
    /\ UNCHANGED <<cluster, fresh, wake, refresh, call, faults>>

SweepEnd(p) ==
    /\ sweep[p] = "end"
    /\ \/ Lease!Release(Sw(p)) /\ UNCHANGED faults
       \/ Lease!ReleaseFails(Sw(p)) /\ Spend("db", p)
    /\ SweepTo(p, "off")
    /\ UNCHANGED <<cluster, fresh, cache, wake, refresh, call>>

---------------------------------------------------------------------------
(* The wake *)

WakeTo(p, pc) == wake' = [wake EXCEPT ![p].pc = pc]
WakeWaits(p) == wake' = [wake EXCEPT ![p] = [NoWake EXCEPT !.pc = "await"]]
WakeDo(p, w) == wake' = [wake EXCEPT ![p].pc = "fence", ![p].write = w]

(* How the attempt ends: well; with an McpServerWakeError, for which the   *)
(* callers enter again; or with any other error, which they report.        *)
WakeEnds(p, end) ==
    wake' = [wake EXCEPT ![p] =
                [NoWake EXCEPT !.pc = IF end = "ok" THEN "assert" ELSE "release",
                               !.end = end]]
Cache(p, states) == \E s \in states : cache' = [cache EXCEPT ![p] = s]

(* withLeaseWhenAvailable: the lease, or ClusterLeaseHeldError when its    *)
(* deadline is over.                                                       *)
WakeAcquire(p) ==
    /\ wake[p].pc = "wait"
    /\ \/ Lease!Acquire(Wk(p)) /\ WakeTo(p, "look") /\ UNCHANGED faults
       \/ /\ Lease!Held /\ Spend("slow", p)
          /\ wake' = [wake EXCEPT ![p].pc = "settle", ![p].end = "retry"]
          /\ UNCHANGED gate
    /\ UNCHANGED <<cluster, fresh, cache, sweep, refresh, call>>

(* What wakeDeployment does in the state that a refresh has left behind. *)
Proceed(p) ==
    \/ Asleep /\ Cache(p, {"hibernated"}) /\ WakeDo(p, "begin")
    \/ HalfAwake /\ Cache(p, {"waking"}) /\ WakeWaits(p)
    \/ ~obj.marked /\ Cache(p, Observed(p)) /\ WakeEnds(p, "ok")

(* wakeDeployment: cluster truth first.  A half-woken deployment that is   *)
(* available already is finished by the refresh itself.                    *)
WakeLook(p) ==
    /\ wake[p].pc = "look"
    /\ \/ guard[Wk(p)] = "lost" /\ WakeEnds(p, "raised") /\ UNCHANGED cache
       \/ /\ guard[Wk(p)] = "owned"
          /\ \/ HalfAwake /\ obj.ready /\ Cache(p, {"waking"}) /\ WakeDo(p, "finish")
             \/ ~(HalfAwake /\ obj.ready) /\ Proceed(p)
    /\ UNCHANGED <<cluster, fresh, sweep, refresh, call, faults, gate>>

(* The SELECT that opens the fenced write.  What refreshState's own write  *)
(* throws it keeps to itself, with a pending deployment; but the wake      *)
(* looks at its lease next.                                                *)
WakeFence(p) ==
    /\ wake[p].pc = "fence"
    /\ \/ Lease!Fence(Wk(p)) /\ WakeTo(p, "read") /\ UNCHANGED cache
       \/ /\ Lease!FenceLost(Wk(p))
          /\ WakeEnds(p, "raised")
          /\ IF wake[p].write = "finish" THEN Cache(p, {"pending"})
             ELSE UNCHANGED cache
    /\ UNCHANGED <<cluster, fresh, sweep, refresh, call, faults>>

(* The shape each write expects. *)
Expected(w) ==
    IF w = "begin" THEN Asleep ELSE HalfAwake /\ obj.ready

(* A write that was not applied: refreshStateAfterLostWakeRace, and on     *)
(* with what it saw.                                                       *)
Superseded(p) ==
    CASE wake[p].write = "begin" -> Cache(p, Observed(p)) /\ WakeWaits(p)
      [] wake[p].write = "finish" -> Proceed(p)
      [] wake[p].write = "complete" ->
            \E s \in Observed(p) :
                Cache(p, {s}) /\ WakeEnds(p, IF s = "running" THEN "ok" ELSE "retry")

WakeRead(p) ==
    /\ wake[p].pc = "read"
    /\ \/ /\ Expected(wake[p].write)
          /\ current' = current \cup {Wk(p)}
          /\ WakeTo(p, "patch")
          /\ UNCHANGED <<cache, gate>>
       \/ /\ ~Expected(wake[p].write)
          /\ Superseded(p)
          /\ Lease!Commit(Wk(p))
          /\ UNCHANGED current
    /\ UNCHANGED <<obj, fresh, sweep, refresh, call, faults>>

(* Replicas up; or both annotations gone. *)
WakeLands(p) ==
    /\ wake[p].pc = "patch"
    /\ Fits(Wk(p))
    /\ Put(IF wake[p].write = "begin" THEN [obj EXCEPT !.up = TRUE]
              ELSE [obj EXCEPT !.marked = FALSE])

(* The patch lands; or a conflict, which only beginWake tries again; or no *)
(* answer, whether it landed or not, and the write throws: to the callers, *)
(* or to refreshState, which goes on and lets them through to a pod that   *)
(* is available.                                                           *)
WakePatch(p) ==
    \/ /\ WakeLands(p)
       /\ WakeTo(p, "commit")
       /\ UNCHANGED <<fresh, cache, sweep, refresh, call, faults, gate>>
    \/ /\ wake[p].pc = "patch" /\ ~Fits(Wk(p))
       /\ \/ wake[p].write = "begin" /\ WakeTo(p, "read") /\ UNCHANGED <<cache, gate>>
          \/ Superseded(p) /\ Lease!Commit(Wk(p))
       /\ UNCHANGED <<cluster, fresh, sweep, refresh, call, faults>>
    \/ /\ wake[p].pc = "patch" /\ Spend("k8s", p)
       /\ WakeLands(p) \/ UNCHANGED cluster
       /\ Lease!Rollback(Wk(p))
       /\ IF wake[p].write = "finish"
          THEN Cache(p, {"pending"}) /\ WakeEnds(p, "ok")
          ELSE UNCHANGED cache /\ WakeEnds(p, "raised")
       /\ UNCHANGED <<fresh, sweep, refresh, call>>

WakeCommit(p) ==
    /\ wake[p].pc = "commit"
    /\ Lease!Commit(Wk(p))
    /\ IF wake[p].write = "begin"
       THEN Cache(p, {"waking"}) /\ WakeWaits(p)
       ELSE Cache(p, {"running"}) /\ WakeEnds(p, "ok")
    /\ UNCHANGED <<cluster, fresh, sweep, refresh, call, faults>>

(* waitForDeploymentReady sees a ready pod; or its attempts are used up,   *)
(* and the next wake resumes.  A lost lease is noticed after either.       *)
WakeReady(p) ==
    /\ wake[p].pc = "await"
    /\ \/ /\ obj.ready /\ Cache(p, {"running"})
          /\ IF guard[Wk(p)] = "owned" THEN WakeDo(p, "complete")
             ELSE WakeEnds(p, "raised")
          /\ UNCHANGED faults
       \/ /\ (~obj.up /\ UNCHANGED faults) \/ Spend("slow", p)
          /\ IF guard[Wk(p)] = "owned"
             THEN Cache(p, {"hibernated"}) /\ WakeEnds(p, "retry")
             ELSE UNCHANGED cache /\ WakeEnds(p, "raised")
    /\ UNCHANGED <<cluster, fresh, sweep, refresh, call, gate>>

(* No success from a holder that was replaced: assertOwned, at last.       *)
WakeAssert(p) ==
    /\ wake[p].pc = "assert"
    /\ Lease!Assert(Wk(p))
    /\ wake' = [wake EXCEPT ![p].pc = "release",
                            ![p].end = IF guard'[Wk(p)] = "owned" THEN "ok" ELSE "raised"]
    /\ UNCHANGED <<cluster, fresh, cache, sweep, refresh, call, faults>>

WakeRelease(p) ==
    /\ wake[p].pc = "release"
    /\ \/ Lease!Release(Wk(p)) /\ UNCHANGED faults
       \/ Lease!ReleaseFails(Wk(p)) /\ Spend("db", p)
    /\ WakeTo(p, "settle")
    /\ UNCHANGED <<cluster, fresh, cache, sweep, refresh, call>>

(* Where the outcome of the wake takes a call that waits for it at p.  A   *)
(* retryable race is entered again, unless too little of the reply budget  *)
(* is left for that.                                                       *)
Outcomes(p) ==
    CASE wake[p].end = "ok" -> {[pc |-> "connect", at |-> p]}
      [] wake[p].end = "retry" -> {[pc |-> "enter", at |-> p], Answered}
      [] wake[p].end = "raised" -> {Answered}

(* The shared promise settles, for all the calls that wait for it.         *)
WakeSettle(p) ==
    /\ wake[p].pc = "settle"
    /\ wake' = [wake EXCEPT ![p] = NoWake]
    /\ \E outcome \in [Call -> Outcomes(p)] :
          call' = [c \in Call |->
                      IF call[c].pc = "join" /\ call[c].at = p THEN outcome[c]
                      ELSE call[c]]
    /\ UNCHANGED <<cluster, fresh, cache, sweep, refresh, faults, gate>>

---------------------------------------------------------------------------
(* The periodic refresh *)

(* Mutant: a half-woken deployment is reported, never finished. *)
Refresh_Passive(p) ==
    /\ ~refresh[p]
    /\ Cache(p, Observed(p))
    /\ UNCHANGED <<cluster, fresh, sweep, wake, refresh, call, faults, gate>>

Refresh(p) ==
    /\ ~refresh[p]
    /\ IF HalfAwake /\ obj.ready
       THEN /\ Cache(p, {"waking"})
            /\ refresh' = [refresh EXCEPT ![p] = TRUE]
            /\ current' = current \cup {Rf(p)}
       ELSE Cache(p, Observed(p)) /\ UNCHANGED <<refresh, current>>
    /\ UNCHANGED <<obj, fresh, sweep, wake, call, faults, gate>>

(* completeWake, outside every lease: only the precondition protects it.   *)
(* No answer, whether it landed or not, and the next refresh tries again.  *)
RefreshPatch(p) ==
    /\ refresh[p]
    /\ refresh' = [refresh EXCEPT ![p] = FALSE]
    /\ \/ /\ Fits(Rf(p))
          /\ Put([obj EXCEPT !.marked = FALSE])
          /\ Cache(p, {"running"})
          /\ UNCHANGED faults
       \/ /\ ~Fits(Rf(p)) /\ UNCHANGED <<cluster, faults>>
          /\ Cache(p, Observed(p))
       \/ /\ Spend("k8s", p)
          /\ \/ Fits(Rf(p)) /\ Put([obj EXCEPT !.marked = FALSE])
             \/ UNCHANGED cluster
          /\ Cache(p, {"pending"})
    /\ UNCHANGED <<fresh, sweep, wake, call, gate>>

---------------------------------------------------------------------------
(* Tool calls *)

CallTo(c, pc) == call' = [call EXCEPT ![c].pc = pc]
CallEnds(c) == call' = [call EXCEPT ![c] = NoCall]

(* trackActiveUse counts the call, and then stamps. *)
Arrive(c) ==
    /\ call[c].pc = "off"
    /\ \E p \in Replica : call' = [call EXCEPT ![c] = [pc |-> "stamp", at |-> p]]
    /\ UNCHANGED <<cluster, fresh, cache, sweep, wake, refresh, faults, gate>>

(* stampAwaited: a call whose stamp does not commit is refused. *)
Stamp(c) ==
    /\ call[c].pc = "stamp"
    /\ \/ fresh' = TRUE /\ CallTo(c, "enter") /\ UNCHANGED faults
       \/ Spend("db", call[c].at) /\ CallEnds(c) /\ UNCHANGED fresh
    /\ UNCHANGED <<cluster, cache, sweep, wake, refresh, gate>>

(* ensureAwake: join the wake in flight, or start one. *)
EnsureAwake(c) ==
    LET p == call[c].at IN
    /\ call[c].pc = "enter"
    /\ CallTo(c, "join")
    /\ wake' = IF wake[p].pc # "off" THEN wake
               ELSE [wake EXCEPT ![p].pc = "wait"]
    /\ UNCHANGED <<cluster, fresh, cache, sweep, refresh, faults, gate>>

(* What may outlast the 30 s a call waits for a reply: the lease of a dead *)
(* holder, a pod that starts, and the wake at another replica that waits   *)
(* for it.                                                                 *)
LongWait(p) ==
    \/ /\ wake[p].pc = "wait" /\ lease.live
       /\ \/ Lease!Abandoned
          \/ \E q \in Replica : /\ lease.holder = Wk(q)
                                /\ wake[q].pc = "await" /\ ~obj.ready
    \/ wake[p].pc = "await" /\ ~obj.ready

(* The reply budget is over; the wake goes on without the call. *)
GiveUp(c) ==
    /\ call[c].pc \in {"enter", "join"}
    /\ (LongWait(call[c].at) /\ UNCHANGED faults) \/ Spend("slow", call[c].at)
    /\ call' = [call EXCEPT ![c] = Answered]
    /\ UNCHANGED <<cluster, fresh, cache, sweep, wake, refresh, gate>>

(* The client repeats it, at whichever replica.  The stamp finds the row   *)
(* fresh; one that is refused is a call not repeated.                      *)
Repeat(c) ==
    /\ call[c].pc = "again"
    /\ \E p \in Replica : call' = [call EXCEPT ![c] = [pc |-> "enter", at |-> p]]
    /\ UNCHANGED <<cluster, fresh, cache, sweep, wake, refresh, faults, gate>>

(* The client does not repeat it, within the idle window. *)
Abandon(c) ==
    /\ call[c].pc = "again"
    /\ CallEnds(c)
    /\ UNCHANGED <<cluster, fresh, cache, sweep, wake, refresh, faults, gate>>

(* A session with the pod, and the call is dispatched; or no pod answers.  *)
Connect(c) ==
    /\ call[c].pc = "connect"
    /\ \/ obj.ready /\ CallTo(c, "flight")
       \/ ~obj.ready /\ CallEnds(c)
    /\ UNCHANGED <<cluster, fresh, cache, sweep, wake, refresh, faults, gate>>

Finish(c) ==
    /\ call[c].pc = "flight"
    /\ CallEnds(c)
    /\ UNCHANGED <<cluster, fresh, cache, sweep, wake, refresh, faults, gate>>

---------------------------------------------------------------------------
(* The environment *)

BecomeReady ==
    /\ obj.up /\ ~obj.ready
    /\ Put([obj EXCEPT !.ready = TRUE])
    /\ UNCHANGED <<fresh, cache, sweep, wake, refresh, call, faults, gate>>

(* The idle window passes.  The heartbeat stamps for every call from its   *)
(* entry to its end, and the window is longer than any wake may take.      *)
GoIdle ==
    /\ fresh /\ ~Demand /\ ~Waking
    /\ fresh' = FALSE
    /\ UNCHANGED <<cluster, cache, sweep, wake, refresh, call, faults, gate>>

(* The renewal timer, when it has bad news. *)
Renewal(h) ==
    /\ guard[h] = "owned" /\ ~Lease!Owns(h)
    /\ Lease!Assert(h)
    /\ UNCHANGED <<cluster, fresh, cache, sweep, wake, refresh, call, faults>>

Expire ==
    /\ Lease!Expire
    /\ \/ Lease!Abandoned /\ UNCHANGED faults
       \/ lease.holder # Nobody /\ Spend("stall", lease.holder[2])
    /\ UNCHANGED <<cluster, fresh, cache, sweep, wake, refresh, call>>

Operator ==
    /\ Spend("operator", Nobody)
    /\ Put([obj EXCEPT !.up = ~@, !.ready = FALSE])
    /\ UNCHANGED <<fresh, cache, sweep, wake, refresh, call, gate>>

(* A replica dies, with all it knows, and another one takes its place. *)
Crash(p) ==
    /\ Spend("crash", p)
    /\ Lease!Die({Sw(p), Wk(p)})
    /\ sweep' = [sweep EXCEPT ![p] = "off"]
    /\ wake' = [wake EXCEPT ![p] = NoWake]
    /\ refresh' = [refresh EXCEPT ![p] = FALSE]
    /\ cache' = [cache EXCEPT ![p] = "unknown"]
    /\ call' = [c \in Call |-> IF call[c].at = p THEN NoCall ELSE call[c]]
    /\ current' = current \ {Sw(p), Wk(p), Rf(p)}
    /\ UNCHANGED <<obj, fresh>>

---------------------------------------------------------------------------
(* The specification *)

SweepStep(p) ==
    \/ SweepAcquire(p) \/ SweepRead(p) \/ SweepCheck(p) \/ SweepFence(p)
    \/ SweepLook(p) \/ SweepPatch(p) \/ SweepCommit(p) \/ SweepEnd(p)

WakeStep(p) ==
    \/ WakeLook(p) \/ WakeFence(p) \/ WakeRead(p) \/ WakePatch(p)
    \/ WakeCommit(p) \/ WakeReady(p) \/ WakeAssert(p) \/ WakeRelease(p)
    \/ WakeSettle(p)

CallStep(c) == Stamp(c) \/ EnsureAwake(c) \/ Connect(c)

Next ==
    \/ \E p \in Replica : \/ SweepPick(p) \/ SweepStep(p)
                          \/ WakeAcquire(p) \/ WakeStep(p)
                          \/ Refresh(p) \/ RefreshPatch(p) \/ Crash(p)
    \/ \E c \in Call : Arrive(c) \/ CallStep(c) \/ GiveUp(c)
                       \/ Repeat(c) \/ Abandon(c) \/ Finish(c)
    \/ \E h \in Holder : Renewal(h)
    \/ BecomeReady \/ GoIdle \/ Expire \/ Operator

Spec == Init /\ [][Next]_vars

(* Statements and Kubernetes requests settle, sweeps and refreshes are on  *)
(* timers, a pod starts, time passes, the idle window of a call that is    *)
(* not repeated with it.  A wake that polls for the lease meets it free    *)
(* again and again: it gets it in the end.                                 *)
Fairness ==
    /\ \A p \in Replica : /\ WF_vars(SweepPick(p) \/ SweepStep(p))
                          /\ SF_vars(WakeAcquire(p)) /\ WF_vars(WakeStep(p))
                          /\ WF_vars(Refresh(p) \/ RefreshPatch(p))
    /\ \A c \in Call : WF_vars(CallStep(c) \/ Abandon(c))
    /\ WF_vars(BecomeReady) /\ WF_vars(GoIdle) /\ WF_vars(Expire)

FairSpec == Spec /\ Fairness

---------------------------------------------------------------------------
(* Properties *)

(* A deployment is never put to sleep under a call that was let through to *)
(* it, by whichever replica, although the sweep's reading of the demand is *)
(* by then old, its holder may have been paused past its lease, and the    *)
(* call may have joined somebody else's wake.                              *)
NeverUnderCall ==
    [][\A p \in Replica : SweepLands(p) =>
          \A c \in Call : call[c].pc \notin {"connect", "flight"}]_vars

(* Our own writes never leave zero replicas without our annotation, which  *)
(* nothing may ever wake: not even a finished wake that races an operator, *)
(* another sweep or the periodic refresh.                                  *)
NoOrphan ==
    [][\A p \in Replica : SweepLands(p) \/ WakeLands(p) \/ RefreshPatch(p) =>
          obj' = obj \/ obj'.up \/ obj'.marked]_vars

(* At most one fenced mutation at a time, under a lease no successor has.  *)
OneFence == Lease!OneFence

(* No call waits forever.  However the deployment was left by whoever died *)
(* over it, a call is dispatched in the end: at once, or when its client   *)
(* repeats it after an error, as it is told to do; unless it was given up, *)
(* refused, or died.  The lease of a dead holder may outlive the wait of   *)
(* one call, but not that of the calls that repeat it.                     *)
CallGetsThrough ==
    \A c \in Call : []<>(call[c].pc \in {"off", "flight"})

(* A deployment without demand is put to sleep in the end, also one that a *)
(* dead replica left half awake.                                           *)
IdleSleeps ==
    (<>[](\A c \in Call : call[c].pc = "off")) => <>[](~obj.up)
=============================================================================
