----------------------------- MODULE WriterFence -----------------------------
(***************************************************************************)
(* The writer fence of the typed migration broker (internal/migration/     *)
(* broker.go, writer_fence_inhibitor.go).  A fence keeps the writer        *)
(* services of a source host stopped while a migration copies its data.    *)
(* It lives in three places that change one at a time: the broker's memory *)
(* (mem), the state file (disk) and one boot-inhibitor marker per service  *)
(* (markers).  One holder of writerFenceMu (pc, op) works on fences, while *)
(* the watchdog validates markers, other connections persist the shared    *)
(* state, services restart, and the broker or the machine may stop, all    *)
(* without that lock.                                                      *)
(*                                                                         *)
(* Abstracted: timestamps, fencing tokens and nonces (module BrokerAccept),*)
(* file permissions and drop-in contents, replies.  A request that is      *)
(* rejected before it changes anything is not a step.                      *)
(***************************************************************************)
EXTENDS Naturals, FiniteSets

CONSTANTS
  Migrations, Runs, Services,
  Scopes,        \* the service_handles lists the backend may send
  Null,          \* the empty run id, and no migration
  Environments   \* what may go wrong, and how often

FaultKinds == {"persist", "marker", "control", "systemctl", "crash", "reboot"}

\* which migrations and scopes the backend asks for, whether it may fence again
\* what it has fenced, the kinds of failure that happen, and how many more
Budget == [migrations: SUBSET Migrations, scopes: SUBSET Scopes, retry: BOOLEAN,
           kinds: SUBSET FaultKinds, faults: Nat, restarts: Nat, crashes: Nat, reboots: Nat,
           requests: Nat]

ASSUME ConstantsAssumption ==
  /\ Scopes \subseteq (SUBSET Services) \ {{}}
  /\ Null \notin Runs \cup Migrations
  /\ Environments \subseteq Budget

VARIABLES
  status,     \* "down", "loaded" (NewBroker done), "ready" (systemd notified), "serving"
  mem,        \* b.state.WriterFences, lost when the broker stops
  disk,       \* the state file
  markers,    \* services with a <service>.fenced marker
  running,    \* services systemd reports active
  pc,         \* where the holder of writerFenceMu is, "idle" when it is free
  op,         \* the locals of that holder
  watch,      \* the reconciler outside the lock: "tick", "validated", "resume"
  budget,     \* the environment: what may still happen
  production, \* history: the services that ran before the first request
  dirty       \* history: fences one of whose services restarted while it held

vars == <<status, mem, disk, markers, running, pc, op, watch, budget, production, dirty>>

Phases == {"none", "", "activating", "active", "releasing", "release_authorized", "released"}

\* writerFenceState without its timestamps and token
Fence == [active: BOOLEAN, phase: Phases, run: Runs \cup {Null}, services: SUBSET Services,
          prev: SUBSET Services, viol: Nat, wderr: Nat]

NoFence == [active |-> FALSE, phase |-> "none", run |-> Null, services |-> {},
            prev |-> {}, viol |-> 0, wderr |-> 0]

\* the locals of the lock holder: who called ("request", "reconcile", "resume"),
\* the fence it works on, its copy of the record, the services left in the
\* current loop, and the loop's flags
Op == [who: {"request", "reconcile", "resume"}, m: Migrations \cup {Null}, rec: Fence,
       todo: SUBSET Services, pending: SUBSET Migrations,
       failed: BOOLEAN, violated: BOOLEAN, wderr: BOOLEAN]

NoOp == [who |-> "request", m |-> Null, rec |-> NoFence, todo |-> {},
         pending |-> {}, failed |-> FALSE, violated |-> FALSE, wderr |-> FALSE]

PCs == {"idle",
        "a_mark", "a_intent", "a_abort", "a_stop", "a_verify", "a_commit",
        "r_auth", "c_unmark", "c_start", "c_verify", "c_commit",
        "x_mark", "x_stop", "x_commit",
        "v_poll", "v_commit",
        "w_next", "w_mark", "w_check", "w_commit", "z_next"}

-----------------------------------------------------------------------------
(* Failures and persistence *)

CanFault(kind) == kind \in budget.kinds /\ budget.faults > 0

\* a call of the given kind succeeds, or fails at the cost of one fault
Try(kind, ok) ==
  /\ ok \/ CanFault(kind)
  /\ budget' = IF ok THEN budget ELSE [budget EXCEPT !.faults = @ - 1]

\* persistFences: the temporary file replaces the state file at the rename, so
\* an error is reported either before it, or after it by the directory sync
Outcomes == {"ok", "before", "after"}

Persist(state, out) ==
  /\ Try("persist", out = "ok")
  /\ disk' = IF out = "before" THEN disk ELSE state

Request(m, r, S) ==
  /\ status = "serving" /\ pc = "idle"
  /\ m \in budget.migrations /\ S \in budget.scopes /\ budget.requests > 0

CountRequest == budget' = [budget EXCEPT !.requests = @ - 1]

\* the lock holder returns and unlocks
Finish == pc' = "idle" /\ op' = NoOp

\* the broker process is gone
Stop ==
  /\ status' = "down" /\ watch' = "tick"
  /\ mem' = [m \in Migrations |-> NoFence]
  /\ Finish

\* b.state as loadFences upgrades it: a record without a phase predates phases
Load(f) ==
  [m \in Migrations |->
     IF f[m].phase # "" THEN f[m]
     ELSE IF f[m].active
          THEN [f[m] EXCEPT !.phase = "active",
                            !.prev = IF @ = {} THEN f[m].services ELSE @]
          ELSE [f[m] EXCEPT !.phase = "released"]]

InPhase(f, active, phase) == [f EXCEPT !.active = active, !.phase = phase]

\* a fence that owns its markers
Owns(fence) == fence.active \/ fence.phase = "release_authorized"

\* the services whose markers the records f account for
expectedServiceFenceMarkers(f) == UNION {f[m].services : m \in {n \in Migrations : Owns(f[n])}}

validateServiceFenceMarkers(f) == markers \subseteq expectedServiceFenceMarkers(f)

-----------------------------------------------------------------------------
(* activateWriterFence *)

\* previouslyActiveServices is asked only when no fence is active yet
Intent(m, r, S) ==
  [mem[m] EXCEPT !.active = TRUE, !.phase = "activating", !.run = r, !.services = S,
                 !.prev = IF mem[m].active THEN @ ELSE S \cap running]

\* variant of ActivateBegin: the fences of other migrations are not looked at
ActivateBegin_NoOverlapCheck(m, r, S) ==
  /\ Request(m, r, S)
  /\ mem[m].active => budget.retry /\ mem[m].run = r /\ mem[m].services = S
  /\ pc' = "a_mark"
  /\ op' = [NoOp EXCEPT !.m = m, !.todo = S, !.rec = Intent(m, r, S)]
  /\ CountRequest
  /\ UNCHANGED <<status, mem, disk, markers, running, watch, production, dirty>>

ActivateBegin(m, r, S) ==
  /\ Request(m, r, S)
  /\ mem[m].active => budget.retry
  /\ \A n \in Migrations \ {m} : mem[n].active => mem[n].services \cap S = {}
  /\ mem[m].active => mem[m].run = r /\ mem[m].services = S
  /\ pc' = "a_mark"
  /\ op' = [NoOp EXCEPT !.m = m, !.todo = S, !.rec = Intent(m, r, S)]
  /\ CountRequest
  /\ UNCHANGED <<status, mem, disk, markers, running, watch, production, dirty>>

AfterMarks(p) == IF p = "a_mark" THEN "a_intent" ELSE IF p = "x_mark" THEN "x_stop" ELSE "w_check"

\* one turn of the marker loop of activateServiceFenceInhibitors
InstallMarker(s) ==
  /\ pc \in {"a_mark", "x_mark", "w_mark"} /\ s \in op.todo
  /\ markers' = markers \cup {s}
  /\ IF op.todo = {s}
     THEN pc' = AfterMarks(pc) /\ op' = [op EXCEPT !.todo = op.rec.services]
     ELSE pc' = pc /\ op' = [op EXCEPT !.todo = @ \ {s}]
  /\ UNCHANGED <<status, mem, disk, running, watch, budget, production, dirty>>

\* activateServiceFenceInhibitors fails with some of the markers in place: the
\* activation is rejected, a rollback ignores it, the watchdog notes an error
InstallFails(T) ==
  /\ pc \in {"a_mark", "x_mark", "w_mark"} /\ T \subseteq op.todo
  /\ Try("marker", FALSE)
  /\ markers' = markers \cup T
  /\ IF pc = "a_mark" THEN Finish
     ELSE /\ pc' = AfterMarks(pc)
          /\ op' = [op EXCEPT !.todo = op.rec.services, !.wderr = pc = "w_mark"]
  /\ UNCHANGED <<status, mem, disk, running, watch, production, dirty>>

\* the intent is durable before the first stop; if it cannot be, memory goes
\* back to the prior record and the services are stopped all the same
PersistIntent(out) ==
  LET new == [mem EXCEPT ![op.m] = op.rec] IN
  /\ pc = "a_intent"
  /\ Persist(new, out)
  /\ mem' = IF out = "ok" THEN new ELSE mem
  /\ pc' = IF out = "ok" THEN "a_stop" ELSE "a_abort"
  /\ UNCHANGED <<status, markers, running, op, watch, production, dirty>>

\* one turn of a stop loop; only the activation's own loop reports the failure
StopService(s, ok) ==
  LET failed == op.failed \/ ~ok IN
  /\ pc \in {"a_abort", "a_stop", "x_stop"} /\ s \in op.todo
  /\ Try("control", ok)
  /\ running' = IF ok THEN running \ {s} ELSE running
  /\ IF op.todo # {s}
     THEN pc' = pc /\ op' = [op EXCEPT !.todo = @ \ {s}, !.failed = failed]
     ELSE IF pc = "a_abort" \/ (pc = "a_stop" /\ failed)
          THEN Finish
          ELSE /\ pc' = IF pc = "a_stop" THEN "a_verify" ELSE "x_commit"
               /\ op' = [op EXCEPT !.todo = {}]
  /\ UNCHANGED <<status, mem, disk, markers, watch, production, dirty>>

\* verifyServicesInactive at the end of the activation
VerifyStopped(known) ==
  /\ pc = "a_verify"
  /\ Try("control", known)
  /\ IF known /\ op.rec.services \cap running = {}
     THEN pc' = "a_commit" /\ UNCHANGED op
     ELSE Finish
  /\ UNCHANGED <<status, mem, disk, markers, running, watch, production, dirty>>

\* variant of Unproven: the literal leaves out the counters as well
Unproven_NoCounters(rec) ==
  [rec EXCEPT !.phase = "activating", !.run = Null, !.viol = 0, !.wderr = 0]

\* the record the code writes to memory when the last write of an activation
\* fails names every field but RunID
Unproven(rec) == [rec EXCEPT !.phase = "activating", !.run = Null]

CommitActive(out) ==
  LET rec == InPhase(op.rec, TRUE, "active")
      new == [mem EXCEPT ![op.m] = rec] IN
  /\ pc = "a_commit"
  /\ Persist(new, out)
  /\ mem' = IF out = "ok" THEN new ELSE [mem EXCEPT ![op.m] = Unproven(rec)]
  /\ Finish
  /\ UNCHANGED <<status, markers, running, watch, production, dirty>>

-----------------------------------------------------------------------------
(* releaseWriterFence *)

Observed(r, S) == [NoFence EXCEPT !.phase = "released", !.run = r, !.services = S, !.prev = S]

\* no record: a recovery outside the agent is recorded when every writer runs
ReleaseUnknown(m, r, S, out) ==
  LET new == [mem EXCEPT ![m] = Observed(r, S)] IN
  /\ Request(m, r, S)
  /\ mem[m].phase = "none" /\ S \subseteq running
  /\ Persist(new, out)
  /\ mem' = IF out = "ok" THEN new ELSE mem
  /\ UNCHANGED <<status, markers, running, pc, op, watch, production, dirty>>

\* already released: only the token and the time of the record change
ReleaseAgain(m, r, S, out) ==
  /\ Request(m, r, S)
  /\ mem[m].phase = "released" /\ mem[m].run = r /\ mem[m].services = S
  /\ S \cap running = mem[m].prev
  /\ Persist(mem, out)
  /\ UNCHANGED <<status, mem, markers, running, pc, op, watch, production, dirty>>

\* variant of ReleaseBegin: the authorization is built without PreviouslyActive
ReleaseBegin_DropsPrev(m, r, S) ==
  /\ Request(m, r, S)
  /\ mem[m].active /\ mem[m].run = r /\ mem[m].services = S
  /\ mem[m].phase # "releasing"
  /\ S \cap running = {}
  /\ pc' = "r_auth"
  /\ op' = [NoOp EXCEPT !.m = m, !.rec = [InPhase(mem[m], FALSE, "release_authorized") EXCEPT !.prev = {}]]
  /\ CountRequest
  /\ UNCHANGED <<status, mem, disk, markers, running, watch, production, dirty>>

\* an active fence, by its own run, while every scoped service is inactive.
\* The branch for a record that is already release_authorized is left out:
\* NoLooseAuthorization shows that no request ever meets one.
ReleaseBegin(m, r, S) ==
  /\ Request(m, r, S)
  /\ mem[m].active /\ mem[m].run = r /\ mem[m].services = S
  /\ mem[m].phase # "releasing"
  /\ S \cap running = {}
  /\ pc' = "r_auth"
  /\ op' = [NoOp EXCEPT !.m = m, !.rec = InPhase(mem[m], FALSE, "release_authorized")]
  /\ CountRequest
  /\ UNCHANGED <<status, mem, disk, markers, running, watch, production, dirty>>

\* variant of AuthorizeRelease: a failed write does not stop the release
AuthorizeRelease_IgnoresError(out) ==
  LET new == [mem EXCEPT ![op.m] = op.rec] IN
  /\ pc = "r_auth"
  /\ Persist(new, out)
  /\ mem' = new /\ pc' = "c_unmark" /\ op' = [op EXCEPT !.todo = op.rec.services]
  /\ UNCHANGED <<status, markers, running, watch, production, dirty>>

\* the authorization is durable before the first marker goes
AuthorizeRelease(out) ==
  LET new == [mem EXCEPT ![op.m] = op.rec] IN
  /\ pc = "r_auth"
  /\ Persist(new, out)
  /\ IF out = "ok"
     THEN mem' = new /\ pc' = "c_unmark" /\ op' = [op EXCEPT !.todo = op.rec.services]
     ELSE mem' = mem /\ Finish
  /\ UNCHANGED <<status, markers, running, watch, production, dirty>>

\* variant of Rollback: the markers are not installed again
Rollback_NoMarkers == pc' = "x_stop" /\ op' = [op EXCEPT !.todo = op.rec.services, !.failed = TRUE]

\* completeAuthorizedWriterFenceRelease gives up: restoreActiveWriterFence
Rollback == pc' = "x_mark" /\ op' = [op EXCEPT !.todo = op.rec.services, !.failed = TRUE]

\* the loop that starts the services again, or what follows when it is done
ToStart(todo) ==
  /\ pc' = IF todo = {} THEN "c_verify" ELSE "c_start"
  /\ op' = [op EXCEPT !.todo = todo]

\* one turn of the loop of releaseServiceFenceInhibitors
RemoveMarker(s) ==
  /\ pc = "c_unmark" /\ s \in op.todo
  /\ markers' = markers \ {s}
  /\ IF op.todo = {s} THEN ToStart(op.rec.prev)
     ELSE pc' = pc /\ op' = [op EXCEPT !.todo = @ \ {s}]
  /\ UNCHANGED <<status, mem, disk, running, watch, budget, production, dirty>>

RemoveFails(T) ==
  /\ pc = "c_unmark" /\ T \subseteq op.todo
  /\ Try("marker", FALSE)
  /\ markers' = markers \ T
  /\ Rollback
  /\ UNCHANGED <<status, mem, disk, running, watch, production, dirty>>

StartService(s, ok) ==
  /\ pc = "c_start" /\ s \in op.todo
  /\ Try("control", ok)
  /\ running' = IF ok THEN running \cup {s} ELSE running
  /\ IF ok THEN ToStart(op.todo \ {s}) ELSE Rollback
  /\ UNCHANGED <<status, mem, disk, markers, watch, production, dirty>>

\* verifyExpectedServiceStates
VerifyRestarted(known) ==
  /\ pc = "c_verify"
  /\ Try("control", known)
  /\ IF known /\ op.rec.services \cap running = op.rec.prev
     THEN pc' = "c_commit" /\ UNCHANGED op
     ELSE Rollback
  /\ UNCHANGED <<status, mem, disk, markers, running, watch, production, dirty>>

CommitReleased(out) ==
  LET new == [mem EXCEPT ![op.m] = InPhase(op.rec, FALSE, "released")] IN
  /\ pc = "c_commit"
  /\ Persist(new, out)
  /\ IF out = "ok"
     THEN /\ mem' = new
          /\ dirty' = [dirty EXCEPT ![op.m] = FALSE]
          /\ IF op.who = "resume" THEN pc' = "z_next" /\ UNCHANGED op ELSE Finish
     ELSE mem' = mem /\ Rollback /\ UNCHANGED dirty
  /\ UNCHANGED <<status, markers, running, watch, production>>

\* restoreActiveWriterFence records the fence as active whatever its own steps
\* and this write did; an error of the resumption at start ends Serve
CommitRestored(out) ==
  LET new == [mem EXCEPT ![op.m] = InPhase(op.rec, TRUE, "active")] IN
  /\ pc = "x_commit"
  /\ Persist(new, out)
  /\ IF status = "ready" THEN Stop
     ELSE mem' = new /\ Finish /\ UNCHANGED <<status, watch>>
  /\ UNCHANGED <<markers, running, production, dirty>>

-----------------------------------------------------------------------------
(* verifyWriterFence: the lock is held over every poll of the interval *)

Query(r, S) == [NoFence EXCEPT !.run = r, !.services = S]

VerifyBegin(m, r, S) ==
  /\ Request(m, r, S)
  /\ pc' = "v_poll"
  /\ op' = [NoOp EXCEPT !.m = m, !.rec = Query(r, S)]
  /\ CountRequest
  /\ UNCHANGED <<status, mem, disk, markers, running, watch, production, dirty>>

\* the last poll before the deadline, or the first that fails
VerifyPoll(known) ==
  /\ pc = "v_poll"
  /\ Try("control", known)
  /\ IF known /\ op.rec.services \cap running = {}
     THEN pc' = "v_commit" /\ UNCHANGED op
     ELSE Finish
  /\ UNCHANGED <<status, mem, disk, markers, running, watch, production, dirty>>

VerifyCommit(out) ==
  LET f == mem[op.m]
      proven == /\ f.active /\ f.run = op.rec.run /\ f.services = op.rec.services
                /\ f.phase # "releasing"
      new == [mem EXCEPT ![op.m] = InPhase(f, TRUE, IF f.phase = "activating" THEN "active" ELSE f.phase)] IN
  /\ pc = "v_commit"
  /\ IF proven THEN Persist(new, out) /\ mem' = new
     ELSE out = "ok" /\ UNCHANGED <<mem, disk, budget>>
  /\ Finish
  /\ UNCHANGED <<status, markers, running, watch, production, dirty>>

-----------------------------------------------------------------------------
(* reconcileWriterFences: at start, by the watchdog, by an attestation *)

\* without writerFenceMu
Validate ==
  /\ watch = "tick"
  /\ status = "serving" \/ (status = "loaded" /\ pc = "idle")
  /\ validateServiceFenceMarkers(mem)
  /\ watch' = "validated"
  /\ UNCHANGED <<status, mem, disk, markers, running, pc, op, budget, production, dirty>>

\* variant of Reconciled: monitorWriterFences returns where it should continue
Reconciled_EndsMonitor(ok) ==
  IF status = "loaded"
  THEN IF ok THEN status' = "ready" /\ watch' = "tick" /\ mem' = mem /\ Finish ELSE Stop
  ELSE watch' = (IF ok THEN "resume" ELSE "ended") /\ Finish /\ UNCHANGED <<status, mem>>

\* the end of a reconciliation: Serve goes on only after a successful one
Reconciled(ok) ==
  IF status = "loaded"
  THEN IF ok THEN status' = "ready" /\ watch' = "tick" /\ mem' = mem /\ Finish ELSE Stop
  ELSE watch' = (IF ok THEN "resume" ELSE "tick") /\ Finish /\ UNCHANGED <<status, mem>>

Bump(f, violated, wderr) ==
  [f EXCEPT !.viol = @ + (IF violated THEN 1 ELSE 0), !.wderr = @ + (IF wderr THEN 1 ELSE 0)]

\* no systemctl: every active fence is charged, still without writerFenceMu
Unavailable(out) ==
  LET new == [m \in Migrations |-> IF mem[m].active THEN Bump(mem[m], TRUE, TRUE) ELSE mem[m]] IN
  /\ watch = "validated"
  /\ CanFault("systemctl")
  /\ (out # "ok") => "persist" \in budget.kinds
  /\ disk' = IF out = "before" THEN disk ELSE new
  /\ budget' = [budget EXCEPT !.faults = @ - 1]
  /\ IF status = "loaded" THEN Stop
     ELSE mem' = new /\ watch' = "tick" /\ UNCHANGED <<status, pc, op>>
  /\ UNCHANGED <<markers, running, production, dirty>>

\* variant of ReconcileBegin: only completed fences are looked at
ReconcileBegin_ActiveOnly ==
  /\ watch = "validated" /\ pc = "idle"
  /\ pc' = "w_next"
  /\ op' = [NoOp EXCEPT !.who = "reconcile",
                        !.pending = {m \in Migrations : mem[m].active /\ mem[m].phase = "active"}]
  /\ watch' = "tick"
  /\ UNCHANGED <<status, mem, disk, markers, running, budget, production, dirty>>

ReconcileBegin ==
  /\ watch = "validated" /\ pc = "idle"
  /\ pc' = "w_next"
  /\ op' = [NoOp EXCEPT !.who = "reconcile", !.pending = {m \in Migrations : mem[m].active}]
  /\ watch' = "tick"
  /\ UNCHANGED <<status, mem, disk, markers, running, budget, production, dirty>>

ReconcileFence(m) ==
  /\ pc = "w_next" /\ m \in op.pending
  /\ pc' = "w_mark"
  /\ op' = [op EXCEPT !.m = m, !.rec = mem[m], !.todo = mem[m].services,
                      !.pending = @ \ {m}, !.violated = FALSE, !.wderr = FALSE]
  /\ UNCHANGED <<status, mem, disk, markers, running, watch, budget, production, dirty>>

\* variant of CheckService: a stopped restart is not charged
CheckService_NoCharge(s, res) ==
  LET act == res = "unknown" \/ s \in running \/ op.rec.phase = "releasing" IN
  /\ pc = "w_check" /\ s \in op.todo
  /\ Try("control", res = "ok")
  /\ \/ running' = running /\ (act => res # "ok")
     \/ running' = running \ {s} /\ act /\ res # "stuck"
  /\ pc' = IF op.todo = {s} THEN "w_commit" ELSE pc
  /\ op' = [op EXCEPT !.todo = @ \ {s}, !.wderr = @ \/ (act /\ res # "ok")]
  /\ UNCHANGED <<status, mem, disk, markers, watch, production, dirty>>

\* IsActive, and a stop when it is active, unknown or left over from a release
\* of an older broker; res says which of the two calls fails
CheckService(s, res) ==
  LET act == res = "unknown" \/ s \in running \/ op.rec.phase = "releasing" IN
  /\ pc = "w_check" /\ s \in op.todo
  /\ Try("control", res = "ok")
  /\ \/ running' = running /\ (act => res # "ok")
     \/ running' = running \ {s} /\ act /\ res # "stuck"
  /\ pc' = IF op.todo = {s} THEN "w_commit" ELSE pc
  /\ op' = [op EXCEPT !.todo = @ \ {s},
                      !.violated = @ \/ (act /\ op.rec.phase = "active"),
                      !.wderr = @ \/ (act /\ res # "ok")]
  /\ UNCHANGED <<status, mem, disk, markers, watch, production, dirty>>

\* under mu: verify, count, complete the phase, persist.  That the record is
\* still active with the same services holds, as only the lock holder changes it.
ReconcileCommit(known, out) ==
  LET f == mem[op.m]
      inactive == known /\ f.services \cap running = {}
      phase == IF inactive /\ f.phase \in {"activating", "releasing"} THEN "active" ELSE f.phase
      rec == InPhase(Bump(f, op.violated \/ ~inactive, op.wderr \/ ~inactive), TRUE, phase)
      new == [mem EXCEPT ![op.m] = rec] IN
  /\ pc = "w_commit"
  /\ known \/ (CanFault("control") /\ out = "ok")
  /\ (out # "ok") => CanFault("persist")
  /\ budget' = IF known /\ out = "ok" THEN budget ELSE [budget EXCEPT !.faults = @ - 1]
  /\ disk' = IF out = "before" THEN disk ELSE new
  /\ mem' = new
  /\ pc' = "w_next"
  /\ op' = [op EXCEPT !.failed = @ \/ op.wderr \/ ~inactive \/ out # "ok"]
  /\ UNCHANGED <<status, markers, running, watch, production, dirty>>

ReconcileDone ==
  /\ pc = "w_next" /\ op.pending = {}
  /\ Reconciled(~op.failed)
  /\ UNCHANGED <<disk, markers, running, budget, production, dirty>>

-----------------------------------------------------------------------------
(* resumeAuthorizedWriterFenceReleases: at start, and after a reconciliation *)

\* variant of ResumeBegin: only active records are collected
ResumeBegin_ActiveOnly ==
  /\ pc = "idle"
  /\ status = "ready" \/ watch = "resume"
  /\ pc' = "z_next"
  /\ op' = [NoOp EXCEPT !.who = "resume",
                        !.pending = {m \in Migrations : mem[m].active /\ mem[m].phase = "release_authorized"}]
  /\ watch' = "tick"
  /\ UNCHANGED <<status, mem, disk, markers, running, budget, production, dirty>>

ResumeBegin ==
  /\ pc = "idle"
  /\ status = "ready" \/ watch = "resume"
  /\ pc' = "z_next"
  /\ op' = [NoOp EXCEPT !.who = "resume",
                        !.pending = {m \in Migrations : ~mem[m].active /\ mem[m].phase = "release_authorized"}]
  /\ watch' = "tick"
  /\ UNCHANGED <<status, mem, disk, markers, running, budget, production, dirty>>

ResumeFence(m) ==
  /\ pc = "z_next" /\ m \in op.pending
  /\ pc' = "c_unmark"
  /\ op' = [op EXCEPT !.m = m, !.rec = mem[m], !.todo = mem[m].services, !.pending = @ \ {m}]
  /\ UNCHANGED <<status, mem, disk, markers, running, watch, budget, production, dirty>>

\* Serve starts the watchdog and accepts connections
ResumeDone ==
  /\ pc = "z_next" /\ op.pending = {}
  /\ Finish
  /\ status' = "serving"
  /\ UNCHANGED <<mem, disk, markers, running, watch, budget, production, dirty>>

-----------------------------------------------------------------------------
(* Other connections, and the host *)

\* acceptFence of any other connection persists the whole state, fences included
AcceptPersists ==
  /\ status = "serving"
  /\ disk' = mem
  /\ UNCHANGED <<status, mem, markers, running, pc, op, watch, budget, production, dirty>>

\* NewBroker
Start ==
  /\ status = "down"
  /\ validateServiceFenceMarkers(Load(disk))
  /\ mem' = Load(disk)
  /\ status' = "loaded"
  /\ UNCHANGED <<disk, markers, running, pc, op, watch, budget, production, dirty>>

\* the records that hold now
Records == IF status = "down" THEN Load(disk) ELSE mem

\* the fences that are active and that no request is changing at the moment
Holding(s) == {m \in Migrations : /\ Records[m].active /\ Records[m].phase = "active"
                                  /\ s \in Records[m].services
                                  /\ ~(op.who = "request" /\ op.m = m /\ pc \notin {"v_poll", "v_commit"})}

Started(s) ==
  /\ running' = running \cup {s}
  /\ dirty' = [m \in Migrations |-> dirty[m] \/ m \in Holding(s)]

\* systemd starts a writer unit: after the broker is ready, and not past a marker
UnitStart(s) ==
  /\ status \in {"ready", "serving"}
  /\ s \in production \ (running \cup markers)
  /\ Started(s)
  /\ UNCHANGED <<status, mem, disk, markers, pc, op, watch, budget, production>>

\* a fenced service is started past its unit: what the watchdog is there for
UnexpectedRestart(s) ==
  /\ s \notin running
  /\ \E m \in Migrations : Records[m].active /\ s \in Records[m].services
  /\ budget.restarts > 0
  /\ budget' = [budget EXCEPT !.restarts = @ - 1]
  /\ Started(s)
  /\ UNCHANGED <<status, mem, disk, markers, pc, op, watch, production>>

Crash ==
  /\ status # "down"
  /\ "crash" \in budget.kinds /\ budget.crashes > 0
  /\ budget' = [budget EXCEPT !.crashes = @ - 1]
  /\ Stop
  /\ UNCHANGED <<disk, markers, running, production, dirty>>

Reboot ==
  /\ "reboot" \in budget.kinds /\ budget.reboots > 0
  /\ budget' = [budget EXCEPT !.reboots = @ - 1]
  /\ Stop
  /\ running' = {}
  /\ UNCHANGED <<disk, markers, production, dirty>>

-----------------------------------------------------------------------------
(* The first start finds no state file, or the one of a broker that knew   *)
(* neither markers nor, in its first version, phases.                      *)

Empty == [m \in Migrations |-> NoFence]

Legacy(m, r, S, prev, phase) ==
  [Empty EXCEPT ![m] = [NoFence EXCEPT !.active = TRUE, !.phase = phase, !.run = r,
                                       !.services = S, !.prev = prev]]

Init ==
  /\ status = "down" /\ watch = "tick" /\ pc = "idle" /\ op = NoOp
  /\ mem = Empty /\ markers = {}
  /\ budget \in Environments
  /\ dirty = [m \in Migrations |-> FALSE]
  /\ production \in SUBSET Services
  /\ \/ disk = Empty /\ running = production
     \/ \E m \in budget.migrations, r \in Runs, S \in budget.scopes :
          /\ disk \in {Legacy(m, r, S, {}, ""), Legacy(m, r, S, S \cap production, "releasing")}
          /\ running = production \ S

Requests ==
  \E m \in Migrations, r \in Runs, S \in Scopes :
    \/ ActivateBegin(m, r, S) \/ ReleaseBegin(m, r, S) \/ VerifyBegin(m, r, S)
    \/ \E out \in Outcomes : ReleaseUnknown(m, r, S, out) \/ ReleaseAgain(m, r, S, out)

\* the next step of the holder of writerFenceMu
HolderStep ==
  \/ \E s \in Services : InstallMarker(s) \/ RemoveMarker(s)
  \/ \E T \in SUBSET Services : InstallFails(T) \/ RemoveFails(T)
  \/ \E s \in Services, ok \in BOOLEAN : StopService(s, ok) \/ StartService(s, ok)
  \/ \E known \in BOOLEAN : VerifyStopped(known) \/ VerifyRestarted(known) \/ VerifyPoll(known)
  \/ \E out \in Outcomes : \/ PersistIntent(out) \/ CommitActive(out) \/ AuthorizeRelease(out)
                           \/ CommitReleased(out) \/ CommitRestored(out) \/ VerifyCommit(out)
  \/ \E m \in Migrations : ReconcileFence(m) \/ ResumeFence(m)
  \/ \E s \in Services, res \in {"ok", "unknown", "stuck"} : CheckService(s, res)
  \/ \E known \in BOOLEAN, out \in Outcomes : ReconcileCommit(known, out)
  \/ ReconcileDone \/ ResumeDone

Environment ==
  \/ \E s \in Services : UnitStart(s) \/ UnexpectedRestart(s)
  \/ Crash \/ Reboot

Next ==
  \/ Requests \/ HolderStep \/ Environment
  \/ Validate \/ ReconcileBegin \/ ResumeBegin \/ Start \/ AcceptPersists
  \/ \E out \in Outcomes : Unavailable(out)

Spec == Init /\ [][Next]_vars

-----------------------------------------------------------------------------
(* Properties *)

TypeOK ==
  /\ status \in {"down", "loaded", "ready", "serving"}
  /\ mem \in [Migrations -> Fence] /\ disk \in [Migrations -> Fence]
  /\ markers \subseteq Services /\ running \subseteq Services /\ production \subseteq Services
  /\ pc \in PCs /\ op \in Op
  /\ watch \in {"tick", "validated", "resume"}
  /\ budget \in Budget
  /\ dirty \in [Migrations -> BOOLEAN]

Disjoint(f) == \A m, n \in Migrations :
                 m # n /\ Owns(f[m]) /\ Owns(f[n]) => f[m].services \cap f[n].services = {}

\* No service belongs to two fences that own markers, in memory or in the state
\* file.  activateWriterFence only looks for other active fences, so this rests
\* on Serve finishing every authorized release before it accepts a request.
SingleOwner == Disjoint(mem) /\ Disjoint(disk)

\* Once systemd may start writer units, a fence the state file calls active has
\* the marker of every one of its services: activateWriterFence installs them
\* before its intent is persisted, releaseWriterFence removes them only after
\* its authorization is, and Serve restores missing ones before it is ready.
\* (A marker that cannot be written is the one failure that breaks this.)
FenceInhibited ==
  "marker" \notin budget.kinds /\ status \in {"ready", "serving"} =>
    \A m \in Migrations : disk[m].active => disk[m].services \subseteq markers

\* A marker is only ever removed for a fence whose release is authorized in the
\* state file at that moment, so a crash can only resume an authorized release.
RemovalAuthorized ==
  [][\A s \in markers \ markers' : \E m \in Migrations :
       disk[m].phase = "release_authorized" /\ s \in disk[m].services]_vars

\* A request of a serving broker never meets a record that is release_authorized:
\* every operation that authorizes a release ends it as released or active.
NoLooseAuthorization ==
  status = "serving" /\ pc \notin {"c_unmark", "c_start", "c_verify", "c_commit",
                                   "x_mark", "x_stop", "x_commit"} =>
    \A m \in Migrations : mem[m].phase # "release_authorized"

\* A fenced service that restarted and was stopped again has left a violation:
\* "Any unexpected restart is immediately stopped and permanently recorded."
\* (Not so after a crash, a failed write or a repeated fence request.)
NoSilentRestart ==
  budget.kinds \subseteq {"control"} /\ ~budget.retry /\ status = "serving" /\ pc = "idle" =>
    \A m \in Migrations :
      dirty[m] /\ mem[m].active /\ mem[m].services \cap running = {} => mem[m].viol > 0

\* The evidence in the state file never shrinks: no write of a stale copy of a
\* record, no rollback and no restart lowers a fence's counters.  (The counts
\* added without writerFenceMu when systemctl is missing may get lost.)
EvidenceKept ==
  [][\A m \in Migrations : "systemctl" \notin budget.kinds =>
       disk'[m].viol >= disk[m].viol /\ disk'[m].wderr >= disk[m].wderr]_vars

\* An active fence remembers every service that ran before it, so that its
\* release starts them again.  (When its first write fails, it stops services no
\* record names; after a reboot, it may be asked for before systemd has started
\* the services again.)
RemembersWriters ==
  budget.kinds \cap {"persist", "reboot"} = {} =>
    \A m \in Migrations : mem[m].active => mem[m].services \cap production \subseteq mem[m].prev

-----------------------------------------------------------------------------
(* Liveness: the goroutine that holds the lock runs on, the watchdog ticks   *)
(* every 2 seconds and gets the lock (Go mutexes are starvation free), and   *)
(* systemd restarts the broker (Restart=on-failure).                         *)

Fairness ==
  /\ WF_vars(HolderStep)
  /\ WF_vars(Validate) /\ WF_vars(ReconcileBegin) /\ WF_vars(ResumeBegin)
  /\ WF_vars(Start)

FairSpec == Spec /\ Fairness

\* The watchdog stops a fenced service that runs.
Enforced ==
  \A m \in Migrations, s \in Services :
    (status = "serving" /\ mem[m].active /\ s \in mem[m].services \cap running)
      ~> (status # "serving" \/ ~mem[m].active \/ s \notin running)

\* "The watchdog can therefore finish a partially applied fence after a crash."
ActivationEnds == \A m \in Migrations : disk[m].phase = "activating" ~> disk[m].phase # "activating"

\* A durable release authorization is carried through, or withdrawn, whatever
\* crashes interrupt it.
ReleaseEnds ==
  \A m \in Migrations : disk[m].phase = "release_authorized" ~> disk[m].phase # "release_authorized"

=============================================================================
