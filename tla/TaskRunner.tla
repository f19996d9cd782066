----------------------------- MODULE TaskRunner -----------------------------
(***************************************************************************)
(* The signed-task runner of the agent (internal/migration/task.go): claim *)
(* a task, admit its nonce once, execute it under a lease heartbeat that   *)
(* may bring a pause or a cancellation, and deliver its result through an  *)
(* outbox in the state file.  The main goroutine (pc) and the heartbeat    *)
(* share progressMu (prog); every save and every call to the backend may   *)
(* fail, an answer may be lost after the backend has acted, and the agent  *)
(* may crash at any point.                                                 *)
(*                                                                         *)
(* Abstracted: signatures and digests, phase names and units, what the     *)
(* primitive does.  Each envelope is one attempt with a nonce of its own.  *)
(***************************************************************************)
EXTENDS Naturals, Sequences

CONSTANTS
  Tasks,        \* envelopes the backend may hand out, and hand out again
  Expiry,       \* when each expires
  None,
  MaxClock, MaxFaults, MaxCrashes, MaxProgress


VARIABLES
  clock,
  mem,      \* r.state
  disk,     \* task-state.json
  pc,       \* the main goroutine, in RunOnce
  task,     \* the task it works on
  prog,     \* progressMu: "free", or a progress report is being posted
  ctl,      \* progressErr
  exec,     \* the primitive: "no", "working", or the state it ended with
  result,   \* the state to report
  fenced,   \* backend: attempts it has given to another run of the step
  heard,    \* backend: the sequence numbers reported for each attempt
  got,      \* backend: the results it has taken
  told,     \* history: the control answer the agent has received
  runs,     \* history: how often each task was let through
  faults, crashes

vars == <<clock, mem, disk, pc, task, prog, ctl, exec, result, fenced, heard, got, told, runs, faults, crashes>>

Ends == {"succeeded", "failed", "paused", "cancelled"}
Results == [task: Tasks, state: Ends]

State == [pending: Results \cup {None}, active: Tasks \cup {None}, seq: Nat, seen: SUBSET Tasks]
Blank == [pending |-> None, active |-> None, seq |-> 0, seen |-> {}]

PCs == {"down", "flush", "claim", "verify", "admit", "start", "started", "run", "final", "finalized",
        "save", "post"}

ASSUME TaskRunnerAssumption ==
  /\ Expiry \in [Tasks -> Nat] /\ None \notin Tasks /\ None \notin Results
  /\ MaxClock \in Nat /\ MaxFaults \in Nat /\ MaxCrashes \in Nat /\ MaxProgress \in Nat

Init ==
  /\ clock = 0 /\ mem = Blank /\ disk = Blank
  /\ pc = "flush" /\ task = None /\ prog = "free" /\ ctl = "none" /\ exec = "no" /\ result = "no"
  /\ fenced = {} /\ heard = [t \in Tasks |-> <<>>] /\ got = {}
  /\ told = [t \in Tasks |-> "none"] /\ runs = [t \in Tasks |-> 0]
  /\ faults = 0 /\ crashes = 0

-----------------------------------------------------------------------------
(* Saving and calling *)

Fault(ok) ==
  /\ ok \/ faults < MaxFaults
  /\ faults' = IF ok THEN faults ELSE faults + 1

\* saveState: memory keeps what could not be written
Save(state, ok) ==
  /\ mem' = state
  /\ disk' = IF ok THEN state ELSE disk
  /\ Fault(ok)

\* what becomes of a signed request: the backend acts and answers, it acts and
\* the answer is lost, or it never hears of it
Calls == {"ok", "unanswered", "unheard"}

Delivered(call, t) == call # "unheard" /\ t \notin fenced
Answered(call, t) == call = "ok" /\ t \notin fenced

\* RunOnce returns and migrationLoop calls it again
Return == pc' = "flush" /\ task' = None

Idle(state) == [state EXCEPT !.pending = None, !.active = None, !.seq = 0]

-----------------------------------------------------------------------------
(* flushPending, and the claim *)

\* variant of NothingPending: tasks are claimed while a result is pending
NothingPending_ClaimsFirst ==
  /\ pc = "flush"
  /\ pc' = "claim"
  /\ UNCHANGED <<clock, mem, disk, task, prog, ctl, exec, result, fenced, heard, got, told, runs, faults, crashes>>

NothingPending ==
  /\ pc = "flush" /\ mem.pending = None
  /\ pc' = "claim"
  /\ UNCHANGED <<clock, mem, disk, task, prog, ctl, exec, result, fenced, heard, got, told, runs, faults, crashes>>

\* variant of FlushPending: the result is dropped on any error
FlushPending_DropsOnError(call, ok) ==
  LET t == mem.pending.task IN
  /\ pc = "flush" /\ mem.pending # None
  /\ got' = IF Delivered(call, t) THEN got \cup {mem.pending} ELSE got
  /\ ok /\ Fault(call = "ok") /\ mem' = Idle(mem) /\ disk' = mem'
  /\ UNCHANGED <<clock, pc, task, prog, ctl, exec, result, fenced, heard, told, runs, crashes>>

\* the result is dropped from the outbox once the backend has taken it, or has
\* answered that the attempt is fenced
FlushPending(call, ok) ==
  LET t == mem.pending.task IN
  /\ pc = "flush" /\ mem.pending # None
  /\ got' = IF Delivered(call, t) THEN got \cup {mem.pending} ELSE got
  /\ IF call = "ok"
     THEN Save(IF t \in fenced THEN [Idle(mem) EXCEPT !.seq = mem.seq] ELSE Idle(mem), ok)
     ELSE ok /\ Fault(FALSE) /\ UNCHANGED <<mem, disk>>
  /\ UNCHANGED <<clock, pc, task, prog, ctl, exec, result, fenced, heard, told, runs, crashes>>

\* the backend hands out a task, possibly one whose answer was lost before
Claim(t) ==
  /\ pc = "claim" /\ t \notin fenced
  /\ pc' = "verify" /\ task' = t
  /\ UNCHANGED <<clock, mem, disk, prog, ctl, exec, result, fenced, heard, got, told, runs, faults, crashes>>

\* the backend has no task, or the claim fails
NoTask ==
  /\ pc = "claim" /\ Return
  /\ UNCHANGED <<clock, mem, disk, prog, ctl, exec, result, fenced, heard, got, told, runs, faults, crashes>>

\* verifySignedTaskEnvelope, on its own reading of the clock, and Supports
Verify ==
  /\ pc = "verify"
  /\ \/ Return
     \/ Expiry[task] >= clock /\ pc' = "admit" /\ UNCHANGED task
  /\ UNCHANGED <<clock, mem, disk, prog, ctl, exec, result, fenced, heard, got, told, runs, faults, crashes>>

\* variant of Live: nonces are dropped at their expiry, not after it
Live_AtExpiry(seen) == {t \in seen : Expiry[t] > clock}

\* the nonces verifyEnvelope keeps, on its second reading of the clock
Live(seen) == {t \in seen : Expiry[t] >= clock}

\* the rest of verifyEnvelope
Reject ==
  /\ pc = "admit" /\ task \in Live(mem.seen)
  /\ mem' = [mem EXCEPT !.seen = Live(mem.seen)]
  /\ Return
  /\ UNCHANGED <<clock, disk, prog, ctl, exec, result, fenced, heard, got, told, runs, faults, crashes>>

\* the nonce and the attempt are saved before anything is executed
Admit(ok) ==
  /\ pc = "admit" /\ task \notin Live(mem.seen)
  /\ Save([mem EXCEPT !.seen = Live(mem.seen) \cup {task}, !.active = task, !.seq = 0], ok)
  /\ IF ok
     THEN pc' = "start" /\ task' = task /\ ctl' = "none" /\ runs' = [runs EXCEPT ![task] = @ + 1]
     ELSE Return /\ UNCHANGED <<ctl, runs>>
  /\ told' = [told EXCEPT ![task] = "none"]
  /\ UNCHANGED <<clock, prog, exec, result, fenced, heard, got, crashes>>

-----------------------------------------------------------------------------
(* Progress: reportProgress and the lease heartbeat, under progressMu *)

\* RunOnce waits for its first and its last report, the executor and the
\* heartbeat report while it runs
Reported == IF pc = "start" THEN "started" ELSE IF pc = "final" THEN "finalized" ELSE pc

\* progressCallback up to its request: the number is saved, then sent
Report(ok) ==
  /\ pc \in {"start", "run", "final"} /\ prog = "free" /\ ctl = "none"
  /\ pc = "run" => mem.seq < MaxProgress
  /\ Save([mem EXCEPT !.seq = mem.seq + 1], ok)
  /\ IF ok THEN prog' = "posting" /\ UNCHANGED <<ctl, pc>>
     ELSE prog' = "free" /\ ctl' = "lost" /\ pc' = Reported
  /\ UNCHANGED <<clock, task, exec, result, fenced, heard, got, told, runs, crashes>>

\* progressCallback from its request on: the answer may bring a control, and
\* an unknown control counts as a failure
ReportDone(call, control) ==
  /\ prog = "posting" /\ prog' = "free" /\ pc' = Reported
  /\ heard' = [heard EXCEPT ![task] = IF Delivered(call, task) THEN Append(@, mem.seq) ELSE @]
  /\ IF Answered(call, task)
     THEN ctl' = control /\ told' = [told EXCEPT ![task] = control]
     ELSE ctl' = "lost" /\ control = "lost" /\ UNCHANGED told
  /\ Fault(call = "ok")
  /\ UNCHANGED <<clock, mem, disk, task, exec, result, fenced, got, runs, crashes>>

-----------------------------------------------------------------------------
(* Execution *)

\* controlledResult, and the result for a lost lease
Controlled(c) == IF c = "cancel" THEN "cancelled" ELSE "paused"

\* after the first report: execute, answer a control, or give the task up
Started ==
  /\ pc = "started"
  /\ \/ /\ ctl = "none"
        /\ pc' = "run" /\ exec' = "working" /\ UNCHANGED <<task, result>>
     \/ /\ ctl \in {"pause", "cancel"}
        /\ pc' = "save" /\ result' = Controlled(ctl) /\ UNCHANGED <<task, exec>>
     \/ /\ ctl = "lost"
        /\ Return /\ UNCHANGED <<exec, result>>
  /\ UNCHANGED <<clock, mem, disk, prog, ctl, fenced, heard, got, told, runs, faults, crashes>>

\* the primitive ends; cancelled or not, it may have got to its end
Executed(state) ==
  /\ pc = "run" /\ exec = "working"
  /\ state = "cancelled" => ctl = "cancel"
  /\ exec' = state
  /\ UNCHANGED <<clock, mem, disk, pc, task, prog, ctl, result, fenced, heard, got, told, runs, faults, crashes>>

\* variant of Finished: the control of a heartbeat is only looked at when the
\* primitive was interrupted
Finished_KeepsSuccess ==
  /\ pc = "run" /\ exec \notin {"no", "working"} /\ prog = "free"
  /\ exec' = "no"
  /\ IF ctl = "none" \/ exec = "succeeded"
     THEN result' = exec /\ pc' = (IF ctl = "none" THEN "final" ELSE "save")
     ELSE result' = Controlled(ctl) /\ pc' = "save"
  /\ UNCHANGED <<clock, mem, disk, task, prog, ctl, fenced, heard, got, told, runs, faults, crashes>>

\* the heartbeat has stopped; a control or a lost lease replaces the result
Finished ==
  /\ pc = "run" /\ exec \notin {"no", "working"} /\ prog = "free"
  /\ exec' = "no"
  /\ IF ctl = "none" THEN result' = exec /\ pc' = "final" ELSE result' = Controlled(ctl) /\ pc' = "save"
  /\ UNCHANGED <<clock, mem, disk, task, prog, ctl, fenced, heard, got, told, runs, faults, crashes>>

\* after the last report a control still replaces the result; a lost one does not
Finalized ==
  /\ pc = "finalized"
  /\ pc' = "save"
  /\ result' = IF ctl \in {"pause", "cancel"} THEN Controlled(ctl) ELSE result
  /\ UNCHANGED <<clock, mem, disk, task, prog, ctl, exec, fenced, heard, got, told, runs, faults, crashes>>

-----------------------------------------------------------------------------
(* persistAndPostResult *)

\* the result is saved before it is sent
SaveResult(ok) ==
  /\ pc = "save"
  /\ Save([mem EXCEPT !.pending = [task |-> task, state |-> result]], ok)
  /\ IF ok THEN pc' = "post" /\ UNCHANGED task ELSE Return
  /\ UNCHANGED <<clock, prog, ctl, exec, result, fenced, heard, got, told, runs, crashes>>

\* here a fenced attempt is an error like any other; flushPending sees to it
PostResult(call, ok) ==
  /\ pc = "post"
  /\ got' = IF Delivered(call, task) THEN got \cup {mem.pending} ELSE got
  /\ IF Answered(call, task) THEN Save(Idle(mem), ok) ELSE ok /\ Fault(call = "ok") /\ UNCHANGED <<mem, disk>>
  /\ Return
  /\ UNCHANGED <<clock, prog, ctl, exec, result, fenced, heard, told, runs, crashes>>

-----------------------------------------------------------------------------
(* Environment *)

\* the lease of an attempt ends and the backend gives the step to another one
Fence(t) ==
  /\ t \notin fenced /\ \A r \in got : r.task # t
  /\ fenced' = fenced \cup {t}
  /\ UNCHANGED <<clock, mem, disk, pc, task, prog, ctl, exec, result, heard, got, told, runs, faults, crashes>>

Tick ==
  /\ clock < MaxClock /\ clock' = clock + 1
  /\ UNCHANGED <<mem, disk, pc, task, prog, ctl, exec, result, fenced, heard, got, told, runs, faults, crashes>>

Crash ==
  /\ pc # "down" /\ crashes < MaxCrashes
  /\ crashes' = crashes + 1
  /\ pc' = "down" /\ mem' = Blank /\ task' = None
  /\ prog' = "free" /\ ctl' = "none" /\ exec' = "no" /\ result' = "no"
  /\ UNCHANGED <<clock, disk, fenced, heard, got, told, runs, faults>>

\* NewRunner and loadState
Restart ==
  /\ pc = "down"
  /\ pc' = "flush" /\ mem' = disk
  /\ UNCHANGED <<clock, disk, task, prog, ctl, exec, result, fenced, heard, got, told, runs, faults, crashes>>

Runner ==
  \/ NothingPending \/ NoTask \/ Verify \/ Reject \/ Started \/ Finished \/ Finalized
  \/ \E t \in Tasks : Claim(t)
  \/ \E ok \in BOOLEAN : Admit(ok) \/ Report(ok) \/ SaveResult(ok)
  \/ \E call \in Calls, control \in {"none", "pause", "cancel", "lost"} : ReportDone(call, control)
  \/ \E state \in Ends : Executed(state)
  \/ \E call \in Calls, ok \in BOOLEAN : FlushPending(call, ok) \/ PostResult(call, ok)

Next == Runner \/ Tick \/ Crash \/ Restart \/ \E t \in Tasks : Fence(t)

Spec == Init /\ [][Next]_vars

\* systemd restarts the agent, migrationLoop keeps calling RunOnce, and the
\* primitive, whose requests all have timeouts, comes to an end
Fairness == WF_vars(Runner) /\ WF_vars(Restart) /\ \A state \in Ends : WF_vars(Executed(state))

LiveSpec == Spec /\ Fairness

-----------------------------------------------------------------------------
(* Properties *)

TypeOK ==
  /\ clock \in Nat /\ faults \in Nat /\ crashes \in Nat
  /\ mem \in State /\ disk \in State
  /\ pc \in PCs /\ task \in Tasks \cup {None} /\ prog \in {"free", "posting"}
  /\ ctl \in {"none", "pause", "cancel", "lost"}
  /\ exec \in Ends \cup {"no", "working"} /\ result \in Ends \cup {"no"}
  /\ fenced \in SUBSET Tasks /\ got \in SUBSET Results /\ runs \in [Tasks -> Nat]
  /\ heard \in [Tasks -> Seq(Nat)]
  /\ told \in [Tasks -> {"none", "pause", "cancel", "lost"}]

\* A result in the state file stays there until the backend has taken it or has
\* fenced its attempt: neither a failed save, a lost answer, a crash nor the
\* next claim drops it.
OutboxKept ==
  [][\A r \in Results :
       disk.pending = r /\ disk'.pending # r => r \in got' \/ r.task \in fenced]_vars

Once(t) == runs[t] <= 1

\* A task that has been let through is not let through again while its envelope
\* is valid (verifyEnvelope, RunOnce), whatever is lost in between.
AdmittedOnceWhileValid ==
  [][pc = "admit" /\ pc' = "start" /\ runs[task] > 0 => Expiry[task] < clock]_vars

\* Every pause or cancellation the agent has been told of is what it reports,
\* even when the primitive had succeeded (controlledResult): the result the
\* backend takes agrees with the last answer to its progress reports.
ControlHonoured ==
  \A r \in got : Once(r.task) =>
                 /\ told[r.task] = "pause" => r.state = "paused"
                 /\ told[r.task] = "cancel" => r.state = "cancelled"

\* The backend takes one result of an attempt, however often it is sent.
OneResult ==
  \A r1, r2 \in got : Once(r1.task) /\ r1.task = r2.task => r1 = r2

\* The progress reports of an attempt, by the executor and by the heartbeat,
\* arrive with rising sequence numbers (progressCallback).
ProgressRises ==
  \A t \in Tasks : Once(t) => \A i \in 2..Len(heard[t]) : heard[t][i-1] < heard[t][i]

\* An execution that has begun is answered by a result, or its attempt is fenced,
\* or the agent has crashed; a result that was saved reaches the backend, or its
\* attempt is fenced, even across a crash (flushPending).
ResultDelivered ==
  /\ \A t \in Tasks :
       (pc = "run" /\ task = t) ~> ((\E r \in got : r.task = t) \/ t \in fenced \/ crashes > 0)
  /\ \A r \in Results : (disk.pending = r) ~> (r \in got \/ r.task \in fenced)
=============================================================================
