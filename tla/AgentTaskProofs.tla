-------------------------- MODULE AgentTaskProofs ---------------------------
(***************************************************************************)
(* Proofs about the two parts of the agent that must survive its death in  *)
(* the middle of a task: TaskRunner, for any tasks, expiry times and       *)
(* bounds, and FileSwap, for any migrations, trees and bounds.             *)
(***************************************************************************)
EXTENDS TaskRunner, FileSwap, TLAPS

-----------------------------------------------------------------------------
(* Part 1: the task runner *)

\* from the admission of a task to the saving of its result
Attempting == {"start", "started", "run", "final", "finalized", "save"}

\* the main goroutine has a task, and reports only where the code reports
Shaped ==
  /\ pc \in {"verify", "admit", "post"} \cup Attempting => task \in Tasks
  /\ prog = "posting" => pc \in {"start", "run", "final"} /\ ctl = "none"
  /\ pc \in {"final", "finalized", "save"} => result \in Ends
  /\ pc = "post" => mem.pending \in Results

\* a task that was let through stays known until its envelope has expired
Fenced ==
  \A t \in Tasks : runs[t] > 0 =>
    Expiry[t] < clock \/ (t \in disk.seen /\ (pc # "down" => t \in mem.seen))

\* the result in the state file is the one in memory, or has been dealt with
Outbox ==
  /\ pc # "down" => \/ disk.pending = None \/ disk.pending = mem.pending
                    \/ disk.pending \in got \/ disk.pending.task \in fenced
  /\ pc \notin {"down", "flush", "post"} => mem.pending = None

\* the results of a task, wherever they are
ResultsOf(t) == {r \in Results : r.task = t /\ r \in got \cup {mem.pending, disk.pending}}

\* a task that is attempted for the first time has no result yet, and one that
\* was attempted once has at most one
Single ==
  /\ \A t \in Tasks : runs[t] = 0 => ResultsOf(t) = {}
  /\ \A t \in Tasks : Once(t) => \A r1, r2 \in ResultsOf(t) : r1 = r2
  /\ pc \in Attempting => runs[task] # 0 /\ (Once(task) => ResultsOf(task) = {})

Obeys(control, state) ==
  (control = "pause" => state = "paused") /\ (control = "cancel" => state = "cancelled")

\* the control the agent was told of is on its way into the result
Told ==
  /\ \A t \in Tasks : Once(t) => \A r \in ResultsOf(t) : Obeys(told[t], r.state)
  /\ pc \in Attempting \ {"save"} => \/ ctl # "lost" /\ told[task] = ctl
                                     \/ ctl = "lost" /\ told[task] \in {"none", "lost"}
  /\ pc = "save" => Obeys(told[task], result)

\* the number about to be sent is above those the backend has heard
Numbered ==
  /\ \A t \in Tasks : runs[t] = 0 => heard[t] = <<>>
  /\ pc \in Attempting /\ Once(task) =>
       \A i \in 1..Len(heard[task]) :
          heard[task][i] <= mem.seq /\ (prog = "posting" => heard[task][i] < mem.seq)
  /\ ProgressRises

RunnerInv == Shaped /\ Fenced /\ Outbox /\ Single /\ Told /\ Numbered

-----------------------------------------------------------------------------
(* What the steps that touch the state write *)

LEMMA StateFields ==
  ASSUME mem \in State
  PROVE  /\ mem.pending \in Results \cup {None} /\ mem.seen \subseteq Tasks /\ mem.seq \in Nat
         /\ Idle(mem) \in State /\ Idle(mem).pending = None /\ Idle(mem).seen = mem.seen
         /\ \A n \in Nat : /\ [mem EXCEPT !.seq = n] \in State
                           /\ [mem EXCEPT !.seq = n].pending = mem.pending
                           /\ [mem EXCEPT !.seq = n].seen = mem.seen
                           /\ [mem EXCEPT !.seq = n].seq = n
                           /\ [Idle(mem) EXCEPT !.seq = n] \in State
                           /\ [Idle(mem) EXCEPT !.seq = n].pending = None
                           /\ [Idle(mem) EXCEPT !.seq = n].seen = mem.seen
         /\ \A r \in Results : /\ [mem EXCEPT !.pending = r] \in State
                               /\ [mem EXCEPT !.pending = r].pending = r
                               /\ [mem EXCEPT !.pending = r].seen = mem.seen
         /\ \A S \in SUBSET Tasks : /\ [mem EXCEPT !.seen = S] \in State
                                    /\ [mem EXCEPT !.seen = S].pending = mem.pending
                                    /\ [mem EXCEPT !.seen = S].seen = S
         /\ \A S \in SUBSET Tasks, t \in Tasks :
              /\ [mem EXCEPT !.seen = S, !.active = t, !.seq = 0] \in State
              /\ [mem EXCEPT !.seen = S, !.active = t, !.seq = 0].pending = mem.pending
              /\ [mem EXCEPT !.seen = S, !.active = t, !.seq = 0].seen = S
              /\ [mem EXCEPT !.seen = S, !.active = t, !.seq = 0].seq = 0
  BY ZenonT(40) DEF State, Idle

LEMMA BlankFields == Blank \in State /\ Blank.pending = None
  BY Zenon DEF Blank, State

LEMMA SaveEffect ==
  ASSUME disk \in State, faults \in Nat, NEW s \in State, NEW ok \in BOOLEAN, Save(s, ok)
  PROVE  /\ mem' = s /\ mem' \in State /\ disk' \in State /\ faults' \in Nat
         /\ disk' = IF ok THEN mem' ELSE disk
  BY DEF Save, Fault

Held == <<clock, pc, task, prog, ctl, exec, result, fenced, heard, told, runs, crashes>>

\* flushPending: the outbox stays, or is emptied once the result is dealt with
LEMMA FlushEffect ==
  ASSUME TypeOK, NEW call \in Calls, NEW ok \in BOOLEAN, FlushPending(call, ok)
  PROVE  /\ pc = "flush" /\ mem.pending \in Results /\ UNCHANGED Held
         /\ mem' \in State /\ disk' \in State /\ faults' \in Nat /\ mem'.seen = mem.seen
         /\ got \subseteq got' /\ got' \subseteq got \cup {mem.pending}
         /\ \/ UNCHANGED <<mem, disk>>
            \/ /\ mem'.pending = None /\ disk' \in {disk, mem'}
               /\ mem.pending \in got' \/ mem.pending.task \in fenced
<1> DEFINE t == mem.pending.task
           s == IF t \in fenced THEN [Idle(mem) EXCEPT !.seq = mem.seq] ELSE Idle(mem)
<1>1. mem \in State /\ disk \in State /\ faults \in Nat
  BY Zenon DEF TypeOK
<1>2. s \in State /\ s.pending = None /\ s.seen = mem.seen /\ mem.pending \in Results \cup {None}
  BY Zenon, <1>1, StateFields
<1> HIDE DEF s
<1>3. /\ pc = "flush" /\ mem.pending # None /\ UNCHANGED Held
      /\ got' = IF Delivered(call, t) THEN got \cup {mem.pending} ELSE got
      /\ \/ call = "ok" /\ Save(s, ok)
         \/ call # "ok" /\ Fault(FALSE) /\ UNCHANGED <<mem, disk>>
  BY Zenon DEF FlushPending, Held, s
<1>4. CASE call = "ok"
  <2>1. mem' = s /\ disk' \in State /\ disk' \in {disk, mem'} /\ faults' \in Nat
    BY Zenon, <1>1, <1>2, <1>3, <1>4, SaveEffect
  <2>2. t \in fenced \/ mem.pending \in got'
    BY Zenon, <1>3, <1>4 DEF Delivered
  <2> QED
    BY Zenon, <1>2, <1>3, <2>1, <2>2
<1>5. CASE call # "ok"
  BY <1>1, <1>2, <1>3, <1>5 DEF Fault
<1> QED
  BY Zenon, <1>4, <1>5

\* persistAndPostResult, the request
LEMMA PostEffect ==
  ASSUME TypeOK, Shaped, NEW call \in Calls, NEW ok \in BOOLEAN, PostResult(call, ok)
  PROVE  /\ pc = "post" /\ pc' = "flush" /\ task' = None
         /\ UNCHANGED <<clock, prog, ctl, exec, result, fenced, heard, told, runs, crashes>>
         /\ mem' \in State /\ disk' \in State /\ faults' \in Nat /\ mem'.seen = mem.seen
         /\ got \subseteq got' /\ got' \subseteq got \cup {mem.pending}
         /\ \/ UNCHANGED <<mem, disk>>
            \/ mem'.pending = None /\ disk' \in {disk, mem'} /\ mem.pending \in got'
<1>1. mem \in State /\ disk \in State /\ faults \in Nat
  BY Zenon DEF TypeOK
<1>2. Idle(mem) \in State /\ Idle(mem).pending = None /\ Idle(mem).seen = mem.seen
  BY Zenon, <1>1, StateFields
<1>3. /\ pc = "post" /\ pc' = "flush" /\ task' = None
      /\ UNCHANGED <<clock, prog, ctl, exec, result, fenced, heard, told, runs, crashes>>
      /\ got' = IF Delivered(call, task) THEN got \cup {mem.pending} ELSE got
      /\ \/ Answered(call, task) /\ Save(Idle(mem), ok)
         \/ ~Answered(call, task) /\ Fault(call = "ok") /\ UNCHANGED <<mem, disk>>
  BY Zenon DEF PostResult, Return
<1>4. CASE Answered(call, task)
  <2>1. mem' = Idle(mem) /\ disk' \in State /\ disk' \in {disk, mem'} /\ faults' \in Nat
    BY Zenon, <1>1, <1>2, <1>3, <1>4, SaveEffect
  <2>2. mem.pending \in got'
    BY Zenon, <1>3, <1>4 DEF Answered, Delivered
  <2> QED
    BY Zenon, <1>2, <1>3, <2>1, <2>2
<1>5. CASE ~Answered(call, task)
  BY SMTT(30), <1>1, <1>3, <1>5 DEF Fault
<1> QED
  BY Zenon, <1>4, <1>5

\* verifyEnvelope on a nonce that is known, and on one that is not
LEMMA RejectEffect ==
  ASSUME TypeOK, Reject
  PROVE  /\ pc = "admit" /\ pc' = "flush" /\ task' = None
         /\ mem' \in State /\ mem'.seen = Live(mem.seen) /\ mem'.pending = mem.pending
         /\ UNCHANGED <<clock, disk, prog, ctl, exec, result, fenced, heard, got, told, runs, faults, crashes>>
<1>1. mem \in State /\ Live(mem.seen) \in SUBSET Tasks
  BY Zenon DEF TypeOK, State, Live
<1> QED
  BY Zenon, <1>1, StateFields DEF Reject, Return

LEMMA AdmitEffect ==
  ASSUME TypeOK, Shaped, NEW ok \in BOOLEAN, Admit(ok)
  PROVE  /\ pc = "admit" /\ task \in Tasks /\ task \notin Live(mem.seen)
         /\ mem' \in State /\ disk' \in State /\ faults' \in Nat
         /\ mem'.seen = Live(mem.seen) \cup {task} /\ mem'.pending = mem.pending /\ mem'.seq = 0
         /\ disk' = (IF ok THEN mem' ELSE disk)
         /\ pc' = (IF ok THEN "start" ELSE "flush") /\ task' = (IF ok THEN task ELSE None)
         /\ ok => ctl' = "none" /\ runs' = [runs EXCEPT ![task] = runs[task] + 1]
         /\ ~ok => UNCHANGED <<ctl, runs>>
         /\ told' = [told EXCEPT ![task] = "none"]
         /\ UNCHANGED <<clock, prog, exec, result, fenced, heard, got, crashes>>
<1> DEFINE S == Live(mem.seen) \cup {task}
           s == [mem EXCEPT !.seen = S, !.active = task, !.seq = 0]
<1>1. mem \in State /\ disk \in State /\ faults \in Nat
  BY Zenon DEF TypeOK
<1>2. pc = "admit" /\ task \in Tasks
  BY Zenon DEF Admit, Shaped
<1>3. S \in SUBSET Tasks
  BY Zenon, <1>1, <1>2 DEF State, Live
<1>4. /\ task \notin Live(mem.seen) /\ Save(s, ok)
      /\ pc' = (IF ok THEN "start" ELSE "flush") /\ task' = (IF ok THEN task ELSE None)
      /\ ok => ctl' = "none" /\ runs' = [runs EXCEPT ![task] = runs[task] + 1]
      /\ ~ok => UNCHANGED <<ctl, runs>>
      /\ told' = [told EXCEPT ![task] = "none"]
      /\ UNCHANGED <<clock, prog, exec, result, fenced, heard, got, crashes>>
  BY Zenon DEF Admit, Return
<1> HIDE DEF S
<1>5. s \in State /\ s.pending = mem.pending /\ s.seen = S /\ s.seq = 0
  BY ZenonT(40), <1>1, <1>2, <1>3, StateFields
<1> HIDE DEF s
<1>6. mem' = s /\ mem' \in State /\ disk' \in State /\ faults' \in Nat /\ disk' = IF ok THEN mem' ELSE disk
  BY Zenon, <1>1, <1>4, <1>5, SaveEffect
<1> QED
  BY Zenon, <1>2, <1>4, <1>5, <1>6 DEF S

\* progressCallback, the number
LEMMA ReportEffect ==
  ASSUME TypeOK, NEW ok \in BOOLEAN, Report(ok)
  PROVE  /\ pc \in {"start", "run", "final"} /\ prog = "free" /\ ctl = "none"
         /\ mem' \in State /\ disk' \in State /\ faults' \in Nat
         /\ mem'.seen = mem.seen /\ mem'.pending = mem.pending /\ mem'.seq = mem.seq + 1
         /\ disk' \in {disk, mem'}
         /\ \/ prog' = "posting" /\ UNCHANGED <<ctl, pc>>
            \/ prog' = "free" /\ ctl' = "lost" /\ pc' = Reported
         /\ UNCHANGED <<clock, task, exec, result, fenced, heard, got, told, runs, crashes>>
<1> DEFINE n == mem.seq + 1
           s == [mem EXCEPT !.seq = n]
<1>1. mem \in State /\ disk \in State /\ faults \in Nat
  BY Zenon DEF TypeOK
<1>2. n \in Nat
  BY <1>1 DEF State
<1>3. /\ pc \in {"start", "run", "final"} /\ prog = "free" /\ ctl = "none" /\ Save(s, ok)
      /\ \/ prog' = "posting" /\ UNCHANGED <<ctl, pc>>
         \/ prog' = "free" /\ ctl' = "lost" /\ pc' = Reported
      /\ UNCHANGED <<clock, task, exec, result, fenced, heard, got, told, runs, crashes>>
  BY Zenon DEF Report
<1> HIDE DEF n
<1>4. s \in State /\ s.seen = mem.seen /\ s.pending = mem.pending /\ s.seq = n
  BY Zenon, <1>1, <1>2, StateFields
<1> HIDE DEF s
<1>5. mem' = s /\ mem' \in State /\ disk' \in State /\ faults' \in Nat /\ disk' \in {disk, mem'}
  BY Zenon, <1>1, <1>3, <1>4, SaveEffect
<1> QED
  BY Zenon, <1>3, <1>4, <1>5 DEF n

\* persistAndPostResult, the save
LEMMA SaveResultEffect ==
  ASSUME TypeOK, Shaped, NEW ok \in BOOLEAN, SaveResult(ok)
  PROVE  /\ pc = "save" /\ task \in Tasks /\ result \in Ends
         /\ mem' \in State /\ disk' \in State /\ faults' \in Nat
         /\ mem'.seen = mem.seen /\ mem'.pending = [task |-> task, state |-> result]
         /\ disk' = (IF ok THEN mem' ELSE disk)
         /\ pc' = (IF ok THEN "post" ELSE "flush") /\ task' = (IF ok THEN task ELSE None)
         /\ UNCHANGED <<clock, prog, ctl, exec, result, fenced, heard, got, told, runs, crashes>>
<1> DEFINE r == [task |-> task, state |-> result]
           s == [mem EXCEPT !.pending = r]
<1>1. mem \in State /\ disk \in State /\ faults \in Nat
  BY Zenon DEF TypeOK
<1>2. pc = "save" /\ task \in Tasks /\ result \in Ends
  BY Zenon DEF SaveResult, Shaped, Attempting
<1>3. r \in Results
  BY Zenon, <1>2 DEF Results
<1>4. /\ Save(s, ok) /\ pc' = (IF ok THEN "post" ELSE "flush") /\ task' = (IF ok THEN task ELSE None)
      /\ UNCHANGED <<clock, prog, ctl, exec, result, fenced, heard, got, told, runs, crashes>>
  BY Zenon DEF SaveResult, Return
<1> HIDE DEF r
<1>5. s \in State /\ s.seen = mem.seen /\ s.pending = r
  BY Zenon, <1>1, <1>3, StateFields
<1> HIDE DEF s
<1>6. mem' = s /\ mem' \in State /\ disk' \in State /\ faults' \in Nat /\ disk' = IF ok THEN mem' ELSE disk
  BY Zenon, <1>1, <1>4, <1>5, SaveEffect
<1> QED
  BY Zenon, <1>2, <1>4, <1>5, <1>6 DEF r

-----------------------------------------------------------------------------
(* Types and shape *)

LEMMA InitType == Init => TypeOK
<1> SUFFICES ASSUME Init PROVE TypeOK
  BY Zenon
<1>1. mem \in State /\ disk \in State
  BY Zenon, BlankFields DEF Init
<1>2. /\ heard \in [Tasks -> Seq(Nat)] /\ runs \in [Tasks -> Nat]
      /\ told \in [Tasks -> {"none", "pause", "cancel", "lost"}]
  BY DEF Init
<1> QED
  BY Zenon, <1>1, <1>2 DEF Init, TypeOK, PCs

LEMMA TypeNext == TypeOK /\ Shaped /\ [Next]_vars => TypeOK'
<1> SUFFICES ASSUME TypeOK, Shaped, [Next]_vars PROVE TypeOK'
  BY Zenon
<1>1. ASSUME NEW call \in Calls, NEW ok \in BOOLEAN, FlushPending(call, ok) PROVE TypeOK'
  BY Zenon, <1>1, FlushEffect DEF TypeOK, Held
<1>2. ASSUME NEW call \in Calls, NEW ok \in BOOLEAN, PostResult(call, ok) PROVE TypeOK'
  <2>1. got' \subseteq Results
    BY Zenon, <1>2, PostEffect DEF TypeOK, Shaped
  <2> QED
    BY Zenon, <1>2, <2>1, PostEffect DEF TypeOK, PCs
<1>3. ASSUME Reject PROVE TypeOK'
  BY Zenon, <1>3, RejectEffect DEF TypeOK, PCs
<1>4. ASSUME NEW ok \in BOOLEAN, Admit(ok) PROVE TypeOK'
  <2>1. task \in Tasks /\ runs \in [Tasks -> Nat] /\ told \in [Tasks -> {"none", "pause", "cancel", "lost"}]
    BY Zenon, <1>4, AdmitEffect DEF TypeOK
  <2>2. runs[task] + 1 \in Nat
    BY SMTT(30), <2>1
  <2>3. runs' \in [Tasks -> Nat]
    BY Zenon, <1>4, <2>1, <2>2, AdmitEffect
  <2>4. told' \in [Tasks -> {"none", "pause", "cancel", "lost"}]
    BY Zenon, <1>4, <2>1, AdmitEffect
  <2> QED
    BY Zenon, <1>4, <2>3, <2>4, AdmitEffect DEF TypeOK, PCs
<1>5. ASSUME NEW ok \in BOOLEAN, Report(ok) PROVE TypeOK'
  BY Zenon, <1>5, ReportEffect DEF TypeOK, PCs, Reported
<1>6. ASSUME NEW call \in Calls, NEW control \in {"none", "pause", "cancel", "lost"}, ReportDone(call, control)
      PROVE TypeOK'
  <2> DEFINE h == IF Delivered(call, task) THEN Append(heard[task], mem.seq) ELSE heard[task]
  <2>1. task \in Tasks /\ mem.seq \in Nat /\ heard \in [Tasks -> Seq(Nat)]
    BY Zenon, <1>6 DEF ReportDone, Shaped, TypeOK, State, Attempting
  <2>2. h \in Seq(Nat)
    BY <2>1
  <2>3. heard' = [heard EXCEPT ![task] = h]
    BY Zenon, <1>6 DEF ReportDone
  <2> HIDE DEF h
  <2>4. heard' \in [Tasks -> Seq(Nat)]
    BY Zenon, <2>1, <2>2, <2>3
  <2>5. told' \in [Tasks -> {"none", "pause", "cancel", "lost"}]
    BY Zenon, <1>6, <2>1 DEF ReportDone, TypeOK
  <2>6. faults' \in Nat
    BY <1>6 DEF ReportDone, Fault, TypeOK
  <2> QED
    BY SMTT(30), <1>6, <2>4, <2>5, <2>6 DEF ReportDone, TypeOK, PCs, Reported
<1>7. ASSUME NEW ok \in BOOLEAN, SaveResult(ok) PROVE TypeOK'
  BY ZenonT(40), <1>7, SaveResultEffect DEF TypeOK, PCs
<1>8. ASSUME Crash PROVE TypeOK'
  BY <1>8, BlankFields DEF Crash, TypeOK, PCs
<1>9. ASSUME Restart PROVE TypeOK'
  BY Zenon, <1>9 DEF Restart, TypeOK, PCs
<1>10. ASSUME NEW t \in Tasks, Claim(t) PROVE TypeOK'
  BY Zenon, <1>10 DEF Claim, TypeOK, PCs
<1>11. CASE NothingPending \/ NoTask \/ Verify
  BY Zenon, <1>11 DEF NothingPending, NoTask, Verify, Return, TypeOK, PCs
<1>12. CASE Started \/ Finished \/ Finalized
  BY SMTT(30), <1>12 DEF Started, Finished, Finalized, Controlled, Return, TypeOK, PCs, Ends
<1>13. ASSUME NEW state \in Ends, Executed(state) PROVE TypeOK'
  BY Zenon, <1>13 DEF Executed, TypeOK
<1>14. ASSUME NEW t \in Tasks, Fence(t) PROVE TypeOK'
  BY Zenon, <1>14 DEF Fence, TypeOK
<1>15. CASE Tick
  BY SMTT(30), <1>15 DEF Tick, TypeOK
<1>16. CASE UNCHANGED vars
  BY Zenon, <1>16 DEF vars, TypeOK
<1> QED
  BY Zenon, <1>1, <1>2, <1>3, <1>4, <1>5, <1>6, <1>7, <1>8, <1>9, <1>10, <1>11, <1>12, <1>13, <1>14, <1>15, <1>16
     DEF Next, Runner

LEMMA ShapedNext == TypeOK /\ Shaped /\ [Next]_vars => Shaped'
<1> SUFFICES ASSUME TypeOK, Shaped, [Next]_vars PROVE Shaped'
  BY Zenon
<1> USE DEF Shaped, Attempting
<1>1. ASSUME NEW call \in Calls, NEW ok \in BOOLEAN, FlushPending(call, ok) PROVE Shaped'
  BY Zenon, <1>1 DEF FlushPending
<1>2. ASSUME NEW call \in Calls, NEW ok \in BOOLEAN, PostResult(call, ok) PROVE Shaped'
  BY Zenon, <1>2 DEF PostResult, Return
<1>3. CASE Reject
  BY Zenon, <1>3 DEF Reject, Return
<1>4. ASSUME NEW ok \in BOOLEAN, Admit(ok) PROVE Shaped'
  BY Zenon, <1>4 DEF Admit, Return
<1>5. ASSUME NEW ok \in BOOLEAN, Report(ok) PROVE Shaped'
  BY Zenon, <1>5 DEF Report, Reported
<1>6. ASSUME NEW call \in Calls, NEW control \in {"none", "pause", "cancel", "lost"}, ReportDone(call, control)
      PROVE Shaped'
  BY Zenon, <1>6 DEF ReportDone, Reported
<1>7. ASSUME NEW ok \in BOOLEAN, SaveResult(ok) PROVE Shaped'
  <2>1. mem'.pending \in Results
    BY SMTT(30), <1>7, SaveResultEffect DEF Results
  <2> QED
    BY Zenon, <1>7, <2>1 DEF SaveResult, Return
<1>8. CASE Crash \/ Restart
  BY Zenon, <1>8 DEF Crash, Restart
<1>10. ASSUME NEW t \in Tasks, Claim(t) PROVE Shaped'
  BY Zenon, <1>10 DEF Claim
<1>11. CASE NothingPending \/ NoTask \/ Verify
  BY Zenon, <1>11 DEF NothingPending, NoTask, Verify, Return
<1>12. CASE Started \/ Finished \/ Finalized
  BY Zenon, <1>12 DEF Started, Finished, Finalized, Controlled, Return, Ends, TypeOK
<1>13. ASSUME NEW state \in Ends, Executed(state) PROVE Shaped'
  BY Zenon, <1>13 DEF Executed
<1>14. ASSUME NEW t \in Tasks, Fence(t) PROVE Shaped'
  BY Zenon, <1>14 DEF Fence
<1>15. CASE Tick
  BY Zenon, <1>15 DEF Tick
<1>16. CASE UNCHANGED vars
  BY Zenon, <1>16 DEF vars
<1> QED
  BY Zenon, <1>1, <1>2, <1>3, <1>4, <1>5, <1>6, <1>7, <1>8, <1>10, <1>11, <1>12, <1>13, <1>14, <1>15, <1>16
     DEF Next, Runner

-----------------------------------------------------------------------------
(* Nonces and the outbox *)

LEMMA FencedNext == TypeOK /\ Shaped /\ Fenced /\ [Next]_vars => Fenced'
<1> SUFFICES ASSUME TypeOK, Shaped, Fenced, [Next]_vars PROVE Fenced'
  BY Zenon
<1>a. \A t \in Tasks : Expiry[t] \in Nat /\ runs[t] \in Nat
  BY Zenon, TaskRunnerAssumption DEF TypeOK
<1>b. clock \in Nat
  BY Zenon DEF TypeOK
<1>1. ASSUME NEW call \in Calls, NEW ok \in BOOLEAN, FlushPending(call, ok) PROVE Fenced'
  <2>1. pc = "flush" /\ UNCHANGED <<pc, runs, clock>> /\ mem'.seen = mem.seen /\ disk'.seen \in {disk.seen, mem.seen}
    BY Zenon, <1>1, FlushEffect DEF Held
  <2> QED
    BY Zenon, <2>1 DEF Fenced
<1>2. ASSUME NEW call \in Calls, NEW ok \in BOOLEAN, PostResult(call, ok) PROVE Fenced'
  <2>1. pc = "post" /\ UNCHANGED <<runs, clock>> /\ mem'.seen = mem.seen /\ disk'.seen \in {disk.seen, mem.seen}
    BY Zenon, <1>2, PostEffect
  <2> QED
    BY Zenon, <2>1 DEF Fenced
<1>3. CASE Reject
  <2>1. pc = "admit" /\ UNCHANGED <<runs, clock, disk>> /\ mem'.seen = Live(mem.seen)
    BY Zenon, <1>3, RejectEffect
  <2> QED
    BY SMTT(30), <1>a, <1>b, <2>1 DEF Fenced, Live
<1>4. ASSUME NEW ok \in BOOLEAN, Admit(ok) PROVE Fenced'
  <2>1. /\ pc = "admit" /\ task \in Tasks /\ clock' = clock /\ mem'.seen = Live(mem.seen) \cup {task}
        /\ disk' = IF ok THEN mem' ELSE disk
        /\ runs' = IF ok THEN [runs EXCEPT ![task] = runs[task] + 1] ELSE runs
    BY Zenon, <1>4, AdmitEffect
  <2>2. \A t \in Tasks : t # task => runs'[t] = runs[t]
    BY Zenon, <2>1 DEF TypeOK
  <2>3. ASSUME NEW t \in Tasks, runs'[t] > 0, ~(Expiry[t] < clock) PROVE t \in disk'.seen /\ t \in mem'.seen
    <3>1. t \in mem'.seen
      BY SMTT(30), <1>a, <1>b, <2>1, <2>2, <2>3 DEF Fenced, Live
    <3>2. CASE ok
      BY Zenon, <2>1, <3>1, <3>2
    <3>3. CASE ~ok
      BY Zenon, <2>1, <2>3, <3>1, <3>3 DEF Fenced
    <3> QED
      BY Zenon, <3>1, <3>2, <3>3
  <2> QED
    BY Zenon, <2>1, <2>3 DEF Fenced
<1>5. ASSUME NEW ok \in BOOLEAN, Report(ok) PROVE Fenced'
  <2>1. pc # "down" /\ UNCHANGED <<runs, clock>> /\ mem'.seen = mem.seen /\ disk'.seen \in {disk.seen, mem.seen}
    BY Zenon, <1>5, ReportEffect
  <2> QED
    BY Zenon, <2>1 DEF Fenced
<1>6. ASSUME NEW ok \in BOOLEAN, SaveResult(ok) PROVE Fenced'
  <2>1. pc # "down" /\ UNCHANGED <<runs, clock>> /\ mem'.seen = mem.seen /\ disk'.seen \in {disk.seen, mem.seen}
    BY Zenon, <1>6, SaveResultEffect
  <2> QED
    BY Zenon, <2>1 DEF Fenced
<1>7. CASE Crash \/ Restart
  BY Zenon, <1>7 DEF Crash, Restart, Fenced
<1>8. CASE Tick
  <2>1. clock' = clock + 1 /\ UNCHANGED <<mem, disk, pc, runs>>
    BY Zenon, <1>8 DEF Tick
  <2> QED
    BY <1>a, <1>b, <2>1 DEF Fenced
<1>9. ASSUME UNCHANGED <<clock, mem, disk, runs>>, pc # "down" PROVE Fenced'
  BY Zenon, <1>9 DEF Fenced
<1>10. ASSUME NEW call \in Calls, NEW control \in {"none", "pause", "cancel", "lost"}, ReportDone(call, control)
       PROVE Fenced'
  BY Zenon, <1>9, <1>10 DEF ReportDone, Shaped
<1>11. CASE NothingPending \/ NoTask \/ Verify \/ Started \/ Finished \/ Finalized
  BY Zenon, <1>9, <1>11 DEF NothingPending, NoTask, Verify, Started, Finished, Finalized
<1>12. ASSUME NEW t \in Tasks, Claim(t) PROVE Fenced'
  BY Zenon, <1>9, <1>12 DEF Claim
<1>13. ASSUME NEW state \in Ends, Executed(state) PROVE Fenced'
  BY Zenon, <1>9, <1>13 DEF Executed
<1>14. ASSUME NEW t \in Tasks, Fence(t) PROVE Fenced'
  BY Zenon, <1>14 DEF Fence, Fenced
<1>15. CASE UNCHANGED vars
  BY Zenon, <1>15 DEF vars, Fenced
<1> QED
  BY Zenon, <1>1, <1>2, <1>3, <1>4, <1>5, <1>6, <1>7, <1>8, <1>10, <1>11, <1>12, <1>13, <1>14, <1>15 DEF Next, Runner

\* what a step does to the result in the state file
OutboxStep == disk'.pending = disk.pending \/ disk.pending \in got' \cup {None} \/ disk.pending.task \in fenced

LEMMA OutboxNext == TypeOK /\ Shaped /\ Outbox /\ [Next]_vars => Outbox' /\ OutboxStep
<1> SUFFICES ASSUME TypeOK, Shaped, Outbox, [Next]_vars PROVE Outbox' /\ OutboxStep
  BY Zenon
<1>1. ASSUME NEW call \in Calls, NEW ok \in BOOLEAN, FlushPending(call, ok) PROVE Outbox' /\ OutboxStep
  <2>1. /\ pc = "flush" /\ UNCHANGED <<pc, fenced>> /\ got \subseteq got'
        /\ \/ UNCHANGED <<mem, disk>>
           \/ /\ mem'.pending = None /\ disk' \in {disk, mem'}
              /\ mem.pending \in got' \/ mem.pending.task \in fenced
    BY Zenon, <1>1, FlushEffect DEF Held
  <2> QED
    BY Zenon, <2>1 DEF Outbox, OutboxStep
<1>2. ASSUME NEW call \in Calls, NEW ok \in BOOLEAN, PostResult(call, ok) PROVE Outbox' /\ OutboxStep
  <2>1. /\ pc = "post" /\ pc' = "flush" /\ UNCHANGED fenced /\ got \subseteq got'
        /\ \/ UNCHANGED <<mem, disk>>
           \/ mem'.pending = None /\ disk' \in {disk, mem'} /\ mem.pending \in got'
    BY Zenon, <1>2, PostEffect
  <2> QED
    BY Zenon, <2>1 DEF Outbox, OutboxStep
<1>3. CASE Reject
  <2>1. pc = "admit" /\ pc' = "flush" /\ UNCHANGED <<fenced, got, disk>> /\ mem'.pending = mem.pending
    BY Zenon, <1>3, RejectEffect
  <2> QED
    BY Zenon, <2>1 DEF Outbox, OutboxStep
<1>4. ASSUME NEW ok \in BOOLEAN, Admit(ok) PROVE Outbox' /\ OutboxStep
  <2>1. /\ pc = "admit" /\ pc' # "down" /\ UNCHANGED <<fenced, got>> /\ mem'.pending = mem.pending
        /\ disk' \in {disk, mem'}
    BY Zenon, <1>4, AdmitEffect
  <2> QED
    BY Zenon, <2>1 DEF Outbox, OutboxStep
<1>5. ASSUME NEW ok \in BOOLEAN, Report(ok) PROVE Outbox' /\ OutboxStep
  <2>1. /\ pc \in {"start", "run", "final"} /\ UNCHANGED <<fenced, got>>
        /\ mem'.pending = mem.pending /\ disk' \in {disk, mem'}
    BY Zenon, <1>5, ReportEffect
  <2> QED
    BY Zenon, <2>1 DEF Outbox, OutboxStep
<1>6. ASSUME NEW ok \in BOOLEAN, SaveResult(ok) PROVE Outbox' /\ OutboxStep
  <2>1. pc = "save" /\ pc' \in {"post", "flush"} /\ UNCHANGED <<fenced, got>> /\ disk' \in {disk, mem'}
    BY Zenon, <1>6, SaveResultEffect
  <2> QED
    BY Zenon, <2>1 DEF Outbox, OutboxStep
<1>7. CASE Crash \/ Restart
  BY Zenon, <1>7 DEF Crash, Restart, Outbox, OutboxStep
<1>8. ASSUME NEW call \in Calls, NEW control \in {"none", "pause", "cancel", "lost"}, ReportDone(call, control)
       PROVE Outbox' /\ OutboxStep
  <2>1. pc \in {"start", "run", "final"} /\ UNCHANGED <<mem, disk, got, fenced>>
    BY Zenon, <1>8 DEF ReportDone, Shaped
  <2> QED
    BY Zenon, <2>1 DEF Outbox, OutboxStep
<1>9. CASE NothingPending \/ NoTask \/ Verify \/ Started \/ Finished \/ Finalized
  BY Zenon, <1>9 DEF NothingPending, NoTask, Verify, Started, Finished, Finalized, Return, Outbox, OutboxStep
<1>10. ASSUME NEW t \in Tasks, Claim(t) PROVE Outbox' /\ OutboxStep
  BY Zenon, <1>10 DEF Claim, Outbox, OutboxStep
<1>11. ASSUME NEW state \in Ends, Executed(state) PROVE Outbox' /\ OutboxStep
  BY Zenon, <1>11 DEF Executed, Outbox, OutboxStep
<1>12. ASSUME NEW t \in Tasks, Fence(t) PROVE Outbox' /\ OutboxStep
  BY Zenon, <1>12 DEF Fence, Outbox, OutboxStep
<1>13. CASE Tick
  BY Zenon, <1>13 DEF Tick, Outbox, OutboxStep
<1>14. CASE UNCHANGED vars
  BY Zenon, <1>14 DEF vars, Outbox, OutboxStep
<1> QED
  BY Zenon, <1>1, <1>2, <1>3, <1>4, <1>5, <1>6, <1>7, <1>8, <1>9, <1>10, <1>11, <1>12, <1>13, <1>14 DEF Next, Runner

-----------------------------------------------------------------------------
(* Results and controls *)

Saves == \E ok \in BOOLEAN : SaveResult(ok)

\* only SaveResult makes a result, the other steps move or drop results
LEMMA ResultsStep ==
  ASSUME TypeOK, Shaped, [Next]_vars, ~Saves
  PROVE  \A t \in Tasks : ResultsOf(t)' \subseteq ResultsOf(t)
<1> DEFINE Moves == /\ got' \subseteq got \cup {mem.pending}
                    /\ mem'.pending \in {mem.pending, disk.pending, None}
                    /\ disk'.pending \in {mem.pending, disk.pending, None}
<1> SUFFICES Moves
  BY Zenon, TaskRunnerAssumption DEF ResultsOf
<1>1. ASSUME NEW call \in Calls, NEW ok \in BOOLEAN, FlushPending(call, ok) PROVE Moves
  BY Zenon, <1>1, FlushEffect
<1>2. ASSUME NEW call \in Calls, NEW ok \in BOOLEAN, PostResult(call, ok) PROVE Moves
  BY Zenon, <1>2, PostEffect
<1>3. CASE Reject
  BY Zenon, <1>3, RejectEffect
<1>4. ASSUME NEW ok \in BOOLEAN, Admit(ok) PROVE Moves
  BY Zenon, <1>4, AdmitEffect
<1>5. ASSUME NEW ok \in BOOLEAN, Report(ok) PROVE Moves
  BY Zenon, <1>5, ReportEffect
<1>6. CASE Crash \/ Restart
  BY Zenon, <1>6, BlankFields DEF Crash, Restart
<1>7. ASSUME UNCHANGED <<mem, disk, got>> PROVE Moves
  BY Zenon, <1>7
<1> HIDE DEF Moves
<1>8. ASSUME NEW call \in Calls, NEW control \in {"none", "pause", "cancel", "lost"}, ReportDone(call, control)
      PROVE Moves
  BY Zenon, <1>7, <1>8 DEF ReportDone
<1>9. CASE NothingPending \/ NoTask \/ Verify \/ Started \/ Finished \/ Finalized \/ Tick \/ UNCHANGED vars
  BY Zenon, <1>7, <1>9 DEF NothingPending, NoTask, Verify, Started, Finished, Finalized, Tick, vars
<1>10. ASSUME NEW t \in Tasks, Claim(t) \/ Fence(t) PROVE Moves
  BY Zenon, <1>7, <1>10 DEF Claim, Fence
<1>11. ASSUME NEW state \in Ends, Executed(state) PROVE Moves
  BY Zenon, <1>7, <1>11 DEF Executed
<1> QED
  BY Zenon, <1>1, <1>2, <1>3, <1>4, <1>5, <1>6, <1>8, <1>9, <1>10, <1>11 DEF Next, Runner, Saves

Admits == \E ok \in BOOLEAN : Admit(ok)

\* an attempt begins with Admit and stays with its task
LEMMA AttemptStep ==
  ASSUME TypeOK, Shaped, [Next]_vars, ~Admits
  PROVE  runs' = runs /\ (pc' \in Attempting => pc \in Attempting /\ task' = task)
<1> DEFINE Goal == runs' = runs /\ (pc' \in Attempting => pc \in Attempting /\ task' = task)
<1> SUFFICES Goal
  BY Zenon
<1> USE DEF Attempting
<1>1. ASSUME NEW call \in Calls, NEW ok \in BOOLEAN, FlushPending(call, ok) PROVE Goal
  BY Zenon, <1>1 DEF FlushPending
<1>2. ASSUME NEW call \in Calls, NEW ok \in BOOLEAN, PostResult(call, ok) PROVE Goal
  BY Zenon, <1>2 DEF PostResult, Return
<1>3. CASE Reject
  BY Zenon, <1>3 DEF Reject, Return
<1>4. ASSUME NEW ok \in BOOLEAN, Report(ok) PROVE Goal
  BY Zenon, <1>4 DEF Report
<1>5. ASSUME NEW call \in Calls, NEW control \in {"none", "pause", "cancel", "lost"}, ReportDone(call, control)
      PROVE Goal
  BY Zenon, <1>5 DEF ReportDone, Shaped
<1>6. ASSUME NEW ok \in BOOLEAN, SaveResult(ok) PROVE Goal
  BY Zenon, <1>6 DEF SaveResult, Return
<1>7. CASE Crash \/ Restart \/ Tick \/ UNCHANGED vars
  BY Zenon, <1>7 DEF Crash, Restart, Tick, vars
<1>8. CASE NothingPending \/ NoTask \/ Verify \/ Started \/ Finished \/ Finalized
  BY Zenon, <1>8 DEF NothingPending, NoTask, Verify, Started, Finished, Finalized, Return
<1>9. ASSUME NEW t \in Tasks, Claim(t) \/ Fence(t) PROVE Goal
  BY Zenon, <1>9 DEF Claim, Fence
<1>10. ASSUME NEW state \in Ends, Executed(state) PROVE Goal
  BY Zenon, <1>10 DEF Executed
<1> QED
  BY Zenon, <1>1, <1>2, <1>3, <1>4, <1>5, <1>6, <1>7, <1>8, <1>9, <1>10 DEF Next, Runner, Admits

LEMMA SavesStep ==
  ASSUME TypeOK, Shaped, Single, Saves
  PROVE  /\ pc = "save" /\ task \in Tasks /\ result \in Ends /\ pc' \notin Attempting
         /\ UNCHANGED <<runs, told, ctl>>
         /\ \A t \in Tasks : t # task => ResultsOf(t)' \subseteq ResultsOf(t)
         /\ \A t \in Tasks : t = task /\ Once(t) => ResultsOf(t)' \subseteq {[task |-> task, state |-> result]}
<1> PICK ok \in BOOLEAN : SaveResult(ok)
  BY Zenon DEF Saves
<1>1. /\ pc = "save" /\ task \in Tasks /\ result \in Ends /\ pc' \in {"post", "flush"}
      /\ UNCHANGED <<runs, told, ctl, got>> /\ disk' \in {disk, mem'}
      /\ mem'.pending = [task |-> task, state |-> result]
  BY Zenon, SaveResultEffect
<1>2. \A t \in Tasks : ResultsOf(t)' \subseteq ResultsOf(t) \cup {[task |-> task, state |-> result]}
  BY Zenon, <1>1 DEF ResultsOf
<1>3. \A t \in Tasks : t # task => ResultsOf(t)' \subseteq ResultsOf(t)
  BY SMTT(30), <1>2 DEF ResultsOf
<1>4. Once(task) => ResultsOf(task) = {}
  BY Zenon, <1>1 DEF Single, Attempting
<1>5. \A t \in Tasks : t = task /\ Once(t) => ResultsOf(t)' \subseteq {[task |-> task, state |-> result]}
  BY Zenon, <1>1, <1>2, <1>4
<1>6. pc' \notin Attempting
  BY Zenon, <1>1 DEF Attempting
<1> QED
  BY Zenon, <1>1, <1>3, <1>5, <1>6

LEMMA SingleNext == TypeOK /\ Shaped /\ Single /\ [Next]_vars => Single'
<1> SUFFICES ASSUME TypeOK, Shaped, Single, [Next]_vars PROVE Single'
  BY Zenon
<1>1. CASE Saves
  <2>1. /\ pc = "save" /\ task \in Tasks /\ pc' \notin Attempting /\ runs' = runs
        /\ \A t \in Tasks : t # task => ResultsOf(t)' \subseteq ResultsOf(t)
        /\ \A t \in Tasks : t = task /\ Once(t) => ResultsOf(t)' \subseteq {[task |-> task, state |-> result]}
    BY Zenon, <1>1, SavesStep
  <2>2. runs[task] # 0
    BY Zenon, <2>1 DEF Single, Attempting
  <2> QED
    BY SMTT(30), <2>1, <2>2 DEF Single, Once
<1>2. CASE Admits /\ ~Saves
  <2>1. PICK ok \in BOOLEAN : Admit(ok)
    BY Zenon, <1>2 DEF Admits
  <2>2. \A t \in Tasks : ResultsOf(t)' \subseteq ResultsOf(t)
    BY Zenon, <1>2, ResultsStep
  <2>3. /\ task \in Tasks /\ pc' = (IF ok THEN "start" ELSE "flush") /\ task' = (IF ok THEN task ELSE None)
        /\ runs' = IF ok THEN [runs EXCEPT ![task] = runs[task] + 1] ELSE runs
    BY Zenon, <2>1, AdmitEffect
  <2>4. \A t \in Tasks : runs[t] \in Nat /\ runs'[t] = IF ok /\ t = task THEN runs[t] + 1 ELSE runs[t]
    BY Zenon, <2>3 DEF TypeOK
  <2>5. \A t \in Tasks : runs'[t] = 0 => runs[t] = 0
    BY SMTT(30), <2>4
  <2>6. \A t \in Tasks : runs'[t] <= 1 => runs[t] <= 1 /\ (ok /\ t = task => runs[t] = 0)
    BY <2>4
  <2>7. ok => runs'[task] # 0
    BY <2>3, <2>4
  <2>8. pc' \in Attempting => runs'[task'] # 0 /\ (runs'[task'] <= 1 => ResultsOf(task)' = {})
    <3>1. CASE ok
      <4>1. task' = task /\ task \in Tasks
        BY Zenon, <2>3, <3>1
      <4>2. runs'[task] <= 1 => ResultsOf(task) = {}
        BY Zenon, <2>6, <3>1, <4>1 DEF Single
      <4>3. ResultsOf(task)' \subseteq ResultsOf(task)
        BY Zenon, <2>2, <4>1 DEF ResultsOf
      <4> QED
        BY Zenon, <2>7, <3>1, <4>1, <4>2, <4>3
    <3>2. CASE ~ok
      BY Zenon, <2>3, <3>2 DEF Attempting
    <3> QED
      BY Zenon, <3>1, <3>2
  <2> QED
    BY Zenon, <2>2, <2>5, <2>6, <2>8 DEF Single, Once
<1>3. CASE ~Admits /\ ~Saves
  <2>1. \A t \in Tasks : ResultsOf(t)' \subseteq ResultsOf(t)
    BY Zenon, <1>3, ResultsStep
  <2>2. runs' = runs /\ (pc' \in Attempting => pc \in Attempting /\ task' = task)
    BY Zenon, <1>3, AttemptStep
  <2>3. pc \in Attempting => task \in Tasks
    BY Zenon DEF Shaped
  <2> QED
    BY Zenon, <2>1, <2>2, <2>3 DEF Single, Once
<1> QED
  BY Zenon, <1>1, <1>2, <1>3

LEMMA ToldNext == TypeOK /\ Shaped /\ Single /\ Told /\ [Next]_vars => Told'
<1> SUFFICES ASSUME TypeOK, Shaped, Single, Told, [Next]_vars PROVE Told'
  BY Zenon
<1> DEFINE Heeds == \/ ctl # "lost" /\ told[task] = ctl
                    \/ ctl = "lost" /\ told[task] \in {"none", "lost"}
           Results1 == \A t \in Tasks : Once(t) => \A r \in ResultsOf(t) : Obeys(told[t], r.state)
           Ahead == pc \in Attempting \ {"save"} => Heeds
           Behind == pc = "save" => Obeys(told[task], result)
<1>a. Told <=> Results1 /\ Ahead /\ Behind
  BY Zenon DEF Told
<1>b. pc \in Attempting => task \in Tasks
  BY Zenon DEF Shaped
<1>1. CASE Saves
  <2>1. /\ pc = "save" /\ task \in Tasks /\ result \in Ends /\ pc' \notin Attempting
        /\ UNCHANGED <<runs, told, ctl>>
        /\ \A t \in Tasks : t # task => ResultsOf(t)' \subseteq ResultsOf(t)
        /\ \A t \in Tasks : t = task /\ Once(t) => ResultsOf(t)' \subseteq {[task |-> task, state |-> result]}
    BY Zenon, <1>1, SavesStep
  <2>2. Obeys(told[task], result)
    BY Zenon, <2>1 DEF Told
  <2>3. ASSUME NEW t \in Tasks, Once(t), NEW r \in ResultsOf(t)' PROVE Obeys(told[t], r.state)
    <3>1. CASE t = task
      BY SMTT(30), <2>1, <2>2, <2>3, <3>1
    <3>2. CASE t # task
      BY Zenon, <2>1, <2>3, <3>2 DEF Told
    <3> QED
      BY Zenon, <3>1, <3>2
  <2>4. Results1'
    BY Zenon, <2>1, <2>3 DEF Once, Obeys
  <2> QED
    BY Zenon, <2>1, <2>4 DEF Told, Attempting
<1>2. CASE ~Saves
  <2>r. \A t \in Tasks : ResultsOf(t)' \subseteq ResultsOf(t)
    BY Zenon, <1>2, ResultsStep
  <2>1. ASSUME runs' = runs, told' = told PROVE Results1'
    BY Zenon, <2>r, <2>1 DEF Told, Once, Obeys
  <2>2. ASSUME NEW ok \in BOOLEAN, Admit(ok) PROVE Told'
    <3>0. /\ task \in Tasks /\ told' = [told EXCEPT ![task] = "none"]
          /\ runs' \in {runs, [runs EXCEPT ![task] = runs[task] + 1]}
      BY Zenon, <2>2, AdmitEffect
    <3>r. runs \in [Tasks -> Nat] /\ runs[task] \in Nat
      BY Zenon, <3>0 DEF TypeOK
    <3>n. \A t \in Tasks : runs'[t] = runs[t] \/ runs'[t] = runs[t] + 1
      BY Zenon, <3>0, <3>r
    <3>1. \A t \in Tasks : runs'[t] <= 1 => runs[t] <= 1
      BY SMTT(30), <3>r, <3>n
    <3>2. \A t \in Tasks : told'[t] = IF t = task THEN "none" ELSE told[t]
      BY Zenon, <3>0 DEF TypeOK
    <3>3. Results1'
      BY SMTT(30), <2>r, <3>0, <3>1, <3>2 DEF Told, Once, Obeys
    <3>4. pc' # "save" /\ (pc' \in Attempting => task' = task /\ ctl' = "none")
      BY Zenon, <2>2, AdmitEffect DEF Attempting
    <3> QED
      BY Zenon, <3>0, <3>2, <3>3, <3>4 DEF Told
  <2>3. ASSUME NEW call \in Calls, NEW control \in {"none", "pause", "cancel", "lost"}, ReportDone(call, control)
        PROVE Told'
    <3>1. /\ pc \in {"start", "run", "final"} /\ ctl = "none" /\ task \in Tasks /\ UNCHANGED <<task, runs>>
          /\ pc' \in Attempting \ {"save"}
          /\ \/ ctl' = control /\ told' = [told EXCEPT ![task] = control]
             \/ ctl' = "lost" /\ told' = told
      BY Zenon, <2>3 DEF ReportDone, Shaped, Attempting, Reported
    <3>2. Once(task) => ResultsOf(task) = {}
      BY Zenon, <3>1 DEF Single, Attempting
    <3>3. \A t \in Tasks : t # task => told'[t] = told[t]
      BY Zenon, <3>1 DEF TypeOK
    <3>4. ASSUME NEW t \in Tasks, Once(t), NEW r \in ResultsOf(t)' PROVE Obeys(told'[t], r.state)
      BY Zenon, <2>r, <3>2, <3>3, <3>4 DEF Told
    <3>5. Results1'
      BY Zenon, <3>1, <3>4 DEF Once
    <3>6. told[task] = "none"
      BY Zenon, <3>1 DEF Told, Attempting
    <3>7. told'[task] = control \/ told' = told
      BY Zenon, <3>1 DEF TypeOK
    <3>8. Heeds'
      BY Zenon, <3>1, <3>6, <3>7 DEF TypeOK
    <3> QED
      BY Zenon, <3>1, <3>5, <3>8 DEF Told
  <2>4. ASSUME NEW ok \in BOOLEAN, Report(ok) PROVE Told'
    <3>1. /\ pc \in {"start", "run", "final"} /\ ctl = "none" /\ task' = task
          /\ pc' \in Attempting \ {"save"} /\ UNCHANGED <<runs, told>> /\ ctl' \in {"none", "lost"}
      BY Zenon, <2>4, ReportEffect DEF Attempting, Reported
    <3>2. told[task] = "none"
      BY Zenon, <3>1 DEF Told, Attempting
    <3> QED
      BY Zenon, <2>1, <3>1, <3>2 DEF Told, Attempting
  <2>5. ASSUME pc' \notin Attempting, runs' = runs, told' = told PROVE Told'
    BY Zenon, <2>1, <2>5 DEF Told, Attempting
  <2>6. ASSUME NEW call \in Calls, NEW ok \in BOOLEAN, FlushPending(call, ok) \/ PostResult(call, ok) PROVE Told'
    BY Zenon, <2>5, <2>6 DEF FlushPending, PostResult, Return, Attempting
  <2>7. CASE Reject \/ NothingPending \/ NoTask \/ Verify \/ Crash \/ Restart
    BY Zenon, <2>5, <2>7 DEF Reject, NothingPending, NoTask, Verify, Crash, Restart, Return, Attempting
  <2>8. ASSUME NEW t \in Tasks, Claim(t) PROVE Told'
    BY Zenon, <2>5, <2>8 DEF Claim, Attempting
  <2>9. CASE Started
    <3>1. pc = "started" /\ UNCHANGED <<runs, told, ctl>>
      BY Zenon, <2>9 DEF Started
    <3>2. Heeds
      BY Zenon, <3>1 DEF Told, Attempting
    <3>3. \/ ctl = "none" /\ pc' = "run" /\ task' = task
          \/ ctl \in {"pause", "cancel"} /\ pc' = "save" /\ result' = Controlled(ctl) /\ task' = task
          \/ pc' = "flush"
      BY Zenon, <2>9 DEF Started, Return
    <3> QED
      BY Zenon, <2>1, <3>1, <3>2, <3>3 DEF Told, Attempting, Controlled, Obeys
  <2>10. CASE Finished
    <3>1. /\ pc = "run" /\ UNCHANGED <<runs, told, ctl, task>>
          /\ \/ ctl = "none" /\ pc' = "final"
             \/ pc' = "save" /\ result' = Controlled(ctl)
      BY Zenon, <2>10 DEF Finished
    <3>2. Heeds
      BY Zenon, <3>1 DEF Told, Attempting
    <3> QED
      BY Zenon, <2>1, <3>1, <3>2 DEF Told, Attempting, Controlled, Obeys
  <2>11. CASE Finalized
    <3>1. /\ pc = "finalized" /\ pc' = "save" /\ UNCHANGED <<runs, told, ctl, task>>
          /\ result' = IF ctl \in {"pause", "cancel"} THEN Controlled(ctl) ELSE result
      BY Zenon, <2>11 DEF Finalized
    <3>2. Heeds
      BY Zenon, <3>1 DEF Told, Attempting
    <3> QED
      BY Zenon, <2>1, <3>1, <3>2 DEF Told, Attempting, Controlled, Obeys, TypeOK
  <2>12. ASSUME UNCHANGED <<pc, ctl, task, runs, told, result>> PROVE Told'
    BY Zenon, <2>1, <2>12 DEF Told, Obeys
  <2>13. ASSUME NEW state \in Ends, Executed(state) PROVE Told'
    BY Zenon, <2>12, <2>13 DEF Executed
  <2>14. ASSUME NEW t \in Tasks, Fence(t) PROVE Told'
    BY Zenon, <2>12, <2>14 DEF Fence
  <2>15. CASE Tick \/ UNCHANGED vars
    BY Zenon, <2>12, <2>15 DEF Tick, vars
  <2> QED
    BY Zenon, <1>2, <2>2, <2>3, <2>4, <2>6, <2>7, <2>8, <2>9, <2>10, <2>11, <2>13, <2>14, <2>15 DEF Next, Runner, Saves
<1> QED
  BY Zenon, <1>1, <1>2

-----------------------------------------------------------------------------
(* Progress numbers *)

LEMMA NumberedNext == TypeOK /\ Shaped /\ Single /\ Numbered /\ [Next]_vars => Numbered'
<1> SUFFICES ASSUME TypeOK, Shaped, Single, Numbered, [Next]_vars PROVE Numbered'
  BY Zenon
<1>a. mem.seq \in Nat /\ runs \in [Tasks -> Nat] /\ heard \in [Tasks -> Seq(Nat)]
  BY Zenon DEF TypeOK, State
<1>b. pc \in Attempting => task \in Tasks
  BY Zenon DEF Shaped
<1>1. ASSUME NEW ok \in BOOLEAN, Admit(ok) PROVE Numbered'
  <2>1. /\ task \in Tasks /\ heard' = heard
        /\ pc' = (IF ok THEN "start" ELSE "flush") /\ task' = (IF ok THEN task ELSE None)
        /\ runs' = IF ok THEN [runs EXCEPT ![task] = runs[task] + 1] ELSE runs
    BY Zenon, <1>1, AdmitEffect
  <2>2. \A t \in Tasks : runs[t] \in Nat /\ runs'[t] = IF ok /\ t = task THEN runs[t] + 1 ELSE runs[t]
    BY Zenon, <1>a, <2>1
  <2>3. \A t \in Tasks : /\ runs'[t] = 0 => runs[t] = 0
                         /\ runs'[t] <= 1 => runs[t] <= 1 /\ (ok /\ t = task => runs[t] = 0)
    BY SMTT(30), <2>2
  <2>4. pc' \in Attempting /\ runs'[task'] <= 1 => heard'[task'] = <<>>
    BY Zenon, <2>1, <2>3 DEF Numbered, Attempting
  <2>5. ProgressRises'
    BY Zenon, <2>1, <2>3 DEF Numbered, ProgressRises, Once
  <2>6. pc' \in Attempting /\ Once(task)' =>
          \A i \in 1..Len(heard'[task']) :
             heard'[task'][i] <= mem'.seq /\ (prog' = "posting" => heard'[task'][i] < mem'.seq)
    BY SMTT(30), <2>4 DEF Once
  <2> QED
    BY Zenon, <2>1, <2>3, <2>5, <2>6 DEF Numbered
<1>2. ASSUME NEW ok \in BOOLEAN, Report(ok) PROVE Numbered'
  <2>1. /\ pc \in Attempting /\ mem'.seq = mem.seq + 1 /\ UNCHANGED <<task, heard, runs>>
    BY Zenon, <1>2, ReportEffect DEF Attempting
  <2>2. \A i \in 1..Len(heard[task]) : heard[task][i] \in Nat
    BY SMTT(30), <1>a, <1>b, <2>1
  <2>3. Once(task) => \A i \in 1..Len(heard[task]) : heard[task][i] <= mem'.seq /\ heard[task][i] < mem'.seq
    BY SMTT(30), <1>a, <2>1, <2>2 DEF Numbered
  <2> QED
    BY Zenon, <2>1, <2>3 DEF Numbered, ProgressRises, Once
<1>3. ASSUME NEW call \in Calls, NEW control \in {"none", "pause", "cancel", "lost"}, ReportDone(call, control)
      PROVE Numbered'
  <2> DEFINE old == heard[task]
             new == IF Delivered(call, task) THEN Append(old, mem.seq) ELSE old
  <2>1. /\ pc \in Attempting /\ prog = "posting" /\ prog' = "free"
        /\ UNCHANGED <<task, mem, runs>> /\ heard' = [heard EXCEPT ![task] = new]
    BY Zenon, <1>3 DEF ReportDone, Shaped, Attempting
  <2>2. old \in Seq(Nat) /\ task \in Tasks /\ runs[task] # 0
    BY Zenon, <1>a, <1>b, <2>1 DEF Single
  <2>3. Once(task) => \A i \in 1..Len(old) : old[i] < mem.seq
    BY Zenon, <2>1 DEF Numbered
  <2>4. Once(task) => \A i \in 2..Len(old) : old[i-1] < old[i]
    BY Zenon, <2>2 DEF Numbered, ProgressRises
  <2> HIDE DEF old
  <2>5. Once(task) => \A i \in 1..Len(new) : new[i] <= mem.seq
    BY SMTT(30), <1>a, <2>2, <2>3
  <2>6. Once(task) => \A i \in 2..Len(new) : new[i-1] < new[i]
    BY SMTT(30), <1>a, <2>2, <2>3, <2>4
  <2> HIDE DEF new
  <2>7. \A t \in Tasks : heard'[t] = IF t = task THEN new ELSE heard[t]
    BY Zenon, <1>a, <2>1
  <2>8. ProgressRises'
    BY SMTT(30), <2>1, <2>2, <2>6, <2>7 DEF Numbered, ProgressRises, Once
  <2> QED
    BY Zenon, <2>1, <2>2, <2>5, <2>7, <2>8 DEF Numbered, Once
<1>4. ASSUME UNCHANGED <<heard, runs>>, pc' \in Attempting => pc \in Attempting /\ UNCHANGED <<task, mem, prog>>
      PROVE Numbered'
  BY Zenon, <1>4 DEF Numbered, ProgressRises, Once
<1>5. ASSUME NEW ok \in BOOLEAN, SaveResult(ok) PROVE Numbered'
  BY Zenon, <1>4, <1>5 DEF SaveResult, Return, Attempting
<1>6. ASSUME NEW call \in Calls, NEW ok \in BOOLEAN, FlushPending(call, ok) \/ PostResult(call, ok) PROVE Numbered'
  BY ZenonT(40), <1>4, <1>6 DEF FlushPending, PostResult, Return, Attempting
<1>7. CASE Reject \/ NothingPending \/ NoTask \/ Verify \/ Crash \/ Restart \/ Tick \/ UNCHANGED vars
  BY Zenon, <1>4, <1>7 DEF Reject, NothingPending, NoTask, Verify, Crash, Restart, Tick, vars, Return, Attempting
<1>8. CASE Started \/ Finished \/ Finalized
  BY Zenon, <1>4, <1>8 DEF Started, Finished, Finalized, Return, Attempting
<1>9. ASSUME NEW t \in Tasks, Claim(t) \/ Fence(t) PROVE Numbered'
  BY Zenon, <1>4, <1>9 DEF Claim, Fence, Attempting
<1>10. ASSUME NEW state \in Ends, Executed(state) PROVE Numbered'
  BY Zenon, <1>4, <1>10 DEF Executed
<1> QED
  BY Zenon, <1>1, <1>2, <1>3, <1>5, <1>6, <1>7, <1>8, <1>9, <1>10 DEF Next, Runner

-----------------------------------------------------------------------------
(* Theorems *)

LEMMA RunnerInvInit == Init => RunnerInv
<1> SUFFICES ASSUME Init PROVE RunnerInv
  BY Zenon
<1>1. Shaped /\ Fenced /\ Outbox
  BY SMTT(30), BlankFields DEF Init, Shaped, Attempting, Fenced, Outbox
<1>2. \A t \in Tasks : ResultsOf(t) = {}
  BY Zenon, BlankFields, TaskRunnerAssumption DEF Init, ResultsOf
<1> QED
  BY SMTT(30), <1>1, <1>2 DEF Init, RunnerInv, Single, Told, Numbered, ProgressRises, Attempting

\* The inductive invariant: shape, known nonces, outbox, results, controls and
\* progress numbers.
LEMMA RunnerInvariant == Spec => [](TypeOK /\ RunnerInv)
<1>1. Init => TypeOK /\ RunnerInv
  BY Zenon, InitType, RunnerInvInit
<1>2. TypeOK /\ RunnerInv /\ [Next]_vars => (TypeOK /\ RunnerInv)'
  BY Zenon, TypeNext, ShapedNext, FencedNext, OutboxNext, SingleNext, ToldNext, NumberedNext DEF RunnerInv
<1> QED
  BY <1>1, <1>2, PTL DEF Spec

\* The type invariant of the runner, whatever fails or crashes.
THEOREM RunnerTypeCorrect == Spec => []TypeOK
  BY RunnerInvariant, PTL

\* OutboxKept: a saved result leaves the state file only when the backend has
\* taken it or fenced its attempt (flushPending, persistAndPostResult).
THEOREM OutboxKeptHolds == Spec => OutboxKept
<1>1. TypeOK /\ RunnerInv /\ [Next]_vars
      => [\A r \in Results : disk.pending = r /\ disk'.pending # r => r \in got' \/ r.task \in fenced]_vars
  BY Zenon, OutboxNext, TaskRunnerAssumption DEF RunnerInv, OutboxStep
<1> QED
  BY <1>1, RunnerInvariant, PTL DEF Spec, OutboxKept

\* AdmittedOnceWhileValid: verifyEnvelope lets no task through a second time
\* while its envelope is valid.
THEOREM AdmittedOnceHolds == Spec => AdmittedOnceWhileValid
<1>1. ASSUME TypeOK, RunnerInv, [Next]_vars, pc = "admit", pc' = "start", runs[task] > 0
      PROVE  Expiry[task] < clock
  <2>1. PICK ok \in BOOLEAN : Admit(ok)
    <3>1. Admits
      BY Zenon, <1>1, AttemptStep DEF RunnerInv, Attempting
    <3> QED
      BY Zenon, <3>1 DEF Admits
  <2>2. task \in Tasks /\ task \notin Live(mem.seen)
    BY ZenonT(40), <1>1, <2>1, AdmitEffect DEF RunnerInv
  <2>3. Expiry[task] < clock \/ task \in mem.seen
    BY Zenon, <1>1, <2>2 DEF RunnerInv, Fenced
  <2>4. Expiry[task] \in Nat /\ clock \in Nat
    BY Zenon, <1>1, <2>2, TaskRunnerAssumption DEF TypeOK
  <2> QED
    BY SMTT(30), <2>2, <2>3, <2>4 DEF Live
<1>2. TypeOK /\ RunnerInv /\ [Next]_vars
      => [pc = "admit" /\ pc' = "start" /\ runs[task] > 0 => Expiry[task] < clock]_vars
  BY Zenon, <1>1
<1> QED
  BY <1>2, RunnerInvariant, PTL DEF Spec, AdmittedOnceWhileValid

\* OneResult: the backend takes one result of an attempt, however often
\* flushPending and persistAndPostResult send it.
THEOREM OneResultHolds == Spec => []OneResult
<1>1. TypeOK /\ RunnerInv => OneResult
  BY ZenonT(40) DEF TypeOK, RunnerInv, Single, OneResult, ResultsOf, Results
<1> QED
  BY <1>1, RunnerInvariant, PTL

\* ControlHonoured: the result the backend takes agrees with the last control
\* the agent was told of (progressCallback, controlledResult).
THEOREM ControlHonouredHolds == Spec => []ControlHonoured
<1>1. TypeOK /\ RunnerInv => ControlHonoured
  BY Zenon DEF TypeOK, RunnerInv, Told, Obeys, ControlHonoured, ResultsOf, Results
<1> QED
  BY <1>1, RunnerInvariant, PTL

\* ProgressRises: the progress reports of an attempt arrive with rising numbers,
\* whether the executor or the heartbeat calls progressCallback.
THEOREM ProgressRisesHolds == Spec => []ProgressRises
<1>1. RunnerInv => ProgressRises
  BY Zenon DEF RunnerInv, Numbered
<1> QED
  BY <1>1, RunnerInvariant, PTL

-----------------------------------------------------------------------------
(* Part 2: the file swap *)

Applying == {"inspect", "copy", "verify", "mark", "old", "new", "active"}

MarkerKey == <<marker.mig, marker.pending>>

\* what the sync at work knows about the marker
Copied ==
  /\ step # "idle" => op.key \in Keys
  /\ step \in Recovering \cup Applying => op.rec = marker
  /\ step \in Recovering \cup {"old", "new", "active"} => marker.state = "swapping"
  /\ step \in {"inspect", "copy", "verify", "mark", "c_apply", "u_backup"} => marker.state # "swapping"
  /\ step \in Recovering \cup Applying => marker.state = "none" \/ marker.mig = op.key[1]
  /\ step \in {"old", "new", "active"} => marker.pending = op.key[2]
  /\ step = "u_backup" => marker.state = "active" /\ marker.mig = op.key[1] /\ marker.active = op.key[2]
  /\ marker.state = "swapping" => marker.mig \in Migrations /\ marker.pending \in Versions

\* what it knows about the directories
Placed ==
  /\ step \in {"copy", "verify", "mark", "old"} => op.exists = (target # Absent)
  /\ step \in {"copy", "verify", "mark"} =>
       target = IF marker.state = "none" THEN (IF op.exists THEN Empty ELSE Absent)
                ELSE IF marker.active = Unset THEN Absent ELSE marker.active
  /\ step \in {"mark", "old", "new"} => apply[op.key] = op.key[2]
  /\ step = "old" => target = IF marker.active = Unset THEN Absent ELSE marker.active
  /\ step = "new" => target = Absent /\ (op.exists <=> marker.active # Unset)
                   /\ (op.exists => backup[op.key] = marker.active)
  /\ step \in {"active", "u_backup"} => target = op.key[2]
  /\ step \in {"r_backup", "r_apply", "r_mark"} => target = marker.pending
  /\ step \in {"s_apply", "s_backup"} => target = marker.active

\* where the trees are, as long as nobody else has changed the target
Safe ==
  changes = 0 =>
    /\ marker.state = "active" => target = marker.active
    /\ marker.state = "swapping" =>
         \/ target \in {marker.pending, marker.active}
         \/ /\ target = Absent /\ apply[MarkerKey] = marker.pending
            /\ marker.active = Unset \/ backup[MarkerKey] = marker.active
    /\ step = "s_mark" => target = marker.active

SwapInv == Copied /\ Placed /\ Safe

-----------------------------------------------------------------------------
(* Types *)

LEMMA RecordTypes ==
  /\ NoMarker \in Markers /\ NoOp \in Ops
  /\ \A rec \in Markers, a \in Versions \cup {Empty, Unset} :
       /\ Settled(rec, a) \in Markers
       /\ Settled(rec, a).state = "active" /\ Settled(rec, a).active = a /\ Settled(rec, a).mig = rec.mig
<1>1. NoMarker \in Markers
  BY Zenon DEF NoMarker, Markers
<1>2. NoOp \in Ops
  <2>1. FALSE \in BOOLEAN
    BY Zenon
  <2> QED
    BY Zenon, <1>1, <2>1 DEF NoOp, Ops
<1>3. ASSUME NEW rec \in Markers, NEW a \in Versions \cup {Empty, Unset}
      PROVE  /\ Settled(rec, a) \in Markers
             /\ Settled(rec, a).state = "active" /\ Settled(rec, a).active = a /\ Settled(rec, a).mig = rec.mig
  BY Zenon DEF Settled, Markers
<1> QED
  BY Zenon, <1>1, <1>2, <1>3

LEMMA SwapKey == ASSUME SwapTypeOK, Copied, step # "idle" PROVE Swap \in Keys
  BY Zenon DEF Swap, Copied, SwapTypeOK, Keys

LEMMA EndTypes ==
  ASSUME SwapTypeOK, Copied, step # "idle", Fail \/ Succeed \/ \E p \in Steps : Goto(p)
  PROVE  step' \in Steps /\ op' \in Ops /\ want' \in Keys \cup {Unset} /\ done' \in Keys \cup {Unset}
  BY Zenon, RecordTypes DEF Fail, Succeed, Goto, SwapTypeOK, Copied, Steps

LEMMA FaultTypes ==
  ASSUME failures \in Nat, NEW ok \in BOOLEAN, Failure(ok)
  PROVE  failures' \in Nat
  BY SMTT(30) DEF Failure

LEMMA SwapTypeNext == SwapTypeOK /\ Copied /\ [SwapNext]_swapVars => SwapTypeOK'
<1> SUFFICES ASSUME SwapTypeOK, Copied, [SwapNext]_swapVars PROVE SwapTypeOK'
  BY Zenon
<1> USE FileSwapAssumption
<1>a. /\ target \in Contents /\ apply \in [Keys -> Contents] /\ backup \in [Keys -> Contents]
      /\ marker \in Markers /\ step \in Steps /\ op \in Ops /\ op.rec \in Markers
      /\ want \in Keys \cup {Unset} /\ done \in Keys \cup {Unset}
      /\ failures \in Nat /\ kills \in Nat /\ changes \in Nat /\ requests \in Nat
  BY Zenon DEF SwapTypeOK, Ops
<1>b. Versions \subseteq Contents /\ {Absent, Partial, Empty, Foreign} \subseteq Contents
  BY Zenon DEF Contents, Trees
<1>1. CASE Begin
  <2>1. /\ step' \in Steps /\ op' = [key |-> want, rec |-> marker, exists |-> FALSE] /\ want \in Keys
        /\ UNCHANGED <<target, apply, backup, marker, want, done, failures, kills, changes, requests>>
    BY Zenon, <1>1, <1>a DEF Begin, Steps, Recovering, Environment
  <2>2. op' \in Ops
    <3>1. FALSE \in BOOLEAN
      BY Zenon
    <3> QED
      BY Zenon, <1>a, <2>1, <3>1 DEF Ops
  <2> QED
    BY Zenon, <2>1, <2>2, <1>a DEF SwapTypeOK
<1>2. CASE RecoverTarget
  <2>1. /\ step # "idle" /\ (Fail \/ \E p \in Steps : Goto(p))
        /\ UNCHANGED <<target, apply, backup, marker, failures, kills, changes, requests>>
    BY ZenonT(40), <1>2 DEF RecoverTarget, Steps, Recovering, Environment
  <2> QED
    BY Zenon, <2>1, <1>a, EndTypes DEF SwapTypeOK
<1>3. CASE RemoveFiles
  <2>1. /\ step # "idle" /\ (\E p \in Steps : Goto(p)) /\ apply' \in [Keys -> Contents] /\ backup' \in [Keys -> Contents]
        /\ UNCHANGED <<target, marker, failures, kills, changes, requests>>
    BY SMTT(30), <1>3, <1>a, <1>b DEF RemoveFiles, Steps, Recovering, RemovesApply, RemovesBackup, Environment
  <2> QED
    BY Zenon, <2>1, <1>a, EndTypes DEF SwapTypeOK
<1>4. CASE RenameNew
  <2>1. /\ step = "new" /\ target' = apply[op.key] /\ apply' = [apply EXCEPT ![op.key] = Absent] /\ Goto("active")
        /\ UNCHANGED <<backup, marker, failures, kills, changes, requests>>
    BY Zenon, <1>4 DEF RenameNew, Environment
  <2>2. op.key \in Keys
    BY Zenon, <2>1 DEF Copied
  <2>3. target' \in Contents /\ apply' \in [Keys -> Contents]
    BY Zenon, <1>a, <1>b, <2>1, <2>2
  <2> QED
    BY Zenon, <2>1, <2>3, <1>a, EndTypes DEF SwapTypeOK, Steps
<1>5. ASSUME NEW ok \in BOOLEAN, RemoveDone(ok) PROVE SwapTypeOK'
  <2>1. /\ step # "idle" /\ (Fail \/ Succeed \/ \E p \in Steps : Goto(p))
        /\ UNCHANGED <<target, marker, kills, changes, requests>> /\ Failure(ok)
    BY Zenon, <1>5 DEF RemoveDone, Steps, Recovering, RemovesApply, RemovesBackup, AfterRemoval, Environment
  <2>2. apply' \in [Keys -> Contents] /\ backup' \in [Keys -> Contents]
    BY Zenon, <1>5, <1>a, <1>b DEF RemoveDone
  <2> QED
    BY Zenon, <2>1, <2>2, <1>a, EndTypes, FaultTypes DEF SwapTypeOK
<1>6. ASSUME NEW ok \in BOOLEAN, RecoverRename(ok) PROVE SwapTypeOK'
  <2>1. /\ step = "recover" /\ (Fail \/ \E p \in Steps : Goto(p))
        /\ UNCHANGED <<marker, kills, changes, requests>> /\ Failure(ok)
    BY Zenon, <1>6 DEF RecoverRename, Steps, Recovering, Environment
  <2>2. Swap \in Keys
    BY Zenon, <2>1, SwapKey
  <2>3. target' \in Contents /\ apply' \in [Keys -> Contents] /\ backup' \in [Keys -> Contents]
    BY SMTT(30), <1>6, <1>a, <1>b, <2>2 DEF RecoverRename
  <2> QED
    BY ZenonT(40), <2>1, <2>3, <1>a, EndTypes, FaultTypes DEF SwapTypeOK
<1>7. ASSUME NEW ok \in BOOLEAN, RecoverMark(ok) PROVE SwapTypeOK'
  <2> DEFINE rec == Settled(op.rec, IF step = "r_mark" THEN op.rec.pending ELSE op.rec.active)
  <2>1. rec \in Markers
    <3>1. op.rec.pending \in Versions \cup {Unset} /\ op.rec.active \in Versions \cup {Empty, Unset}
      BY Zenon, <1>a DEF Markers
    <3> QED
      BY ZenonT(40), <1>a, <3>1, RecordTypes
  <2>2. /\ step # "idle" /\ Write(rec, ok) /\ UNCHANGED <<kills, changes, requests>>
        /\ Fail \/ (step' = "inspect" /\ op' = [op EXCEPT !.rec = rec] /\ UNCHANGED <<want, done>>)
    BY Zenon, <1>7 DEF RecoverMark, Environment
  <2> HIDE DEF rec
  <2>3. step' \in Steps /\ op' \in Ops /\ want' \in Keys \cup {Unset} /\ done' \in Keys \cup {Unset}
    <3>1. CASE Fail
      BY Zenon, <3>1, <2>2, EndTypes
    <3>2. CASE ~Fail
      BY Zenon, <3>2, <2>1, <2>2, <1>a DEF Ops, Steps
    <3> QED
      BY Zenon, <3>1, <3>2
  <2> QED
    BY Zenon, <2>1, <2>2, <2>3, <1>a, FaultTypes DEF SwapTypeOK, Write
<1>8. ASSUME NEW ok \in BOOLEAN, Inspect(ok) PROVE SwapTypeOK'
  <2> DEFINE there == (target # Absent)
  <2>1. there \in BOOLEAN
    BY Zenon
  <2>2. /\ step # "idle" /\ Failure(ok) /\ UNCHANGED <<target, apply, backup, marker, kills, changes, requests>>
        /\ \/ Fail \/ Succeed
           \/ step' = "copy" /\ op' = [op EXCEPT !.exists = there] /\ UNCHANGED <<want, done>>
    BY Zenon, <1>8 DEF Inspect, Environment
  <2> HIDE DEF there
  <2>3. step' \in Steps /\ op' \in Ops /\ want' \in Keys \cup {Unset} /\ done' \in Keys \cup {Unset}
    <3>1. CASE Fail \/ Succeed
      BY Zenon, <3>1, <2>2, EndTypes
    <3>2. CASE ~(Fail \/ Succeed)
      BY Zenon, <3>2, <2>1, <2>2, <1>a DEF Ops, Steps
    <3> QED
      BY Zenon, <3>1, <3>2
  <2> QED
    BY Zenon, <2>2, <2>3, <1>a, FaultTypes DEF SwapTypeOK
<1>9. ASSUME NEW ok \in BOOLEAN, Copy(ok) \/ VerifyCopy(ok) PROVE SwapTypeOK'
  <2>1. /\ step # "idle" /\ (\E p \in Steps : Goto(p)) /\ Failure(ok)
        /\ UNCHANGED <<target, backup, marker, kills, changes, requests>>
        /\ apply' \in {apply, [apply EXCEPT ![op.key] = Partial], [apply EXCEPT ![op.key] = op.key[2]]}
    BY ZenonT(40), <1>9 DEF Copy, VerifyCopy, Steps, Environment
  <2>2. op.key[2] \in Versions
    BY ZenonT(40), <2>1 DEF Copied, Keys
  <2>3. apply' \in [Keys -> Contents]
    BY Zenon, <2>1, <2>2, <1>a, <1>b
  <2> QED
    BY ZenonT(40), <2>1, <2>3, <1>a, EndTypes, FaultTypes DEF SwapTypeOK
<1>10. ASSUME NEW ok \in BOOLEAN, MarkSwapping(ok) PROVE SwapTypeOK'
  <2> DEFINE act == IF Owned THEN op.rec.active ELSE IF op.exists THEN Empty ELSE Unset
             rec == [mig |-> op.key[1], state |-> "swapping", pending |-> op.key[2], active |-> act]
  <2>1. /\ step = "mark" /\ Write(rec, ok) /\ step' \in Steps /\ op' = [op EXCEPT !.rec = rec]
        /\ UNCHANGED <<want, done, kills, changes, requests>>
    BY Zenon, <1>10 DEF MarkSwapping, Environment, Steps
  <2>2. act \in Versions \cup {Empty, Unset}
    BY Zenon, <1>a DEF Markers
  <2>3. op.key[1] \in Migrations /\ op.key[2] \in Versions
    BY Zenon, <2>1 DEF Copied, Keys
  <2> HIDE DEF act
  <2>4. rec \in Markers
    BY ZenonT(40), <2>2, <2>3 DEF Markers
  <2> HIDE DEF rec
  <2> QED
    BY Zenon, <2>1, <2>4, <1>a, FaultTypes DEF SwapTypeOK, Write, Ops
<1>11. ASSUME NEW ok \in BOOLEAN, RenameOld(ok) \/ RenameNewFails(ok) PROVE SwapTypeOK'
  <2>1. /\ step # "idle" /\ (Fail \/ \E p \in Steps : Goto(p))
        /\ UNCHANGED <<apply, marker, kills, changes, requests>>
    BY Zenon, <1>11 DEF RenameOld, RenameNewFails, Steps, Environment
  <2>2. failures' \in Nat
    <3>1. CASE RenameOld(ok)
      BY Zenon, <3>1, <1>a, FaultTypes DEF RenameOld
    <3>2. CASE RenameNewFails(ok)
      BY SMTT(30), <3>2, <1>a DEF RenameNewFails
    <3> QED
      BY Zenon, <1>11, <3>1, <3>2
  <2>3. op.key \in Keys
    BY Zenon, <2>1 DEF Copied
  <2>4. target' \in Contents /\ backup' \in [Keys -> Contents]
    BY SMTT(30), <1>11, <1>a, <1>b, <2>3 DEF RenameOld, RenameNewFails
  <2> QED
    BY Zenon, <2>1, <2>2, <2>4, <1>a, EndTypes DEF SwapTypeOK
<1>12. ASSUME NEW ok \in BOOLEAN, MarkActive(ok) PROVE SwapTypeOK'
  <2> DEFINE rec == Settled(op.rec, op.key[2])
  <2>1. /\ step = "active" /\ Write(rec, ok) /\ (Fail \/ Succeed \/ \E p \in Steps : Goto(p))
        /\ UNCHANGED <<kills, changes, requests>>
    BY ZenonT(40), <1>12 DEF MarkActive, Environment, Steps
  <2>2. op.key[2] \in Versions
    BY ZenonT(40), <2>1 DEF Copied, Keys
  <2>3. rec \in Markers
    BY Zenon, <2>2, <1>a, RecordTypes
  <2> HIDE DEF rec
  <2> QED
    BY Zenon, <2>1, <2>3, <1>a, EndTypes, FaultTypes DEF SwapTypeOK, Write
<1>13. ASSUME \/ Killed \/ (\E k \in Keys : Request(k)) \/ \E content \in {Foreign, Absent} : ChangeTarget(content)
       PROVE  SwapTypeOK'
  BY SMTT(30), <1>13, <1>a, <1>b, RecordTypes DEF Killed, Request, ChangeTarget, SwapTypeOK, Steps
<1>14. CASE UNCHANGED swapVars
  BY Zenon, <1>14 DEF swapVars, SwapTypeOK
<1> QED
  BY Zenon, <1>1, <1>2, <1>3, <1>4, <1>5, <1>6, <1>7, <1>8, <1>9, <1>10, <1>11, <1>12, <1>13, <1>14 DEF SwapNext, Sync

-----------------------------------------------------------------------------
(* The inductive invariant *)

LEMMA CopiedNext == SwapTypeOK /\ Copied /\ [SwapNext]_swapVars => Copied'
<1> SUFFICES ASSUME SwapTypeOK, Copied, [SwapNext]_swapVars PROVE Copied'
  BY Zenon
<1> USE FileSwapAssumption DEF Recovering, Applying
<1>a. /\ marker \in Markers /\ op \in Ops /\ op.rec \in Markers /\ want \in Keys \cup {Unset} /\ step \in Steps
  BY Zenon DEF SwapTypeOK, Ops
<1>b. step' = "idle" /\ marker' = marker => Copied'
  BY Zenon DEF Copied
<1>1. CASE Begin
  <2>1. /\ step' = IF marker.state = "swapping" THEN "recover" ELSE "inspect"
        /\ op'.key = want /\ op'.rec = marker /\ want \in Keys /\ marker' = marker
        /\ marker.state = "none" \/ marker.mig = want[1]
    BY ZenonT(40), <1>1, <1>a DEF Begin
  <2> QED
    BY ZenonT(40), <2>1 DEF Copied
<1>2. CASE RecoverTarget
  BY ZenonT(40), <1>2, <1>b DEF RecoverTarget, Copied, Fail, Goto
<1>3. CASE RemoveFiles
  BY ZenonT(40), <1>3 DEF RemoveFiles, Copied, Goto
<1>4. CASE RenameNew
  BY Zenon, <1>4 DEF RenameNew, Copied, Goto
<1>5. ASSUME NEW ok \in BOOLEAN, RemoveDone(ok) PROVE Copied'
  <2>1. /\ marker' = marker /\ step \in RemovesApply \cup RemovesBackup
        /\ step' = "idle" \/ (step' = AfterRemoval(step) /\ op' = op /\ step \notin {"c_apply", "u_backup"})
    BY Zenon, <1>5 DEF RemoveDone, Fail, Succeed, Goto
  <2>2. CASE step' = "idle"
    BY Zenon, <1>b, <2>1, <2>2
  <2>3. CASE step' # "idle"
    <3>1. step \in {"r_backup", "r_apply", "s_apply", "s_backup"} /\ step' \in {"r_apply", "r_mark", "s_backup", "s_mark"}
      BY Zenon, <2>1, <2>3 DEF AfterRemoval, RemovesApply, RemovesBackup
    <3> QED
      BY Zenon, <2>1, <2>3, <3>1 DEF Copied
  <2> QED
    BY Zenon, <2>2, <2>3
<1>6. ASSUME NEW ok \in BOOLEAN, RecoverRename(ok) PROVE Copied'
  <2>1. marker' = marker /\ step = "recover" /\ (step' = "idle" \/ (step' \in {"recover", "s_mark"} /\ op' = op))
    BY Zenon, <1>6 DEF RecoverRename, Fail, Goto
  <2> QED
    BY Zenon, <2>1, <1>b DEF Copied
<1>7. ASSUME NEW ok \in BOOLEAN, RecoverMark(ok) PROVE Copied'
  <2> DEFINE act == IF step = "r_mark" THEN op.rec.pending ELSE op.rec.active
             rec == Settled(op.rec, act)
  <2>0. act \in Versions \cup {Empty, Unset}
    BY Zenon, <1>a DEF Markers
  <2>1. rec.state = "active" /\ rec.mig = op.rec.mig
    <3> HIDE DEF act
    <3> QED
      BY Zenon, <1>a, <2>0, RecordTypes
  <2>2. /\ step \in {"r_mark", "s_mark"}
        /\ \/ step' = "idle" /\ marker' = marker
           \/ step' = "inspect" /\ op' = [op EXCEPT !.rec = rec] /\ marker' = rec
    BY Zenon, <1>7 DEF RecoverMark, Fail, Write
  <2> HIDE DEF rec
  <2>3. CASE step' = "idle"
    BY Zenon, <1>b, <2>2, <2>3
  <2>4. CASE step' = "inspect"
    <3>1. op'.rec = rec /\ op'.key = op.key /\ marker' = rec
      BY Zenon, <2>2, <2>4, <1>a DEF Ops
    <3> QED
      BY Zenon, <2>1, <2>2, <2>4, <3>1 DEF Copied
  <2> QED
    BY Zenon, <2>2, <2>3, <2>4
<1>8. ASSUME NEW ok \in BOOLEAN, Inspect(ok) PROVE Copied'
  <2>1. /\ step = "inspect" /\ marker' = marker
        /\ step' = "idle" \/ (step' = "copy" /\ op' = [op EXCEPT !.exists = (target # Absent)])
    BY Zenon, <1>8 DEF Inspect, Fail, Succeed
  <2>2. step' = "idle" \/ (step' = "copy" /\ op'.rec = op.rec /\ op'.key = op.key)
    BY Zenon, <2>1, <1>a DEF Ops
  <2> QED
    BY Zenon, <2>1, <2>2, <1>b DEF Copied
<1>9. ASSUME NEW ok \in BOOLEAN, Copy(ok) \/ VerifyCopy(ok) PROVE Copied'
  BY Zenon, <1>9 DEF Copy, VerifyCopy, Copied, Goto
<1>10. ASSUME NEW ok \in BOOLEAN, MarkSwapping(ok) PROVE Copied'
  <2> DEFINE act == IF Owned THEN op.rec.active ELSE IF op.exists THEN Empty ELSE Unset
             rec == [mig |-> op.key[1], state |-> "swapping", pending |-> op.key[2], active |-> act]
  <2>1. /\ step = "mark" /\ marker' = (IF ok THEN rec ELSE marker) /\ step' = (IF ok THEN "old" ELSE "c_apply")
        /\ op' = [op EXCEPT !.rec = rec]
    BY Zenon, <1>10 DEF MarkSwapping, Write
  <2>2. op'.key = op.key /\ op'.rec = rec
    BY Zenon, <2>1, <1>a DEF Ops
  <2>3. rec.mig = op.key[1] /\ rec.pending = op.key[2] /\ rec.state = "swapping"
    BY Zenon
  <2>4. op.key \in Keys /\ op.key[1] \in Migrations /\ op.key[2] \in Versions
    BY Zenon, <2>1 DEF Copied, Keys
  <2> HIDE DEF rec
  <2> QED
    BY Zenon, <2>1, <2>2, <2>3, <2>4 DEF Copied
<1>11. ASSUME NEW ok \in BOOLEAN, RenameOld(ok) \/ RenameNewFails(ok) PROVE Copied'
  BY ZenonT(40), <1>11, <1>b DEF RenameOld, RenameNewFails, Copied, Goto, Fail
<1>12. ASSUME NEW ok \in BOOLEAN, MarkActive(ok) PROVE Copied'
  <2> DEFINE rec == Settled(op.rec, op.key[2])
  <2>1. /\ step = "active" /\ marker' = (IF ok THEN rec ELSE marker)
        /\ step' = "idle" \/ (ok /\ step' = "u_backup" /\ op' = op)
    BY Zenon, <1>12 DEF MarkActive, Write, Fail, Succeed, Goto
  <2>2. op.key \in Keys /\ op.key[2] \in Versions /\ op.rec.mig = op.key[1]
    BY Zenon, <2>1 DEF Copied, Keys
  <2>3. rec.state = "active" /\ rec.active = op.key[2] /\ rec.mig = op.key[1]
    BY SMTT(30), <2>2, <1>a, RecordTypes
  <2> HIDE DEF rec
  <2> QED
    BY Zenon, <2>1, <2>2, <2>3, <1>b DEF Copied
<1>13. ASSUME \/ Killed \/ (\E k \in Keys : Request(k)) \/ \E content \in {Foreign, Absent} : ChangeTarget(content)
       PROVE  Copied'
  BY Zenon, <1>13, <1>b DEF Killed, Request, ChangeTarget
<1>14. CASE UNCHANGED swapVars
  BY Zenon, <1>14 DEF swapVars, Copied
<1> QED
  BY Zenon, <1>1, <1>2, <1>3, <1>4, <1>5, <1>6, <1>7, <1>8, <1>9, <1>10, <1>11, <1>12, <1>13, <1>14 DEF SwapNext, Sync


LEMMA PlacedNext == SwapTypeOK /\ Copied /\ Placed /\ [SwapNext]_swapVars => Placed'
<1> SUFFICES ASSUME SwapTypeOK, Copied, Placed, [SwapNext]_swapVars PROVE Placed'
  BY Zenon
<1> USE FileSwapAssumption
<1>a. /\ marker \in Markers /\ op \in Ops /\ apply \in [Keys -> Contents] /\ backup \in [Keys -> Contents]
      /\ target \in Contents
  BY Zenon DEF SwapTypeOK
<1>b. step' \in {"idle", "recover", "inspect", "s_mark", "c_apply"} => Placed'
  BY Zenon DEF Placed
<1>c. marker.active \in Versions \cup {Empty, Unset} /\ Absent \notin Versions \cup {Empty, Unset}
  BY Zenon, <1>a DEF Markers, Trees
<1>1. CASE Begin
  BY Zenon, <1>1, <1>b DEF Begin
<1>2. CASE RecoverTarget
  <2>1. /\ step = "recover" /\ UNCHANGED <<target, marker>>
        /\ \/ step' = "r_backup" /\ target = op.rec.pending
           \/ step' = "s_apply" /\ target = op.rec.active
           \/ step' = "idle"
    BY ZenonT(40), <1>2 DEF RecoverTarget, Fail, Goto
  <2>2. op.rec = marker
    BY ZenonT(40), <2>1 DEF Copied, Recovering
  <2> QED
    BY Zenon, <2>1, <2>2 DEF Placed
<1>3. CASE RemoveFiles
  BY ZenonT(40), <1>3 DEF RemoveFiles, Goto, Placed, RemovesApply, RemovesBackup
<1>4. CASE RenameNew
  BY ZenonT(40), <1>4 DEF RenameNew, Goto, Placed
<1>5. ASSUME NEW ok \in BOOLEAN, RemoveDone(ok) PROVE Placed'
  <2>1. /\ UNCHANGED <<target, marker>> /\ step \in RemovesApply \cup RemovesBackup
        /\ step' = "idle" \/ (step' = AfterRemoval(step) /\ op' = op /\ step \notin {"c_apply", "u_backup"})
    BY Zenon, <1>5 DEF RemoveDone, Fail, Succeed, Goto
  <2>2. \/ step' \in {"idle", "s_mark"}
        \/ step \in {"r_backup", "r_apply"} /\ step' \in {"r_apply", "r_mark"}
        \/ step = "s_apply" /\ step' = "s_backup"
    BY Zenon, <2>1 DEF AfterRemoval, RemovesApply, RemovesBackup
  <2> QED
    BY ZenonT(40), <2>1, <2>2, <1>b DEF Placed
<1>6. ASSUME NEW ok \in BOOLEAN, RecoverRename(ok) \/ RecoverMark(ok) PROVE Placed'
  BY Zenon, <1>6, <1>b DEF RecoverRename, RecoverMark, Fail, Goto
<1>7. ASSUME NEW ok \in BOOLEAN, Inspect(ok) PROVE Placed'
  <2> DEFINE there == (target # Absent)
  <2>1. there \in BOOLEAN
    BY Zenon
  <2>2. /\ step = "inspect" /\ UNCHANGED <<target, marker>>
        /\ \/ step' = "idle"
           \/ step' = "copy" /\ op' = [op EXCEPT !.exists = there] /\ InLineage
    BY Zenon, <1>7 DEF Inspect, Fail, Succeed
  <2>3. CASE step' = "copy"
    <3>1. op.rec = marker
      BY Zenon, <2>2 DEF Copied, Applying
    <3>2. op'.exists = there
      <4> HIDE DEF there
      <4> QED
        BY Zenon, <2>2, <2>3, <1>a DEF Ops
    <3>3. target = IF marker.state = "none" THEN (IF there THEN Empty ELSE Absent)
                   ELSE IF marker.active = Unset THEN Absent ELSE marker.active
      BY Zenon, <2>2, <2>3, <3>1 DEF InLineage, Owned
    <3> QED
      BY Zenon, <2>2, <2>3, <3>2, <3>3 DEF Placed
  <2> QED
    BY Zenon, <2>2, <2>3, <1>b
<1>8. ASSUME NEW ok \in BOOLEAN, Copy(ok) \/ VerifyCopy(ok) PROVE Placed'
  <2>1. /\ UNCHANGED <<target, marker, op>> /\ step \in {"copy", "verify"}
        /\ \/ step' = "c_apply"
           \/ step' = "verify"
           \/ step' = "mark" /\ apply' = [apply EXCEPT ![op.key] = op.key[2]]
    BY ZenonT(40), <1>8 DEF Copy, VerifyCopy, Goto
  <2>2. op.key \in Keys
    BY Zenon, <2>1 DEF Copied
  <2> QED
    BY ZenonT(40), <2>1, <2>2, <1>a DEF Placed
<1>9. ASSUME NEW ok \in BOOLEAN, MarkSwapping(ok) PROVE Placed'
  <2> DEFINE act == IF Owned THEN op.rec.active ELSE IF op.exists THEN Empty ELSE Unset
             rec == [mig |-> op.key[1], state |-> "swapping", pending |-> op.key[2], active |-> act]
  <2>1. /\ step = "mark" /\ UNCHANGED <<target, apply, backup>>
        /\ step' = "c_apply" \/ (step' = "old" /\ marker' = rec /\ op' = [op EXCEPT !.rec = rec])
    BY Zenon, <1>9 DEF MarkSwapping, Write
  <2>2. CASE step' = "old"
    <3>1. op'.key = op.key /\ op'.exists = op.exists
      BY Zenon, <2>1, <2>2, <1>a DEF Ops
    <3>2. marker'.active = act
      BY <2>1, <2>2
    <3>3. op.rec = marker
      BY Zenon, <2>1 DEF Copied, Applying
    <3>4. /\ op.exists = (target # Absent)
          /\ target = IF marker.state = "none" THEN (IF op.exists THEN Empty ELSE Absent)
                      ELSE IF marker.active = Unset THEN Absent ELSE marker.active
      BY Zenon, <2>1 DEF Placed
    <3>5. target = IF act = Unset THEN Absent ELSE act
      BY Zenon, <3>3, <3>4 DEF Owned
    <3> HIDE DEF act
    <3> QED
      BY ZenonT(40), <2>1, <2>2, <3>1, <3>2, <3>4, <3>5 DEF Placed
  <2> QED
    BY Zenon, <2>1, <2>2, <1>b
<1>10. ASSUME NEW ok \in BOOLEAN, RenameOld(ok) PROVE Placed'
  <2>1. /\ step = "old" /\ UNCHANGED <<apply, marker>>
        /\ \/ step' = "idle"
           \/ /\ step' = "new" /\ op' = op
              /\ IF op.exists THEN backup' = [backup EXCEPT ![op.key] = target] /\ target' = Absent
                 ELSE UNCHANGED <<backup, target>>
    BY Zenon, <1>10 DEF RenameOld, Goto, Fail
  <2>2. op.key \in Keys
    BY ZenonT(40), <2>1 DEF Copied
  <2>3. op.exists = (target # Absent) /\ target = (IF marker.active = Unset THEN Absent ELSE marker.active)
    BY ZenonT(40), <2>1 DEF Placed
  <2>4. op.exists <=> marker.active # Unset
    BY Zenon, <1>c, <2>3
  <2> QED
    BY ZenonT(40), <2>1, <2>2, <2>3, <2>4, <1>a, <1>b DEF Placed
<1>11. ASSUME NEW ok \in BOOLEAN, RenameNewFails(ok) PROVE Placed'
  BY Zenon, <1>11, <1>b DEF RenameNewFails, Fail
<1>12. ASSUME NEW ok \in BOOLEAN, MarkActive(ok) PROVE Placed'
  BY ZenonT(40), <1>12, <1>b DEF MarkActive, Write, Fail, Succeed, Goto, Placed
<1>13. ASSUME \/ Killed \/ (\E k \in Keys : Request(k)) \/ \E content \in {Foreign, Absent} : ChangeTarget(content)
       PROVE  Placed'
  BY Zenon, <1>13, <1>b DEF Killed, Request, ChangeTarget
<1>14. CASE UNCHANGED swapVars
  BY ZenonT(40), <1>14 DEF swapVars, Placed
<1> QED
  BY Zenon, <1>1, <1>2, <1>3, <1>4, <1>5, <1>6, <1>7, <1>8, <1>9, <1>10, <1>11, <1>12, <1>13, <1>14 DEF SwapNext, Sync

LEMMA SafeNext == SwapTypeOK /\ SwapInv /\ [SwapNext]_swapVars => Safe'
<1> SUFFICES ASSUME SwapTypeOK, Copied, Placed, Safe, [SwapNext]_swapVars PROVE Safe'
  BY Zenon DEF SwapInv
<1> USE FileSwapAssumption
<1>a. /\ marker \in Markers /\ op \in Ops /\ apply \in [Keys -> Contents] /\ backup \in [Keys -> Contents]
      /\ changes \in Nat
  BY Zenon DEF SwapTypeOK
<1>c. /\ marker.active \in Versions \cup {Empty, Unset} /\ marker.pending \in Versions \cup {Unset}
      /\ Absent \notin Versions \cup {Empty, Unset}
  BY Zenon, <1>a DEF Markers, Trees
<1>d. UNCHANGED <<target, marker, apply, backup, changes>> /\ step' # "s_mark" => Safe'
  BY Zenon DEF Safe, MarkerKey
<1>1. CASE Begin
  BY ZenonT(40), <1>1, <1>d DEF Begin, Environment
<1>2. CASE RecoverTarget
  BY ZenonT(40), <1>2, <1>d DEF RecoverTarget, Fail, Goto, Environment
<1>3. ASSUME RemoveFiles \/ \E ok \in BOOLEAN : RemoveDone(ok) PROVE Safe'
  <2>1. /\ UNCHANGED <<target, marker, changes>> /\ step \in RemovesApply \cup RemovesBackup
        /\ step' = "s_mark" => step = "s_backup"
    BY Zenon, <1>3 DEF RemoveFiles, RemoveDone, Fail, Succeed, Goto, Environment, AfterRemoval, RemovesApply, RemovesBackup
  <2>2. marker.state = "swapping" => target \in {marker.pending, marker.active}
    BY ZenonT(40), <2>1 DEF Copied, Placed, RemovesApply, RemovesBackup
  <2>3. step = "s_backup" => target = marker.active
    BY ZenonT(40) DEF Placed
  <2> QED
    BY Zenon, <2>1, <2>2, <2>3 DEF Safe
<1>4. CASE RenameNew
  <2>1. /\ step = "new" /\ target' = apply[op.key] /\ step' = "active" /\ UNCHANGED <<marker, changes>>
    BY Zenon, <1>4 DEF RenameNew, Goto, Environment
  <2>2. target' = marker.pending /\ marker.state = "swapping"
    BY ZenonT(40), <2>1 DEF Copied, Placed
  <2> QED
    BY Zenon, <2>1, <2>2 DEF Safe
<1>5. ASSUME NEW ok \in BOOLEAN, RecoverRename(ok) PROVE Safe'
  <2> SUFFICES ASSUME changes' = 0 PROVE Safe'
    BY Zenon DEF Safe
  <2>1. step = "recover" /\ target = Absent /\ UNCHANGED <<marker, changes>>
    BY Zenon, <1>5 DEF RecoverRename, Environment
  <2>2. marker.state = "swapping" /\ op.rec = marker /\ Swap = MarkerKey /\ marker.pending \in Versions
    BY ZenonT(40), <2>1 DEF Copied, Recovering, Swap, MarkerKey
  <2>3. apply[MarkerKey] = marker.pending /\ apply[MarkerKey] # Absent
    BY Zenon, <2>1, <2>2, <1>c DEF Safe
  <2>4. \/ UNCHANGED <<target, apply, backup>> /\ step' = "idle"
        \/ target' = marker.pending /\ step' = "recover"
    BY Zenon, <1>5, <2>2, <2>3 DEF RecoverRename, Fail, Goto
  <2> QED
    BY ZenonT(40), <2>1, <2>2, <2>4, <1>d DEF Safe
<1>6. ASSUME NEW ok \in BOOLEAN, RecoverMark(ok) PROVE Safe'
  <2> DEFINE act == IF step = "r_mark" THEN op.rec.pending ELSE op.rec.active
             rec == Settled(op.rec, act)
  <2>1. /\ step \in {"r_mark", "s_mark"} /\ UNCHANGED <<target, apply, backup, changes>>
        /\ \/ step' = "idle" /\ marker' = marker
           \/ step' = "inspect" /\ marker' = rec
    BY Zenon, <1>6 DEF RecoverMark, Write, Fail, Environment
  <2>2. op.rec = marker
    BY Zenon, <2>1 DEF Copied, Recovering
  <2>3. changes = 0 => target = act
    BY ZenonT(40), <2>1, <2>2 DEF Safe, Placed
  <2>4. act \in Versions \cup {Empty, Unset}
    BY Zenon, <2>2, <1>c
  <2> HIDE DEF act
  <2>5. rec.state = "active" /\ rec.active = act
    BY Zenon, <2>2, <2>4, <1>a, RecordTypes
  <2> HIDE DEF rec
  <2> QED
    BY Zenon, <2>1, <2>3, <2>5, <1>d DEF Safe
<1>7. ASSUME NEW ok \in BOOLEAN, Inspect(ok) PROVE Safe'
  BY Zenon, <1>7, <1>d DEF Inspect, Fail, Succeed, Environment
<1>8. ASSUME NEW ok \in BOOLEAN, Copy(ok) \/ VerifyCopy(ok) PROVE Safe'
  <2>1. UNCHANGED <<target, marker, changes>> /\ step \in {"copy", "verify"} /\ step' # "s_mark"
    BY ZenonT(40), <1>8 DEF Copy, VerifyCopy, Goto, Environment
  <2> QED
    BY Zenon, <2>1 DEF Safe, Copied
<1>9. ASSUME NEW ok \in BOOLEAN, MarkSwapping(ok) PROVE Safe'
  <2> DEFINE act == IF Owned THEN op.rec.active ELSE IF op.exists THEN Empty ELSE Unset
             rec == [mig |-> op.key[1], state |-> "swapping", pending |-> op.key[2], active |-> act]
  <2>1. /\ step = "mark" /\ UNCHANGED <<target, apply, backup, changes>>
        /\ (step' = "c_apply" /\ marker' = marker) \/ (step' = "old" /\ marker' = rec)
    BY Zenon, <1>9 DEF MarkSwapping, Write, Environment
  <2>2. CASE step' = "old"
    <3>1. marker'.active = act /\ marker'.state = "swapping" /\ MarkerKey' = op.key /\ marker'.pending = op.key[2]
      BY SMTT(30), <2>1, <2>2 DEF MarkerKey, Copied, Keys
    <3>2. /\ op.rec = marker /\ apply[op.key] = op.key[2]
          /\ target = IF marker.state = "none" THEN (IF op.exists THEN Empty ELSE Absent)
                      ELSE IF marker.active = Unset THEN Absent ELSE marker.active
      BY Zenon, <2>1 DEF Copied, Applying, Placed
    <3>3. target = IF act = Unset THEN Absent ELSE act
      BY Zenon, <3>2 DEF Owned
    <3> HIDE DEF act
    <3> QED
      BY ZenonT(40), <2>1, <2>2, <3>1, <3>2, <3>3 DEF Safe
  <2> QED
    BY Zenon, <2>1, <2>2, <1>d
<1>10. ASSUME NEW ok \in BOOLEAN, RenameOld(ok) \/ RenameNewFails(ok) PROVE Safe'
  <2>1. /\ step \in {"old", "new"} /\ UNCHANGED <<apply, marker, changes>> /\ step' # "s_mark"
        /\ \/ UNCHANGED <<target, backup>>
           \/ step = "old" /\ op.exists /\ backup' = [backup EXCEPT ![op.key] = target] /\ target' = Absent
           \/ step = "new" /\ op.exists /\ target' = backup[op.key]
    BY Zenon, <1>10 DEF RenameOld, RenameNewFails, Fail, Goto, Environment
  <2>2. op.key \in Keys /\ MarkerKey = op.key /\ marker.state = "swapping" /\ marker.pending = op.key[2]
    BY SMTT(30), <2>1 DEF Copied, MarkerKey, Keys, Applying
  <2>3. apply[op.key] = marker.pending /\ (step = "new" /\ op.exists => backup[op.key] = marker.active)
        /\ (step = "old" => target = IF marker.active = Unset THEN Absent ELSE marker.active)
        /\ (step = "old" => op.exists = (target # Absent))
    BY ZenonT(40), <2>1, <2>2 DEF Placed
  <2> QED
    BY ZenonT(40), <2>1, <2>2, <2>3, <1>a DEF Safe, MarkerKey
<1>11. ASSUME NEW ok \in BOOLEAN, MarkActive(ok) PROVE Safe'
  <2> DEFINE rec == Settled(op.rec, op.key[2])
  <2>1. /\ step = "active" /\ UNCHANGED <<target, apply, backup, changes>> /\ step' # "s_mark"
        /\ marker' = marker \/ marker' = rec
    BY ZenonT(40), <1>11 DEF MarkActive, Write, Fail, Succeed, Goto, Environment
  <2>2. op.key[2] \in Versions /\ op.rec = marker /\ target = op.key[2]
    BY ZenonT(40), <2>1 DEF Copied, Keys, Applying, Placed
  <2>3. rec.state = "active" /\ rec.active = op.key[2]
    BY SMTT(30), <2>2, <1>a, RecordTypes
  <2> HIDE DEF rec
  <2> QED
    BY ZenonT(40), <2>1, <2>2, <2>3, <1>d DEF Safe
<1>12. ASSUME \/ Killed \/ (\E k \in Keys : Request(k)) \/ \E content \in {Foreign, Absent} : ChangeTarget(content)
       PROVE  Safe'
  <2>1. \/ UNCHANGED <<target, marker, apply, backup, changes>> /\ step' # "s_mark"
        \/ changes' = changes + 1
    BY Zenon, <1>12 DEF Killed, Request, ChangeTarget
  <2>2. changes' = changes + 1 => changes' # 0
    BY SMTT(30), <1>a
  <2> QED
    BY Zenon, <2>1, <2>2, <1>d DEF Safe
<1>13. CASE UNCHANGED swapVars
  BY Zenon, <1>13 DEF swapVars, Safe, MarkerKey
<1> QED
  BY Zenon, <1>1, <1>2, <1>3, <1>4, <1>5, <1>6, <1>7, <1>8, <1>9, <1>10, <1>11, <1>12, <1>13 DEF SwapNext, Sync

LEMMA SwapInvariant == SwapSpec => [](SwapTypeOK /\ SwapInv)
<1>1. ASSUME SwapInit PROVE SwapTypeOK /\ SwapInv
  <2>1. SwapTypeOK
    BY Zenon, <1>1, FileSwapAssumption, RecordTypes DEF SwapInit, SwapTypeOK, Contents, Trees, Steps
  <2>2. marker.state = "none" /\ step = "idle"
    BY Zenon, <1>1 DEF SwapInit, NoMarker
  <2> QED
    BY ZenonT(40), <2>1, <2>2 DEF SwapInv, Copied, Placed, Safe, Recovering, Applying
<1>2. SwapTypeOK /\ SwapInv /\ [SwapNext]_swapVars => (SwapTypeOK /\ SwapInv)'
  BY Zenon, SwapTypeNext, CopiedNext, PlacedNext, SafeNext DEF SwapInv
<1> QED
  BY <1>1, <1>2, PTL DEF SwapSpec

-----------------------------------------------------------------------------
(* The theorems *)

\* Every reachable state of the swap is well typed; in particular the marker of
\* an unfinished swap always names a migration and a tree.
THEOREM SwapTypeCorrect == SwapSpec => []SwapTypeOK
BY SwapInvariant, PTL

\* Whatever fails and wherever the agent crashes, the tree the marker calls
\* active is in the target or, during a swap, kept in the backup.
THEOREM TreeKeptHolds == SwapSpec => []TreeKept
<1>1. SwapInv => TreeKept
  BY Zenon DEF SwapInv, Safe, TreeKept, MarkerKey
<1> QED
  BY <1>1, SwapInvariant, PTL

\* No step of a sync replaces or removes what somebody else has written to the
\* target.
THEOREM ForeignKeptHolds == SwapSpec => ForeignKept
<1>1. ASSUME SwapTypeOK, SwapInv, [SwapNext]_swapVars, target = Foreign, changes' = changes PROVE target' = Foreign
  <2> USE FileSwapAssumption
  <2>a. marker.active \in Versions \cup {Empty, Unset} /\ Foreign \notin Versions \cup {Empty, Absent} /\ changes \in Nat
    BY Zenon, <1>1 DEF SwapTypeOK, Markers, Trees, Contents
  <2>1. step = "old" => op.exists = FALSE \/ target # Foreign
    BY Zenon, <1>1, <2>a DEF SwapInv, Placed
  <2>2. step = "new" => target = Absent
    BY Zenon, <1>1 DEF SwapInv, Placed
  <2>3. CASE Begin \/ RecoverTarget \/ RemoveFiles \/ RenameNew \/ Killed
    BY Zenon, <1>1, <2>a, <2>2, <2>3 DEF Begin, RecoverTarget, RemoveFiles, RenameNew, Killed
  <2>4. CASE \E ok \in BOOLEAN : \/ RemoveDone(ok) \/ RecoverRename(ok) \/ RecoverMark(ok) \/ Inspect(ok)
                                 \/ Copy(ok) \/ VerifyCopy(ok) \/ MarkSwapping(ok)
    BY Zenon, <1>1, <2>a, <2>4 DEF RemoveDone, RecoverRename, RecoverMark, Inspect, Copy, VerifyCopy, MarkSwapping, Write
  <2>5. CASE \E ok \in BOOLEAN : RenameOld(ok) \/ RenameNewFails(ok) \/ MarkActive(ok)
    BY Zenon, <1>1, <2>a, <2>1, <2>2, <2>5 DEF RenameOld, RenameNewFails, MarkActive, Write
  <2>6. CASE \E k \in Keys : Request(k)
    BY Zenon, <1>1, <2>6 DEF Request
  <2>7. CASE \E content \in {Foreign, Absent} : ChangeTarget(content)
    BY SMTT(30), <1>1, <2>a, <2>7 DEF ChangeTarget
  <2>8. CASE UNCHANGED swapVars
    BY Zenon, <1>1, <2>8 DEF swapVars
  <2> QED
    BY Zenon, <1>1, <2>3, <2>4, <2>5, <2>6, <2>7, <2>8 DEF SwapNext, Sync
<1>2. SwapTypeOK /\ SwapInv /\ [SwapNext]_swapVars => [target = Foreign /\ changes' = changes => target' = Foreign]_swapVars
  BY Zenon, <1>1
<1> QED
  BY <1>2, SwapInvariant, PTL DEF SwapSpec, ForeignKept

\* A sync that succeeds, also as a replay, leaves the tree it was asked for in
\* the target and on record.
THEOREM SyncedWhenDoneHolds == SwapSpec => SyncedWhenDone
<1> DEFINE Synced == /\ target' = done'[2] /\ marker'.state = "active"
                     /\ marker'.active = done'[2] /\ marker'.mig = done'[1]
<1>1. ASSUME SwapTypeOK, SwapInv, [SwapNext]_swapVars, done' # done, done' # Unset PROVE Synced
  <2> USE FileSwapAssumption
  <2>a. marker \in Markers /\ op.rec \in Markers
    BY Zenon, <1>1 DEF SwapTypeOK, Ops
  <2>b. Copied /\ Placed
    BY Zenon, <1>1 DEF SwapInv
  <2>1. CASE \E ok \in BOOLEAN : RemoveDone(ok)
    <3>1. step = "u_backup" /\ done' = op.key /\ UNCHANGED <<target, marker>>
      BY ZenonT(40), <1>1, <2>1 DEF RemoveDone, Fail, Succeed, Goto
    <3> QED
      BY ZenonT(40), <3>1, <2>b DEF Copied, Placed
  <2>2. CASE \E ok \in BOOLEAN : Inspect(ok)
    <3>1. /\ step = "inspect" /\ done' = op.key /\ UNCHANGED <<target, marker>>
          /\ InLineage /\ target # Absent /\ Owned /\ op.rec.active = op.key[2]
      BY Zenon, <1>1, <2>2 DEF Inspect, Fail, Succeed
    <3>2. op.rec = marker /\ marker.state # "swapping" /\ (marker.state = "none" \/ marker.mig = op.key[1])
          /\ marker.state \in {"none", "swapping", "active"}
      BY Zenon, <3>1, <2>a, <2>b DEF Copied, Applying, Markers
    <3> QED
      BY Zenon, <3>1, <3>2 DEF InLineage, Owned
  <2>3. CASE \E ok \in BOOLEAN : MarkActive(ok)
    <3> DEFINE rec == Settled(op.rec, op.key[2])
    <3>1. step = "active" /\ done' = op.key /\ target' = target /\ marker' = rec
      BY Zenon, <1>1, <2>3 DEF MarkActive, Write, Fail, Succeed, Goto
    <3>2. op.key[2] \in Versions /\ target = op.key[2] /\ op.rec.mig = op.key[1]
      BY ZenonT(40), <3>1, <2>b DEF Copied, Placed, Keys, Applying
    <3>3. rec.state = "active" /\ rec.active = op.key[2] /\ rec.mig = op.key[1]
      BY SMTT(30), <3>2, <2>a, RecordTypes
    <3> HIDE DEF rec
    <3> QED
      BY Zenon, <3>1, <3>2, <3>3
  <2>4. CASE \/ Begin \/ RecoverTarget \/ RemoveFiles \/ RenameNew \/ Killed \/ (\E k \in Keys : Request(k))
             \/ (\E content \in {Foreign, Absent} : ChangeTarget(content)) \/ UNCHANGED swapVars
    BY Zenon, <1>1, <2>4 DEF Begin, RecoverTarget, RemoveFiles, RenameNew, Killed, Request, ChangeTarget, swapVars, Goto, Fail
  <2>5. CASE \E ok \in BOOLEAN : \/ RecoverRename(ok) \/ RecoverMark(ok) \/ Copy(ok) \/ VerifyCopy(ok)
                                 \/ MarkSwapping(ok) \/ RenameOld(ok) \/ RenameNewFails(ok)
    BY ZenonT(40), <1>1, <2>5 DEF RecoverRename, RecoverMark, Copy, VerifyCopy, MarkSwapping, RenameOld, RenameNewFails, Goto, Fail
  <2> QED
    BY ZenonT(40), <1>1, <2>1, <2>2, <2>3, <2>4, <2>5 DEF SwapNext, Sync
<1>2. SwapTypeOK /\ SwapInv /\ [SwapNext]_swapVars => [done' # done /\ done' # Unset => Synced]_swapVars
  BY Zenon, <1>1
<1> QED
  BY <1>2, SwapInvariant, PTL DEF SwapSpec, SyncedWhenDone

=============================================================================
