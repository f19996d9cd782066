-------------------------- MODULE WriterFenceProofs --------------------------
(***************************************************************************)
(* Proofs about WriterFence for any migrations, services, requests, faults *)
(* and bounds.  The inductive invariant says what the holder of            *)
(* writerFenceMu may rely on at each of its steps although memory, state   *)
(* file and markers change without it.                                     *)
(***************************************************************************)
EXTENDS WriterFence, TLAPS

-----------------------------------------------------------------------------
(* Part 1: types, and what the records and locals that the actions build look like *)

LEMMA BasicTypes ==
  /\ NoFence \in Fence
  /\ NoOp \in Op
  /\ [m \in Migrations |-> NoFence] \in [Migrations -> Fence]
BY Zenon DEF NoFence, NoOp, Fence, Op, Phases

LEMMA LoadType == ASSUME NEW f \in [Migrations -> Fence] PROVE Load(f) \in [Migrations -> Fence]
BY ZenonT(40) DEF Load, Fence, Phases

LEMMA BumpType ==
  ASSUME NEW f \in Fence, NEW v \in BOOLEAN, NEW w \in BOOLEAN
  PROVE  /\ Bump(f, v, w) \in Fence
         /\ Bump(f, v, w).active = f.active /\ Bump(f, v, w).phase = f.phase
         /\ Bump(f, v, w).services = f.services
<1> DEFINE i == f.viol + (IF v THEN 1 ELSE 0)
           j == f.wderr + (IF w THEN 1 ELSE 0)
<1>1. i \in Nat /\ j \in Nat
  BY DEF Fence
<1>2. Bump(f, v, w) = [f EXCEPT !.viol = i, !.wderr = j]
  BY Zenon DEF Bump
<1> HIDE DEF i, j
<1> QED
  BY Zenon, <1>1, <1>2 DEF Fence

\* the records the actions build
LEMMA InPhaseType ==
  ASSUME NEW f \in Fence, NEW p \in Phases
  PROVE  /\ InPhase(f, TRUE, p) \in Fence /\ InPhase(f, FALSE, p) \in Fence
         /\ InPhase(f, TRUE, p).active /\ ~InPhase(f, FALSE, p).active
         /\ InPhase(f, TRUE, p).phase = p /\ InPhase(f, FALSE, p).phase = p
         /\ InPhase(f, TRUE, p).services = f.services /\ InPhase(f, FALSE, p).services = f.services
BY Zenon DEF InPhase, Fence

LEMMA IntentType ==
  ASSUME TypeOK, NEW m \in Migrations, NEW r \in Runs, NEW S \in Scopes
  PROVE  /\ Intent(m, r, S) \in Fence
         /\ Intent(m, r, S).active /\ Intent(m, r, S).phase = "activating"
         /\ Intent(m, r, S).services = S
<1> DEFINE prev == IF mem[m].active THEN mem[m].prev ELSE S \cap running
<1>1. mem[m] \in Fence
  BY Zenon DEF TypeOK
<1>2. prev \in SUBSET Services /\ S \in SUBSET Services
  BY Zenon, <1>1, ConstantsAssumption DEF Fence
<1>3. Intent(m, r, S) = [mem[m] EXCEPT !.active = TRUE, !.phase = "activating", !.run = r,
                                       !.services = S, !.prev = prev]
  BY Zenon DEF Intent
<1> HIDE DEF prev
<1> QED
  BY ZenonT(40), <1>1, <1>2, <1>3 DEF Fence, Phases

LEMMA UnprovenType ==
  ASSUME NEW f \in Fence
  PROVE  /\ Unproven(f) \in Fence
         /\ Unproven(f).active = f.active /\ Unproven(f).phase = "activating"
         /\ Unproven(f).services = f.services
BY Zenon DEF Unproven, Fence, Phases

LEMMA RequestRecordTypes ==
  ASSUME NEW r \in Runs, NEW S \in Scopes
  PROVE  /\ S \in SUBSET Services
         /\ Observed(r, S) \in Fence
         /\ ~Observed(r, S).active /\ Observed(r, S).phase = "released"
         /\ Query(r, S) \in Fence
<1>1. S \in SUBSET Services
  BY Zenon, ConstantsAssumption
<1>2. Observed(r, S) \in Fence /\ ~Observed(r, S).active /\ Observed(r, S).phase = "released"
  BY Zenon, <1>1 DEF Observed, NoFence, Fence, Phases
<1>3. Query(r, S) \in Fence
  BY Zenon, <1>1 DEF Query, NoFence, Fence, Phases
<1> QED
  BY Zenon, <1>1, <1>2, <1>3

LEMMA ExceptType ==
  ASSUME NEW f \in [Migrations -> Fence], NEW m, NEW rec, m \in Migrations => rec \in Fence
  PROVE  [f EXCEPT ![m] = rec] \in [Migrations -> Fence]
BY Zenon

\* the locals a step starts with, and the ones it changes
LEMMA NewOpType ==
  ASSUME NEW m \in Migrations, NEW f \in Fence, NEW T \in SUBSET Services
  PROVE  [NoOp EXCEPT !.m = m, !.todo = T, !.rec = f] \in Op /\ [NoOp EXCEPT !.m = m, !.rec = f] \in Op
BY Zenon DEF NoOp, Op

LEMMA NewPassType ==
  ASSUME NEW P \in SUBSET Migrations, NEW w \in {"request", "reconcile", "resume"}
  PROVE  [NoOp EXCEPT !.who = w, !.pending = P] \in Op
BY Zenon, BasicTypes DEF NoOp, Op

LEMMA TodoType ==
  ASSUME NEW o \in Op, NEW T \in SUBSET Services
  PROVE  [o EXCEPT !.todo = T] \in Op
BY Zenon DEF Op

LEMMA FlagType ==
  ASSUME NEW o \in Op, NEW T \in SUBSET Services, NEW b \in BOOLEAN
  PROVE  /\ [o EXCEPT !.todo = T, !.failed = b] \in Op
         /\ [o EXCEPT !.todo = T, !.wderr = b] \in Op
BY Zenon DEF Op

LEMMA PassType ==
  ASSUME NEW o \in Op, NEW m \in Migrations, NEW f \in Fence, NEW T \in SUBSET Services,
         NEW P \in SUBSET Migrations
  PROVE  /\ [o EXCEPT !.m = m, !.rec = f, !.todo = T, !.pending = P] \in Op
         /\ [o EXCEPT !.m = m, !.rec = f, !.todo = T, !.pending = P, !.violated = FALSE, !.wderr = FALSE] \in Op
BY Zenon DEF Op

LEMMA TypeInit == Init => TypeOK
<1> SUFFICES ASSUME Init PROVE TypeOK
  BY Zenon
<1>1. ASSUME NEW m \in Migrations, NEW r \in Runs, NEW S \in Scopes, NEW prev \in SUBSET Services,
             NEW phase \in {"", "releasing"}
      PROVE  Legacy(m, r, S, prev, phase) \in [Migrations -> Fence]
  <2> DEFINE rec == [NoFence EXCEPT !.active = TRUE, !.phase = phase, !.run = r,
                                    !.services = S, !.prev = prev]
  <2>1. rec \in Fence
    BY Zenon, ConstantsAssumption DEF Fence, NoFence, Phases
  <2> HIDE DEF rec
  <2>2. [Empty EXCEPT ![m] = rec] \in [Migrations -> Fence]
    BY Zenon, <2>1, BasicTypes DEF Empty
  <2> QED
    BY Zenon, <2>2 DEF Legacy, rec
<1>2. disk \in [Migrations -> Fence]
  <2>1. CASE disk = Empty
    BY Zenon, <2>1, BasicTypes DEF Empty
  <2>2. CASE disk # Empty
    <3>1. PICK m \in budget.migrations, r \in Runs, S \in budget.scopes :
            disk \in {Legacy(m, r, S, {}, ""), Legacy(m, r, S, S \cap production, "releasing")}
      BY Zenon, <2>2 DEF Init
    <3>0. m \in Migrations /\ S \in Scopes
      BY Zenon, ConstantsAssumption DEF Init, Budget
    <3>2. S \cap production \in SUBSET Services
      BY Zenon, <3>0, ConstantsAssumption
    <3>3. /\ Legacy(m, r, S, {}, "") \in [Migrations -> Fence]
          /\ Legacy(m, r, S, S \cap production, "releasing") \in [Migrations -> Fence]
      BY Zenon, <1>1, <3>0, <3>2
    <3> QED
      BY Zenon, <3>1, <3>3
  <2> QED
    BY Zenon, <2>1, <2>2
<1> QED
  BY Zenon, <1>2, ConstantsAssumption, BasicTypes DEF Init, TypeOK, Empty, Budget, PCs

\* what an action may do to the environment: nothing, or use up one unit
Spends ==
  \/ UNCHANGED budget
  \/ budget.faults > 0 /\ budget' = [budget EXCEPT !.faults = @ - 1]
  \/ budget.requests > 0 /\ budget' = [budget EXCEPT !.requests = @ - 1]
  \/ budget.restarts > 0 /\ budget' = [budget EXCEPT !.restarts = @ - 1]
  \/ budget.crashes > 0 /\ budget' = [budget EXCEPT !.crashes = @ - 1]
  \/ budget.reboots > 0 /\ budget' = [budget EXCEPT !.reboots = @ - 1]

LEMMA SpendType ==
  ASSUME budget \in Budget, Spends
  PROVE  budget' \in Budget /\ budget'.kinds = budget.kinds /\ budget'.retry = budget.retry
<1> DEFINE f == budget.faults - 1
           q == budget.requests - 1
           r == budget.restarts - 1
           c == budget.crashes - 1
           b == budget.reboots - 1
<1>1. /\ budget.faults > 0 => f \in Nat
      /\ budget.requests > 0 => q \in Nat
      /\ budget.restarts > 0 => r \in Nat
      /\ budget.crashes > 0 => c \in Nat
      /\ budget.reboots > 0 => b \in Nat
  BY DEF Budget
<1>2. \/ UNCHANGED budget
      \/ budget.faults > 0 /\ budget' = [budget EXCEPT !.faults = f]
      \/ budget.requests > 0 /\ budget' = [budget EXCEPT !.requests = q]
      \/ budget.restarts > 0 /\ budget' = [budget EXCEPT !.restarts = r]
      \/ budget.crashes > 0 /\ budget' = [budget EXCEPT !.crashes = c]
      \/ budget.reboots > 0 /\ budget' = [budget EXCEPT !.reboots = b]
  BY Zenon DEF Spends
<1> HIDE DEF f, q, r, c, b
<1> QED
  BY Zenon, <1>1, <1>2 DEF Budget

LEMMA TrySpends == ASSUME NEW kind, NEW ok, Try(kind, ok) PROVE Spends
BY Zenon DEF Try, CanFault, Spends

LEMMA SpendsNext == [Next]_vars => Spends
<1> SUFFICES ASSUME [Next]_vars PROVE Spends
  BY Zenon
<1>1. ASSUME NEW m \in Migrations, NEW r \in Runs, NEW S \in Scopes,
             ActivateBegin(m, r, S) \/ ReleaseBegin(m, r, S) \/ VerifyBegin(m, r, S)
      PROVE  Spends
  BY Zenon, <1>1 DEF ActivateBegin, ReleaseBegin, VerifyBegin, Request, CountRequest, Spends
<1>2. ASSUME NEW m \in Migrations, NEW r \in Runs, NEW S \in Scopes, NEW out \in Outcomes,
             ReleaseUnknown(m, r, S, out) \/ ReleaseAgain(m, r, S, out)
      PROVE  Spends
  BY Zenon, <1>2, TrySpends DEF ReleaseUnknown, ReleaseAgain, Persist
<1>3. ASSUME NEW s \in Services, InstallMarker(s) \/ RemoveMarker(s) PROVE Spends
  BY Zenon, <1>3 DEF InstallMarker, RemoveMarker, Spends
<1>4. ASSUME NEW T \in SUBSET Services, InstallFails(T) \/ RemoveFails(T) PROVE Spends
  BY Zenon, <1>4, TrySpends DEF InstallFails, RemoveFails
<1>5. ASSUME NEW s \in Services, NEW ok \in BOOLEAN, StopService(s, ok) \/ StartService(s, ok) PROVE Spends
  BY Zenon, <1>5, TrySpends DEF StopService, StartService
<1>6. ASSUME NEW known \in BOOLEAN, VerifyStopped(known) \/ VerifyRestarted(known) \/ VerifyPoll(known)
      PROVE  Spends
  BY Zenon, <1>6, TrySpends DEF VerifyStopped, VerifyRestarted, VerifyPoll
<1>7. ASSUME NEW out \in Outcomes,
             \/ PersistIntent(out) \/ CommitActive(out) \/ AuthorizeRelease(out)
             \/ CommitReleased(out) \/ CommitRestored(out) \/ VerifyCommit(out)
      PROVE  Spends
  BY Zenon, <1>7, TrySpends
  DEF PersistIntent, CommitActive, AuthorizeRelease, CommitReleased, CommitRestored, VerifyCommit, Persist, Spends
<1>8. ASSUME NEW m \in Migrations, ReconcileFence(m) \/ ResumeFence(m) PROVE Spends
  BY Zenon, <1>8 DEF ReconcileFence, ResumeFence, Spends
<1>9. ASSUME NEW s \in Services, NEW res \in {"ok", "unknown", "stuck"}, CheckService(s, res) PROVE Spends
  BY Zenon, <1>9, TrySpends DEF CheckService
<1>10. ASSUME NEW known \in BOOLEAN, NEW out \in Outcomes, ReconcileCommit(known, out) PROVE Spends
  BY Zenon, <1>10 DEF ReconcileCommit, CanFault, Spends
<1>11. ASSUME NEW s \in Services, UnitStart(s) \/ UnexpectedRestart(s) PROVE Spends
  BY Zenon, <1>11 DEF UnitStart, UnexpectedRestart, Spends
<1>12. ASSUME Crash \/ Reboot PROVE Spends
  BY Zenon, <1>12 DEF Crash, Reboot, Spends
<1>13. ASSUME \/ ReconcileDone \/ ResumeDone \/ Validate \/ ReconcileBegin \/ ResumeBegin
              \/ Start \/ AcceptPersists \/ UNCHANGED vars
       PROVE  Spends
  BY Zenon, <1>13 DEF ReconcileDone, ResumeDone, Validate, ReconcileBegin, ResumeBegin, Start, AcceptPersists, vars, Spends
<1>14. ASSUME NEW out \in Outcomes, Unavailable(out) PROVE Spends
  BY Zenon, <1>14 DEF Unavailable, CanFault, Spends
<1> QED
  BY Zenon, <1>1, <1>2, <1>3, <1>4, <1>5, <1>6, <1>7, <1>8, <1>9, <1>10, <1>11, <1>12, <1>13, <1>14
  DEF Next, Requests, HolderStep, Environment

LEMMA StopType == ASSUME Stop PROVE /\ status' = "down" /\ watch' = "tick" /\ pc' = "idle" /\ op' = NoOp
                                    /\ mem' \in [Migrations -> Fence] /\ op' \in Op
BY Zenon, BasicTypes DEF Stop, Finish

LEMMA TypeNext == TypeOK /\ [Next]_vars => TypeOK'
<1> SUFFICES ASSUME TypeOK, [Next]_vars PROVE TypeOK'
  BY Zenon
<1>a. /\ op \in Op /\ op.rec \in Fence /\ op.todo \in SUBSET Services /\ op.pending \in SUBSET Migrations
      /\ op.rec.services \in SUBSET Services /\ op.rec.prev \in SUBSET Services
      /\ op.failed \in BOOLEAN /\ op.violated \in BOOLEAN /\ op.wderr \in BOOLEAN
  BY Zenon DEF TypeOK, Op, Fence
<1>b. \A m \in Migrations : mem[m] \in Fence /\ mem[m].services \in SUBSET Services
  BY Zenon DEF TypeOK, Fence
<1>c. budget' \in Budget
  BY Zenon, SpendsNext, SpendType DEF TypeOK
<1>1. ASSUME NEW m \in Migrations, NEW r \in Runs, NEW S \in Scopes, ActivateBegin(m, r, S) PROVE TypeOK'
  <2>1. op' \in Op
    BY Zenon, <1>1, NewOpType, IntentType, RequestRecordTypes DEF ActivateBegin
  <2> QED
    BY Zenon, <1>c, <1>1, <2>1
    DEF TypeOK, ActivateBegin, PCs
<1>2. ASSUME NEW m \in Migrations, NEW r \in Runs, NEW S \in Scopes, ReleaseBegin(m, r, S) PROVE TypeOK'
  <2>1. InPhase(mem[m], FALSE, "release_authorized") \in Fence
    BY Zenon, InPhaseType DEF TypeOK, Phases
  <2>2. op' \in Op
    BY Zenon, <1>2, <2>1, NewOpType DEF ReleaseBegin
  <2> QED
    BY Zenon, <1>c, <1>2, <2>1, <2>2
    DEF TypeOK, ReleaseBegin, PCs
<1>3. ASSUME NEW m \in Migrations, NEW r \in Runs, NEW S \in Scopes, VerifyBegin(m, r, S) PROVE TypeOK'
  <2>1. op' \in Op
    BY Zenon, <1>3, NewOpType, RequestRecordTypes DEF VerifyBegin
  <2> QED
    BY Zenon, <1>c, <1>3, <2>1
    DEF TypeOK, VerifyBegin, PCs
<1>4. ASSUME NEW m \in Migrations, NEW r \in Runs, NEW S \in Scopes, NEW out \in Outcomes, ReleaseUnknown(m, r, S, out) PROVE TypeOK'
  <2>1. [mem EXCEPT ![m] = Observed(r, S)] \in [Migrations -> Fence]
    BY Zenon, RequestRecordTypes DEF TypeOK
  <2>2. mem' \in [Migrations -> Fence] /\ disk' \in [Migrations -> Fence]
    BY Zenon, <1>4, <2>1 DEF ReleaseUnknown, Persist, TypeOK
  <2> QED
    BY Zenon, <1>c, <1>4, <2>1, <2>2
    DEF TypeOK, ReleaseUnknown, Persist, PCs
<1>5. ASSUME NEW m \in Migrations, NEW r \in Runs, NEW S \in Scopes, NEW out \in Outcomes, ReleaseAgain(m, r, S, out) PROVE TypeOK'
  BY ZenonT(40), <1>c, <1>5
  DEF TypeOK, ReleaseAgain, Persist, PCs
<1>6. ASSUME NEW s \in Services, InstallMarker(s) PROVE TypeOK'
  <2>1. op' \in Op
    BY ZenonT(40), <1>6, <1>a, TodoType, FlagType DEF InstallMarker
  <2> QED
    BY Zenon, <1>6, <2>1
    DEF TypeOK, InstallMarker, AfterMarks, PCs
<1>7. ASSUME NEW s \in Services, RemoveMarker(s) PROVE TypeOK'
  <2>1. op' \in Op
    BY ZenonT(40), <1>7, <1>a, TodoType, FlagType DEF RemoveMarker, ToStart
  <2> QED
    BY Zenon, <1>7, <2>1
    DEF TypeOK, RemoveMarker, ToStart, PCs
<1>8. ASSUME NEW T \in SUBSET Services, InstallFails(T) PROVE TypeOK'
  <2> DEFINE e == pc = "w_mark"
  <2>1. e \in BOOLEAN
    BY Zenon
  <2>2. op' = NoOp \/ op' = [op EXCEPT !.todo = op.rec.services, !.wderr = e]
    BY Zenon, <1>8 DEF InstallFails, Finish
  <2> HIDE DEF e
  <2>3. [op EXCEPT !.todo = op.rec.services, !.wderr = e] \in Op
    BY Zenon, <1>a, <2>1, FlagType
  <2>4. op' \in Op
    BY Zenon, <2>2, <2>3, BasicTypes
  <2> QED
    BY Zenon, <1>c, <1>8, <2>1, <2>2, <2>3, <2>4
    DEF TypeOK, InstallFails, Finish, AfterMarks, PCs
<1>9. ASSUME NEW T \in SUBSET Services, RemoveFails(T) PROVE TypeOK'
  <2>1. op' \in Op
    BY Zenon, <1>9, <1>a, TodoType, FlagType DEF RemoveFails, Rollback
  <2> QED
    BY Zenon, <1>c, <1>9, <2>1
    DEF TypeOK, RemoveFails, Rollback, PCs
<1>10. ASSUME NEW s \in Services, NEW ok \in BOOLEAN, StopService(s, ok) PROVE TypeOK'
  <2> DEFINE f == op.failed \/ ~ok
  <2>1. f \in BOOLEAN
    BY Zenon, <1>a
  <2>2. \/ op' = NoOp \/ op' = [op EXCEPT !.todo = {}]
        \/ op' = [op EXCEPT !.todo = op.todo \ {s}, !.failed = f]
    BY Zenon, <1>10 DEF StopService, Finish
  <2> HIDE DEF f
  <2>3. [op EXCEPT !.todo = {}] \in Op
    BY Zenon, <1>a, TodoType
  <2>4. [op EXCEPT !.todo = op.todo \ {s}, !.failed = f] \in Op
    BY Zenon, <1>a, <2>1, FlagType
  <2>5. op' \in Op
    BY Zenon, <2>2, <2>3, <2>4, BasicTypes
  <2> QED
    BY Zenon, <1>c, <1>10, <2>1, <2>2, <2>3, <2>4, <2>5
    DEF TypeOK, StopService, Finish, PCs
<1>11. ASSUME NEW s \in Services, NEW ok \in BOOLEAN, StartService(s, ok) PROVE TypeOK'
  <2>1. op' \in Op
    BY ZenonT(40), <1>11, <1>a, TodoType, FlagType DEF StartService, ToStart, Rollback
  <2> QED
    BY Zenon, <1>c, <1>11, <2>1
    DEF TypeOK, StartService, ToStart, Rollback, PCs
<1>12. ASSUME NEW known \in BOOLEAN, VerifyStopped(known) PROVE TypeOK'
  <2>1. op' \in Op
    BY Zenon, <1>12, <1>a, BasicTypes DEF VerifyStopped, Finish
  <2> QED
    BY Zenon, <1>c, <1>12, <2>1
    DEF TypeOK, VerifyStopped, Finish, PCs
<1>13. ASSUME NEW known \in BOOLEAN, VerifyRestarted(known) PROVE TypeOK'
  <2>1. op' \in Op
    BY Zenon, <1>13, <1>a, TodoType, FlagType DEF VerifyRestarted, Rollback
  <2> QED
    BY Zenon, <1>c, <1>13, <2>1
    DEF TypeOK, VerifyRestarted, Rollback, PCs
<1>14. ASSUME NEW known \in BOOLEAN, VerifyPoll(known) PROVE TypeOK'
  <2>1. op' \in Op
    BY Zenon, <1>14, <1>a, BasicTypes DEF VerifyPoll, Finish
  <2> QED
    BY Zenon, <1>c, <1>14, <2>1
    DEF TypeOK, VerifyPoll, Finish, PCs
<1>15. ASSUME NEW out \in Outcomes, PersistIntent(out) PROVE TypeOK'
  <2>1. [mem EXCEPT ![op.m] = op.rec] \in [Migrations -> Fence]
    BY Zenon, <1>a DEF TypeOK
  <2>2. mem' \in [Migrations -> Fence] /\ disk' \in [Migrations -> Fence]
    BY Zenon, <1>15, <2>1 DEF PersistIntent, Persist, TypeOK
  <2> QED
    BY Zenon, <1>c, <1>15, <2>1, <2>2
    DEF TypeOK, PersistIntent, Persist, PCs
<1>16. ASSUME NEW out \in Outcomes, CommitActive(out) PROVE TypeOK'
  <2>1. InPhase(op.rec, TRUE, "active") \in Fence
    BY Zenon, <1>a, InPhaseType DEF Phases
  <2>2. Unproven(InPhase(op.rec, TRUE, "active")) \in Fence
    BY Zenon, <2>1, UnprovenType
  <2>3. mem' \in [Migrations -> Fence] /\ disk' \in [Migrations -> Fence]
    BY Zenon, <1>16, <2>1, <2>2 DEF CommitActive, Persist, TypeOK
  <2>4. budget' \in Budget
    BY Zenon, <1>c
  <2> QED
    BY Zenon, <1>16, <2>1, <2>2, <2>3, <2>4, BasicTypes
    DEF TypeOK, CommitActive, Finish, Persist, PCs
<1>17. ASSUME NEW out \in Outcomes, AuthorizeRelease(out) PROVE TypeOK'
  <2>1. [mem EXCEPT ![op.m] = op.rec] \in [Migrations -> Fence]
    BY Zenon, <1>a DEF TypeOK
  <2>2. mem' \in [Migrations -> Fence] /\ disk' \in [Migrations -> Fence]
    BY Zenon, <1>17, <2>1 DEF AuthorizeRelease, Persist, TypeOK
  <2>3. op' \in Op
    BY ZenonT(40), <1>17, <1>a, TodoType, FlagType, BasicTypes DEF AuthorizeRelease, Finish
  <2> QED
    BY Zenon, <1>c, <1>17, <2>1, <2>2, <2>3
    DEF TypeOK, AuthorizeRelease, Finish, Persist, PCs
<1>18. ASSUME NEW out \in Outcomes, CommitReleased(out) PROVE TypeOK'
  <2>1. InPhase(op.rec, FALSE, "released") \in Fence
    BY Zenon, <1>a, InPhaseType DEF Phases
  <2>2. mem' \in [Migrations -> Fence] /\ disk' \in [Migrations -> Fence]
    BY Zenon, <1>18, <2>1 DEF CommitReleased, Persist, TypeOK
  <2>3. op' \in Op
    BY Zenon, <1>18, <1>a, TodoType, FlagType, BasicTypes DEF CommitReleased, Finish, Rollback
  <2>4. budget' \in Budget
    BY Zenon, <1>c
  <2> QED
    BY Zenon, <1>18, <2>1, <2>2, <2>3, <2>4
    DEF TypeOK, CommitReleased, Finish, Rollback, Persist, PCs
<1>19. ASSUME NEW out \in Outcomes, CommitRestored(out) PROVE TypeOK'
  <2>1. InPhase(op.rec, TRUE, "active") \in Fence
    BY Zenon, <1>a, InPhaseType DEF Phases
  <2>2. mem' \in [Migrations -> Fence] /\ disk' \in [Migrations -> Fence]
    BY Zenon, <1>19, <2>1, StopType DEF CommitRestored, Persist, TypeOK
  <2>3. budget' \in Budget
    BY Zenon, <1>c
  <2> QED
    BY Zenon, <1>19, <2>1, <2>2, <2>3, BasicTypes
    DEF TypeOK, CommitRestored, Finish, Stop, Persist, PCs
<1>20. ASSUME NEW out \in Outcomes, VerifyCommit(out) PROVE TypeOK'
  <2> DEFINE phase == IF mem[op.m].phase = "activating" THEN "active" ELSE mem[op.m].phase
  <2>1. op.m \in Migrations => phase \in Phases
    BY Zenon, <1>b DEF Fence, Phases
  <2> HIDE DEF phase
  <2>2. [mem EXCEPT ![op.m] = InPhase(mem[op.m], TRUE, phase)] \in [Migrations -> Fence]
    BY Zenon, <1>b, <2>1, InPhaseType, ExceptType DEF TypeOK
  <2>3. mem' \in [Migrations -> Fence] /\ disk' \in [Migrations -> Fence]
    BY Zenon, <1>20, <2>2 DEF VerifyCommit, Persist, TypeOK, phase
  <2>4. budget' \in Budget
    BY Zenon, <1>c
  <2> QED
    BY Zenon, <1>20, <2>1, <2>2, <2>3, <2>4, BasicTypes
    DEF TypeOK, VerifyCommit, Finish, Persist, PCs
<1>21. ASSUME NEW m \in Migrations, ReconcileFence(m) PROVE TypeOK'
  <2>1. op' \in Op
    BY ZenonT(40), <1>21, <1>a, <1>b, PassType DEF ReconcileFence
  <2> QED
    BY Zenon, <1>21, <2>1
    DEF TypeOK, ReconcileFence, PCs
<1>22. ASSUME NEW m \in Migrations, ResumeFence(m) PROVE TypeOK'
  <2>1. op' \in Op
    BY Zenon, <1>22, <1>a, <1>b, PassType DEF ResumeFence
  <2> QED
    BY Zenon, <1>22, <2>1
    DEF TypeOK, ResumeFence, PCs
<1>23. ASSUME NEW s \in Services, NEW res \in {"ok", "unknown", "stuck"}, CheckService(s, res) PROVE TypeOK'
  <2>1. op' \in Op
    BY Zenon, <1>23, <1>a DEF CheckService, Op
  <2> QED
    BY Zenon, <1>c, <1>23, <2>1
    DEF TypeOK, CheckService, PCs
<1>24. ASSUME NEW known \in BOOLEAN, NEW out \in Outcomes, ReconcileCommit(known, out) PROVE TypeOK'
  <2> DEFINE inactive == known /\ mem[op.m].services \cap running = {}
             v == op.violated \/ ~inactive
             w == op.wderr \/ ~inactive
             phase == IF inactive /\ mem[op.m].phase \in {"activating", "releasing"} THEN "active" ELSE mem[op.m].phase
  <2>1. op.m \in Migrations => phase \in Phases
    BY Zenon, <1>b DEF Fence, Phases
  <2>2. inactive \in BOOLEAN /\ v \in BOOLEAN /\ w \in BOOLEAN
    BY Zenon, <1>a
  <2> HIDE DEF v, w, phase
  <2>3. [mem EXCEPT ![op.m] = InPhase(Bump(mem[op.m], v, w), TRUE, phase)] \in [Migrations -> Fence]
    BY Zenon, <1>b, <2>1, <2>2, BumpType, InPhaseType, ExceptType DEF TypeOK
  <2>4. mem' \in [Migrations -> Fence] /\ disk' \in [Migrations -> Fence]
    BY Zenon, <1>24, <2>3 DEF ReconcileCommit, TypeOK, v, w, phase
  <2>5. budget' \in Budget
    BY Zenon, <1>c
  <2>6. op' \in Op
    BY ZenonT(40), <1>24, <1>a, TodoType, FlagType DEF ReconcileCommit
  <2> QED
    BY Zenon, <1>24, <2>1, <2>2, <2>3, <2>4, <2>5, <2>6
    DEF TypeOK, ReconcileCommit, PCs
<1>25. ASSUME ReconcileDone PROVE TypeOK'
  BY Zenon, <1>25, BasicTypes
  DEF TypeOK, ReconcileDone, Finish, Stop, Reconciled, PCs
<1>26. ASSUME ResumeDone PROVE TypeOK'
  BY Zenon, <1>26, BasicTypes
  DEF TypeOK, ResumeDone, Finish, PCs
<1>27. ASSUME NEW s \in Services, UnitStart(s) PROVE TypeOK'
  BY Zenon, <1>27
  DEF TypeOK, UnitStart, Started, PCs
<1>28. ASSUME NEW s \in Services, UnexpectedRestart(s) PROVE TypeOK'
  BY Zenon, <1>c, <1>28
  DEF TypeOK, UnexpectedRestart, Started, PCs
<1>29. ASSUME Crash PROVE TypeOK'
  BY Zenon, <1>c, <1>29, BasicTypes
  DEF TypeOK, Crash, Finish, Stop, PCs
<1>30. ASSUME Reboot PROVE TypeOK'
  BY Zenon, <1>c, <1>30, BasicTypes
  DEF TypeOK, Reboot, Finish, Stop, PCs
<1>31. ASSUME Validate PROVE TypeOK'
  BY Zenon, <1>31
  DEF TypeOK, Validate, PCs
<1>32. ASSUME ReconcileBegin PROVE TypeOK'
  <2>1. op' \in Op
    BY Zenon, <1>32, NewPassType DEF ReconcileBegin
  <2> QED
    BY Zenon, <1>32, <2>1
    DEF TypeOK, ReconcileBegin, PCs
<1>33. ASSUME ResumeBegin PROVE TypeOK'
  <2>1. op' \in Op
    BY Zenon, <1>33, NewPassType DEF ResumeBegin
  <2> QED
    BY Zenon, <1>33, <2>1
    DEF TypeOK, ResumeBegin, PCs
<1>34. ASSUME Start PROVE TypeOK'
  <2>1. mem' \in [Migrations -> Fence]
    BY Zenon, <1>34, LoadType DEF Start, TypeOK
  <2> QED
    BY Zenon, <1>34, <2>1
    DEF TypeOK, Start, PCs
<1>35. ASSUME AcceptPersists PROVE TypeOK'
  BY Zenon, <1>35
  DEF TypeOK, AcceptPersists, PCs
<1>36. ASSUME NEW out \in Outcomes, Unavailable(out) PROVE TypeOK'
  <2>1. [m \in Migrations |-> IF mem[m].active THEN Bump(mem[m], TRUE, TRUE) ELSE mem[m]] \in [Migrations -> Fence]
    BY Zenon, <1>b, BumpType
  <2>2. mem' \in [Migrations -> Fence] /\ disk' \in [Migrations -> Fence]
    BY Zenon, <1>36, <2>1, StopType DEF Unavailable, TypeOK
  <2>3. budget' \in Budget
    BY Zenon, <1>c
  <2> QED
    BY Zenon, <1>36, <2>1, <2>2, <2>3, BasicTypes
    DEF TypeOK, Unavailable, Finish, Stop, PCs
<1>37. CASE UNCHANGED vars
  BY Zenon, <1>37 DEF vars, TypeOK
<1> QED
  BY ZenonT(40), <1>1, <1>2, <1>3, <1>4, <1>5, <1>6, <1>7, <1>8, <1>9, <1>10, <1>11, <1>12, <1>13, <1>14, <1>15, <1>16, <1>17, <1>18, <1>19, <1>20, <1>21, <1>22, <1>23, <1>24, <1>25, <1>26, <1>27, <1>28, <1>29, <1>30, <1>31, <1>32, <1>33, <1>34, <1>35, <1>36, <1>37 DEF Next, Requests, HolderStep, Environment

\* Every reachable state is well typed: records, locals of the lock holder and
\* history keep their shape through every handler, failure and restart.
THEOREM TypeCorrect == Spec => []TypeOK
<1>1. Init => TypeOK
  BY Zenon, TypeInit
<1>2. TypeOK /\ [Next]_vars => TypeOK'
  BY Zenon, TypeNext
<1> QED
  BY <1>1, <1>2, PTL DEF Spec


-----------------------------------------------------------------------------
(* Part 2: what the lock holder relies on *)

Activation == {"a_stop", "a_verify", "a_commit"}
Completing == {"c_unmark", "c_start", "c_verify", "c_commit"}
Restoring == {"x_mark", "x_stop", "x_commit"}
Reconciling == {"w_mark", "w_check", "w_commit"}

Authorized(fence) == fence.phase = "release_authorized"

\* Which parts of the broker run in which stage of its life.
Stages ==
  /\ status = "down" => pc = "idle" /\ watch = "tick"
  /\ status = "loaded" => pc \in {"idle", "w_next"} \cup Reconciling /\ watch # "resume"
  /\ status = "ready" => pc \in {"idle", "z_next"} \cup Completing \cup Restoring /\ watch = "tick"
  /\ pc \notin {"idle", "w_next", "z_next"} => op.m \in Migrations

\* Every release authorization in memory is in the hands of the lock holder, or
\* is still to be resumed by a broker that does not serve yet.
Authorizations ==
  /\ \A m \in Migrations : /\ Authorized(mem[m]) => ~mem[m].active
                           /\ Authorized(disk[m]) => ~disk[m].active
  /\ status = "serving" => \A m \in Migrations :
       Authorized(mem[m]) => pc \in Completing \cup Restoring /\ m = op.m
  /\ status = "ready" => \A m \in Migrations :
       Authorized(mem[m]) => \/ pc = "idle" \/ m \in op.pending
                             \/ pc \in Completing \cup Restoring /\ m = op.m
  /\ pc \in {"z_next"} \cup Completing \cup Restoring => \A m \in op.pending : Authorized(mem[m])
  /\ pc \in Completing \cup Restoring => op.m \notin op.pending
  /\ pc = "r_auth" => op.pending = {}

\* The lock holder's copy of the record against the record in memory.
Copies ==
  /\ pc \in {"a_mark", "a_intent"} =>
       /\ op.rec.active /\ op.rec.phase = "activating"
       /\ \A n \in Migrations \ {op.m} : Owns(mem[n]) => mem[n].services \cap op.rec.services = {}
  /\ pc \in Activation =>
       /\ op.rec.active /\ op.rec.phase = "activating"
       /\ mem[op.m].active /\ mem[op.m].services = op.rec.services
  /\ pc = "r_auth" =>
       /\ ~op.rec.active /\ Authorized(op.rec)
       /\ mem[op.m].active /\ mem[op.m].services = op.rec.services
  /\ pc \in Completing \cup Restoring => op.rec = mem[op.m] /\ Authorized(mem[op.m])
  /\ pc \in {"w_next"} \cup Reconciling => \A m \in op.pending : mem[m].active
  /\ pc \in Reconciling =>
       /\ op.m \notin op.pending
       /\ mem[op.m].active /\ mem[op.m].services = op.rec.services
  /\ pc \in {"a_mark", "c_unmark", "x_mark", "w_mark"} => op.todo \subseteq op.rec.services

\* Memory and state file name the same owners and the same authorizations while
\* a release is being completed, and until the broker serves.
Agree ==
  \A m \in Migrations : /\ disk[m].active = mem[m].active
                        /\ disk[m].services = mem[m].services
                        /\ Authorized(disk[m]) = Authorized(mem[m])

Agreement ==
  \/ status = "loaded"
  \/ status = "ready" /\ pc \notin Restoring
  \/ status = "serving" /\ pc \in Completing
  => Agree

LockInv == Stages /\ Authorizations /\ Copies /\ Agreement /\ SingleOwner

\* Where the markers of active fences are, when installing one never fails.
Inhibited(f) == \A m \in Migrations : f[m].active => f[m].services \subseteq markers

MarkerInv ==
  /\ status \in {"ready", "serving"} => Inhibited(mem) /\ Inhibited(disk)
  /\ pc \in {"a_mark", "x_mark", "w_mark"} => op.rec.services \ op.todo \subseteq markers
  /\ pc \in {"a_intent", "x_stop", "x_commit", "w_check", "w_commit"} \cup Activation =>
       op.rec.services \subseteq markers
  /\ pc \in {"w_next"} \cup Reconciling => \A m \in Migrations \ op.pending :
       mem[m].active => \/ mem[m].services \subseteq markers
                        \/ pc = "w_mark" /\ m = op.m

-----------------------------------------------------------------------------
(* LockInv is inductive *)

LEMMA LockInit == Init => LockInv
<1> SUFFICES ASSUME Init PROVE LockInv
  BY Zenon
<1>1. \A m \in Migrations : mem[m].phase = "none" /\ ~mem[m].active
  BY Zenon DEF Init, Empty, NoFence
<1>2. /\ \A m \in Migrations : disk[m].phase # "release_authorized"
      /\ \A m, n \in Migrations : disk[m].active /\ disk[n].active => m = n
  <2>1. CASE disk = Empty
    BY Zenon, <2>1 DEF Empty, NoFence
  <2>2. CASE disk # Empty
    <3>1. PICK m \in Migrations, r \in Runs, S \in Scopes :
            disk \in {Legacy(m, r, S, {}, ""), Legacy(m, r, S, S \cap production, "releasing")}
      BY Zenon, <2>2, ConstantsAssumption DEF Init, Budget
    <3>2. PICK prev \in {{}, S \cap production}, phase \in {"", "releasing"} : disk = Legacy(m, r, S, prev, phase)
      BY Zenon, <3>1
    <3> DEFINE rec == [NoFence EXCEPT !.active = TRUE, !.phase = phase, !.run = r,
                                      !.services = S, !.prev = prev]
    <3>3. rec.phase = phase
      BY Zenon DEF NoFence
    <3>4. disk = [Empty EXCEPT ![m] = rec]
      BY Zenon, <3>2 DEF Legacy
    <3> HIDE DEF rec
    <3>5. disk[m].phase = phase /\ \A n \in Migrations \ {m} : disk[n] = NoFence
      BY Zenon, <3>3, <3>4 DEF Empty
    <3>6. NoFence.phase = "none" /\ ~NoFence.active
      BY Zenon DEF NoFence
    <3>7. \A n \in Migrations : disk[n].phase \in {"", "releasing", "none"} /\ (disk[n].active => n = m)
      BY Zenon, <3>2, <3>5, <3>6
    <3> QED
      BY Zenon, <3>7
  <2> QED
    BY Zenon, <2>1, <2>2
<1>3. SingleOwner
  BY Zenon, <1>1, <1>2 DEF SingleOwner, Disjoint, Owns
<1> QED
  BY Zenon, <1>1, <1>2, <1>3 DEF Init, LockInv, Stages, Authorizations, Copies, Agreement, NoOp,
     Authorized, Activation, Completing, Restoring, Reconciling

\* the lock holder moves on without touching a record
LEMMA LocalStep ==
  ASSUME TypeOK, LockInv,
         UNCHANGED <<status, mem, disk, watch>>,
         op'.m = op.m, op'.rec = op.rec, op'.pending = op.pending,
         pc' \in {"a_mark", "c_unmark", "x_mark", "w_mark"} => op'.todo \subseteq op.rec.services,
         \/ pc \in {"a_mark", "a_intent"} /\ pc' \in {"a_mark", "a_intent"}
         \/ pc \in Activation /\ pc' \in Activation
         \/ pc \in Completing /\ pc' \in Completing \cup {"x_mark"}
         \/ pc \in Restoring /\ pc' \in Restoring
         \/ pc \in Reconciling /\ pc' \in Reconciling
         \/ pc \in {"a_abort", "v_poll"} /\ pc' \in {"a_abort", "v_commit"}
  PROVE  LockInv'
<1> USE DEF Activation, Completing, Restoring, Reconciling
<1>1. Stages'
  BY Zenon DEF LockInv, Stages
<1>2. Authorizations'
  BY Zenon DEF LockInv, Stages, Authorizations, Authorized
<1>3. Copies'
  BY Zenon DEF LockInv, Copies, Authorized, Owns
<1>4. Agreement'
  BY Zenon DEF LockInv, Stages, Agreement, Agree, Authorized
<1>5. SingleOwner'
  BY Zenon DEF LockInv, SingleOwner, Disjoint, Owns
<1> QED
  BY Zenon, <1>1, <1>2, <1>3, <1>4, <1>5 DEF LockInv

\* the lock holder returns without touching a record
LEMMA FinishStep ==
  ASSUME TypeOK, LockInv, Finish, UNCHANGED <<status, mem, disk, watch>>,
         status = "serving", pc \notin Completing \cup Restoring
  PROVE  LockInv'
<1> USE DEF Activation, Completing, Restoring, Reconciling
<1>1. pc' = "idle" /\ op'.m = Null /\ op'.pending = {}
  BY Zenon DEF Finish, NoOp
<1>2. Authorizations'
  BY Zenon, <1>1 DEF LockInv, Authorizations, Authorized
<1>3. SingleOwner'
  BY Zenon DEF LockInv, SingleOwner, Disjoint, Owns
<1> QED
  BY Zenon, <1>1, <1>2, <1>3 DEF LockInv, Stages, Copies, Agreement

\* the broker stops, after it may have written its state file once more
LEMMA StopStep ==
  ASSUME Stop, Disjoint(disk)', \A m \in Migrations : Authorized(disk'[m]) => ~disk'[m].active
  PROVE  LockInv'
<1> USE DEF Activation, Completing, Restoring, Reconciling
<1>1. /\ pc' = "idle" /\ watch' = "tick" /\ status' = "down" /\ op'.m = Null /\ op'.pending = {}
      /\ \A m \in Migrations : mem'[m].phase = "none" /\ ~mem'[m].active
  BY Zenon DEF Stop, Finish, NoOp, NoFence
<1>2. Disjoint(mem)'
  BY Zenon, <1>1 DEF Disjoint, Owns
<1> QED
  BY Zenon, <1>1, <1>2 DEF LockInv, Stages, Authorizations, Copies, Agreement, SingleOwner, Authorized

\* one record of a set of disjoint fences is replaced
LEMMA DisjointExcept ==
  ASSUME NEW f \in [Migrations -> Fence], Disjoint(f), NEW m \in Migrations, NEW rec,
         \/ ~Owns(rec)
         \/ Owns(f[m]) /\ rec.services = f[m].services
         \/ \A n \in Migrations \ {m} : Owns(f[n]) => f[n].services \cap rec.services = {}
  PROVE  Disjoint([f EXCEPT ![m] = rec])
BY Zenon DEF Disjoint

LEMMA LoadFields ==
  ASSUME NEW f \in [Migrations -> Fence], NEW m \in Migrations
  PROVE  /\ Load(f)[m].active = f[m].active /\ Load(f)[m].services = f[m].services
         /\ Authorized(Load(f)[m]) = Authorized(f[m])
<1> DEFINE prev == IF f[m].prev = {} THEN f[m].services ELSE f[m].prev
           legacy == [f[m] EXCEPT !.phase = "active", !.prev = prev]
           old == [f[m] EXCEPT !.phase = "released"]
<1>1. /\ legacy.active = f[m].active /\ legacy.services = f[m].services /\ legacy.phase = "active"
      /\ old.active = f[m].active /\ old.services = f[m].services /\ old.phase = "released"
  BY Zenon DEF Fence
<1>2. Load(f)[m] = IF f[m].phase # "" THEN f[m] ELSE IF f[m].active THEN legacy ELSE old
  BY Zenon DEF Load
<1> HIDE DEF legacy, old
<1> QED
  BY Zenon, <1>1, <1>2 DEF Authorized

LEMMA LockNext == TypeOK /\ TypeOK' /\ LockInv /\ [Next]_vars => LockInv'
<1> SUFFICES ASSUME TypeOK, TypeOK', LockInv, [Next]_vars PROVE LockInv'
  BY Zenon
<1> USE DEF Activation, Completing, Restoring, Reconciling
<1>a. /\ op \in Op /\ op.rec \in Fence /\ \A m \in Migrations : mem[m] \in Fence /\ disk[m] \in Fence
      /\ mem \in [Migrations -> Fence] /\ disk \in [Migrations -> Fence]
  BY Zenon DEF TypeOK, Op
<1>b. Disjoint(mem) /\ Disjoint(disk)
  BY Zenon DEF LockInv, SingleOwner
<1>c. \A m \in Migrations : (Authorized(mem[m]) => ~mem[m].active) /\ (Authorized(disk[m]) => ~disk[m].active)
  BY Zenon DEF LockInv, Authorizations
<1>d. "activating" \in Phases /\ "active" \in Phases /\ "released" \in Phases /\ "release_authorized" \in Phases
  BY Zenon DEF Phases
<1>1. ASSUME NEW m \in Migrations, NEW r \in Runs, NEW S \in Scopes, ActivateBegin(m, r, S) PROVE LockInv'
  <2>1. /\ status = "serving" /\ pc = "idle" /\ pc' = "a_mark" /\ UNCHANGED <<status, mem, disk, watch>>
        /\ \A n \in Migrations \ {m} : mem[n].active => mem[n].services \cap S = {}
    BY Zenon, <1>1 DEF ActivateBegin, Request
  <2>2. op'.m = m /\ op'.rec = Intent(m, r, S) /\ op'.todo = S /\ op'.pending = {}
    BY Zenon, <1>1 DEF ActivateBegin, NoOp
  <2>3. op'.rec.active /\ op'.rec.phase = "activating" /\ op'.rec.services = S
    BY <2>2, IntentType
  <2>4. \A n \in Migrations : ~Authorized(mem[n])
    BY Zenon, <2>1 DEF LockInv, Authorizations
  <2>5. Stages' /\ Authorizations'
    BY Zenon, <2>1, <2>2, <2>4 DEF LockInv, Stages, Authorizations, Authorized
  <2>6. Copies'
    BY Zenon, <2>1, <2>2, <2>3, <2>4 DEF Copies, Authorized, Owns
  <2>7. SingleOwner'
    BY Zenon, <2>1, <1>b DEF SingleOwner, Disjoint, Owns
  <2> QED
    BY Zenon, <2>1, <2>5, <2>6, <2>7 DEF LockInv, Agreement
<1>2. ASSUME NEW m \in Migrations, NEW r \in Runs, NEW S \in Scopes, ReleaseBegin(m, r, S) PROVE LockInv'
  <2>1. /\ status = "serving" /\ pc = "idle" /\ pc' = "r_auth" /\ UNCHANGED <<status, mem, disk, watch>>
        /\ mem[m].active
    BY Zenon, <1>2 DEF ReleaseBegin, Request
  <2> DEFINE rec == InPhase(mem[m], FALSE, "release_authorized")
  <2>2. op'.m = m /\ op'.rec = rec /\ op'.pending = {}
    BY Zenon, <1>2 DEF ReleaseBegin, NoOp
  <2>3. ~rec.active /\ Authorized(rec) /\ rec.services = mem[m].services
    BY Zenon, <1>a, <1>d, InPhaseType DEF Authorized
  <2> HIDE DEF rec
  <2>4. Stages' /\ Authorizations'
    BY Zenon, <2>1, <2>2 DEF LockInv, Stages, Authorizations, Authorized
  <2>5. Copies'
    BY Zenon, <2>1, <2>2, <2>3 DEF Copies
  <2>6. SingleOwner'
    BY Zenon, <2>1, <1>b DEF SingleOwner, Disjoint, Owns
  <2> QED
    BY Zenon, <2>1, <2>4, <2>5, <2>6 DEF LockInv, Agreement
<1>3. ASSUME NEW m \in Migrations, NEW r \in Runs, NEW S \in Scopes, VerifyBegin(m, r, S) PROVE LockInv'
  <2>1. /\ status = "serving" /\ pc = "idle" /\ pc' = "v_poll" /\ UNCHANGED <<status, mem, disk, watch>>
    BY Zenon, <1>3 DEF VerifyBegin, Request
  <2>2. op'.m = m /\ op'.pending = {}
    BY Zenon, <1>3 DEF VerifyBegin, NoOp
  <2>3. SingleOwner'
    BY Zenon, <2>1, <1>b DEF SingleOwner, Disjoint, Owns
  <2> QED
    BY Zenon, <2>1, <2>2, <2>3 DEF LockInv, Stages, Authorizations, Copies, Agreement, Authorized
<1>4. ASSUME NEW m \in Migrations, NEW r \in Runs, NEW S \in Scopes, NEW out \in Outcomes,
             ReleaseUnknown(m, r, S, out)
      PROVE  LockInv'
  <2> DEFINE new == [mem EXCEPT ![m] = Observed(r, S)]
  <2>1. /\ status = "serving" /\ pc = "idle" /\ UNCHANGED <<status, pc, op, watch>>
        /\ mem' \in {mem, new} /\ disk' \in {disk, new}
    BY Zenon, <1>4 DEF ReleaseUnknown, Request, Persist
  <2>2. ~Owns(Observed(r, S)) /\ ~Authorized(Observed(r, S))
    BY Zenon, RequestRecordTypes DEF Owns, Authorized
  <2>3. Disjoint(new) /\ \A n \in Migrations : Authorized(new[n]) => ~new[n].active /\ Authorized(mem[n])
    BY Zenon, <1>a, <1>b, <1>c, <2>2, DisjointExcept
  <2> HIDE DEF new
  <2>4. Disjoint(mem') /\ Disjoint(disk')
    BY Zenon, <1>b, <2>1, <2>3
  <2>5. Authorizations'
    BY Zenon, <1>c, <2>1, <2>3 DEF LockInv, Authorizations, Authorized
  <2> QED
    BY Zenon, <2>1, <2>4, <2>5 DEF LockInv, Stages, Copies, Agreement, SingleOwner
<1>5. ASSUME NEW m \in Migrations, NEW r \in Runs, NEW S \in Scopes, NEW out \in Outcomes,
             ReleaseAgain(m, r, S, out)
      PROVE  LockInv'
  <2>1. status = "serving" /\ pc = "idle" /\ UNCHANGED <<status, mem, pc, op, watch>> /\ disk' \in {disk, mem}
    BY Zenon, <1>5 DEF ReleaseAgain, Request, Persist
  <2>2. Disjoint(mem') /\ Disjoint(disk')
    BY Zenon, <1>b, <2>1
  <2>3. Authorizations'
    BY Zenon, <1>c, <2>1 DEF LockInv, Authorizations, Authorized
  <2> QED
    BY Zenon, <2>1, <2>2, <2>3 DEF LockInv, Stages, Copies, Agreement, SingleOwner
<1>6. ASSUME NEW s \in Services, InstallMarker(s) PROVE LockInv'
  <2>1. /\ UNCHANGED <<status, mem, disk, watch>> /\ pc \in {"a_mark", "x_mark", "w_mark"}
        /\ \/ pc' = AfterMarks(pc) /\ op' = [op EXCEPT !.todo = op.rec.services]
           \/ pc' = pc /\ op' = [op EXCEPT !.todo = op.todo \ {s}]
    BY Zenon, <1>6 DEF InstallMarker
  <2>2. op.todo \subseteq op.rec.services
    BY Zenon, <2>1 DEF LockInv, Copies
  <2>3. /\ op'.m = op.m /\ op'.rec = op.rec /\ op'.pending = op.pending
        /\ op'.todo \subseteq op.rec.services
    BY <1>a, <2>1, <2>2 DEF Op
  <2> QED
    BY Zenon, <2>1, <2>3, LocalStep DEF AfterMarks
<1>7. ASSUME NEW s \in Services, RemoveMarker(s) PROVE LockInv'
  <2>1. /\ UNCHANGED <<status, mem, disk, watch>> /\ pc = "c_unmark"
        /\ \/ pc' \in {"c_verify", "c_start"} /\ op' = [op EXCEPT !.todo = op.rec.prev]
           \/ pc' = pc /\ op' = [op EXCEPT !.todo = op.todo \ {s}]
    BY Zenon, <1>7 DEF RemoveMarker, ToStart
  <2>2. op.todo \subseteq op.rec.services
    BY Zenon, <2>1 DEF LockInv, Copies
  <2>3. /\ op'.m = op.m /\ op'.rec = op.rec /\ op'.pending = op.pending
        /\ pc' = "c_unmark" => op'.todo \subseteq op.rec.services
    BY ZenonT(40), <1>a, <2>1, <2>2 DEF Op
  <2> QED
    BY Zenon, <2>1, <2>3, LocalStep
<1>8. ASSUME NEW T \in SUBSET Services, InstallFails(T) PROVE LockInv'
  <2>1. UNCHANGED <<status, mem, disk, watch>> /\ pc \in {"a_mark", "x_mark", "w_mark"}
    BY Zenon, <1>8 DEF InstallFails
  <2>2. CASE pc = "a_mark"
    <3>1. Finish /\ status = "serving"
      BY Zenon, <1>8, <2>2 DEF InstallFails, LockInv, Stages, TypeOK
    <3> QED
      BY Zenon, <2>1, <2>2, <3>1, FinishStep
  <2>3. CASE pc # "a_mark"
    <3>1. pc' = AfterMarks(pc) /\ op' = [op EXCEPT !.todo = op.rec.services, !.wderr = pc = "w_mark"]
      BY Zenon, <1>8, <2>3 DEF InstallFails
    <3>2. op'.m = op.m /\ op'.rec = op.rec /\ op'.pending = op.pending /\ op'.todo = op.rec.services
      BY Zenon, <1>a, <3>1 DEF Op
    <3> QED
      BY Zenon, <2>1, <2>3, <3>1, <3>2, LocalStep DEF AfterMarks
  <2> QED
    BY Zenon, <2>2, <2>3
<1>9. ASSUME NEW T \in SUBSET Services, RemoveFails(T) PROVE LockInv'
  <2>1. /\ UNCHANGED <<status, mem, disk, watch>> /\ pc = "c_unmark" /\ pc' = "x_mark"
        /\ op' = [op EXCEPT !.todo = op.rec.services, !.failed = TRUE]
    BY Zenon, <1>9 DEF RemoveFails, Rollback
  <2>2. op'.m = op.m /\ op'.rec = op.rec /\ op'.pending = op.pending /\ op'.todo = op.rec.services
    BY Zenon, <1>a, <2>1 DEF Op
  <2> QED
    BY Zenon, <2>1, <2>2, LocalStep
<1>10. ASSUME NEW s \in Services, NEW ok \in BOOLEAN, StopService(s, ok) PROVE LockInv'
  <2>1. /\ UNCHANGED <<status, mem, disk, watch>> /\ pc \in {"a_abort", "a_stop", "x_stop"}
        /\ \/ Finish /\ pc # "x_stop"
           \/ pc' = pc /\ op' = [op EXCEPT !.todo = op.todo \ {s}, !.failed = op.failed \/ ~ok]
           \/ pc = "a_stop" /\ pc' = "a_verify" /\ op' = [op EXCEPT !.todo = {}]
           \/ pc = "x_stop" /\ pc' = "x_commit" /\ op' = [op EXCEPT !.todo = {}]
    BY Zenon, <1>10 DEF StopService
  <2>2. CASE Finish /\ pc # "x_stop"
    <3>1. status = "serving"
      BY Zenon, <2>1, <2>2 DEF LockInv, Stages, TypeOK
    <3> QED
      BY Zenon, <2>1, <2>2, <3>1, FinishStep
  <2>3. CASE ~(Finish /\ pc # "x_stop")
    <3>1. op'.m = op.m /\ op'.rec = op.rec /\ op'.pending = op.pending
      BY Zenon, <1>a, <2>1, <2>3 DEF Op
    <3> QED
      BY Zenon, <2>1, <2>3, <3>1, LocalStep
  <2> QED
    BY Zenon, <2>2, <2>3
<1>11. ASSUME NEW s \in Services, NEW ok \in BOOLEAN, StartService(s, ok) PROVE LockInv'
  <2>1. /\ UNCHANGED <<status, mem, disk, watch>> /\ pc = "c_start"
        /\ \/ pc' \in {"c_start", "c_verify"} /\ op' = [op EXCEPT !.todo = op.todo \ {s}]
           \/ pc' = "x_mark" /\ op' = [op EXCEPT !.todo = op.rec.services, !.failed = TRUE]
    BY Zenon, <1>11 DEF StartService, ToStart, Rollback
  <2>2. /\ op'.m = op.m /\ op'.rec = op.rec /\ op'.pending = op.pending
        /\ pc' = "x_mark" => op'.todo = op.rec.services
    BY Zenon, <1>a, <2>1 DEF Op
  <2> QED
    BY Zenon, <2>1, <2>2, LocalStep
<1>12. ASSUME NEW known \in BOOLEAN, VerifyStopped(known) PROVE LockInv'
  <2>1. /\ UNCHANGED <<status, mem, disk, watch>> /\ pc = "a_verify"
        /\ Finish \/ (pc' = "a_commit" /\ UNCHANGED op)
    BY Zenon, <1>12 DEF VerifyStopped
  <2>2. status = "serving"
    BY Zenon, <2>1 DEF LockInv, Stages, TypeOK
  <2> QED
    BY Zenon, <2>1, <2>2, LocalStep, FinishStep
<1>13. ASSUME NEW known \in BOOLEAN, VerifyRestarted(known) PROVE LockInv'
  <2>1. /\ UNCHANGED <<status, mem, disk, watch>> /\ pc = "c_verify"
        /\ \/ pc' = "c_commit" /\ UNCHANGED op
           \/ pc' = "x_mark" /\ op' = [op EXCEPT !.todo = op.rec.services, !.failed = TRUE]
    BY Zenon, <1>13 DEF VerifyRestarted, Rollback
  <2>2. /\ op'.m = op.m /\ op'.rec = op.rec /\ op'.pending = op.pending
        /\ pc' = "x_mark" => op'.todo = op.rec.services
    BY Zenon, <1>a, <2>1 DEF Op
  <2> QED
    BY Zenon, <2>1, <2>2, LocalStep
<1>14. ASSUME NEW known \in BOOLEAN, VerifyPoll(known) PROVE LockInv'
  <2>1. /\ UNCHANGED <<status, mem, disk, watch>> /\ pc = "v_poll"
        /\ Finish \/ (pc' = "v_commit" /\ UNCHANGED op)
    BY Zenon, <1>14 DEF VerifyPoll
  <2>2. status = "serving"
    BY Zenon, <2>1 DEF LockInv, Stages, TypeOK
  <2> QED
    BY Zenon, <2>1, <2>2, LocalStep, FinishStep
<1>15. ASSUME NEW out \in Outcomes, PersistIntent(out) PROVE LockInv'
  <2> DEFINE new == [mem EXCEPT ![op.m] = op.rec]
  <2>1. /\ pc = "a_intent" /\ UNCHANGED <<status, op, watch>>
        /\ \/ mem' = new /\ disk' = new /\ pc' = "a_stop"
           \/ mem' = mem /\ disk' \in {disk, new} /\ pc' = "a_abort"
    BY Zenon, <1>15 DEF PersistIntent, Persist, Outcomes
  <2>2. status = "serving" /\ op.m \in Migrations
    BY Zenon, <2>1 DEF LockInv, Stages, TypeOK
  <2>3. /\ op.rec.active /\ op.rec.phase = "activating"
        /\ \A n \in Migrations \ {op.m} : Owns(mem[n]) => mem[n].services \cap op.rec.services = {}
    BY Zenon, <2>1 DEF LockInv, Copies
  <2>4. /\ Disjoint(new)
        /\ \A n \in Migrations : Authorized(new[n]) => ~new[n].active /\ Authorized(mem[n])
        /\ new[op.m] = op.rec
    BY Zenon, <1>a, <1>b, <1>c, <2>2, <2>3, DisjointExcept DEF Authorized
  <2> HIDE DEF new
  <2>5. SingleOwner'
    BY Zenon, <1>b, <2>1, <2>4 DEF SingleOwner
  <2>6. Authorizations'
    BY Zenon, <1>c, <2>1, <2>2, <2>4 DEF LockInv, Authorizations, Authorized
  <2>7. Copies'
    BY Zenon, <2>1, <2>3, <2>4 DEF Copies
  <2> QED
    BY Zenon, <2>1, <2>2, <2>5, <2>6, <2>7 DEF LockInv, Stages, Agreement
<1>16. ASSUME NEW out \in Outcomes, CommitActive(out) PROVE LockInv'
  <2> DEFINE rec == InPhase(op.rec, TRUE, "active")
             new == [mem EXCEPT ![op.m] = rec]
             failed == [mem EXCEPT ![op.m] = Unproven(rec)]
  <2>1. /\ pc = "a_commit" /\ UNCHANGED <<status, watch>> /\ pc' = "idle" /\ op' = NoOp
        /\ mem' \in {new, failed} /\ disk' \in {disk, new}
    BY Zenon, <1>16 DEF CommitActive, Persist, Finish
  <2>2. status = "serving" /\ op.m \in Migrations
    BY Zenon, <2>1 DEF LockInv, Stages, TypeOK
  <2>3. mem[op.m].active /\ mem[op.m].services = op.rec.services
    BY Zenon, <2>1 DEF LockInv, Copies
  <2>4. rec \in Fence /\ rec.active /\ rec.phase = "active" /\ rec.services = op.rec.services
    BY Zenon, <1>a, <1>d, InPhaseType
  <2> HIDE DEF rec
  <2>5. Unproven(rec).phase = "activating" /\ Unproven(rec).services = op.rec.services
    BY Zenon, <2>4, UnprovenType
  <2>6. /\ Disjoint(new)
        /\ \A n \in Migrations : Authorized(new[n]) => ~new[n].active /\ Authorized(mem[n])
    BY Zenon, <1>a, <1>b, <1>c, <2>2, <2>3, <2>4, DisjointExcept DEF Authorized, Owns
  <2>7. /\ Disjoint(failed)
        /\ \A n \in Migrations : Authorized(failed[n]) => ~failed[n].active /\ Authorized(mem[n])
    BY Zenon, <1>a, <1>b, <1>c, <2>2, <2>3, <2>5, DisjointExcept DEF Authorized, Owns
  <2> HIDE DEF new, failed
  <2>8. SingleOwner'
    BY Zenon, <1>b, <2>1, <2>6, <2>7 DEF SingleOwner
  <2>9. Authorizations'
    BY Zenon, <1>c, <2>1, <2>2, <2>6, <2>7 DEF LockInv, Authorizations, Authorized
  <2> QED
    BY Zenon, <2>1, <2>2, <2>8, <2>9 DEF LockInv, Stages, Copies, Agreement
<1>17. ASSUME NEW out \in Outcomes, AuthorizeRelease(out) PROVE LockInv'
  <2> DEFINE new == [mem EXCEPT ![op.m] = op.rec]
  <2>1. /\ pc = "r_auth" /\ UNCHANGED <<status, watch>>
        /\ \/ /\ mem' = new /\ disk' = new /\ pc' = "c_unmark"
              /\ op' = [op EXCEPT !.todo = op.rec.services]
           \/ mem' = mem /\ disk' \in {disk, new} /\ pc' = "idle" /\ op' = NoOp
    BY Zenon, <1>17 DEF AuthorizeRelease, Persist, Outcomes, Finish
  <2>2. status = "serving" /\ op.m \in Migrations
    BY Zenon, <2>1 DEF LockInv, Stages, TypeOK
  <2>3. /\ ~op.rec.active /\ Authorized(op.rec) /\ mem[op.m].active /\ mem[op.m].services = op.rec.services
        /\ op.pending = {} /\ \A n \in Migrations : ~Authorized(mem[n])
    BY Zenon, <2>1, <2>2 DEF LockInv, Copies, Authorizations
  <2>4. /\ Disjoint(new) /\ new[op.m] = op.rec
        /\ \A n \in Migrations : Authorized(new[n]) => ~new[n].active /\ n = op.m
    BY Zenon, <1>a, <1>b, <1>c, <2>2, <2>3, DisjointExcept DEF Owns
  <2> HIDE DEF new
  <2>5. SingleOwner'
    BY Zenon, <1>b, <2>1, <2>4 DEF SingleOwner
  <2>6. CASE mem' = new
    <3>1. /\ mem' = new /\ disk' = new /\ pc' = "c_unmark"
          /\ op'.m = op.m /\ op'.rec = op.rec /\ op'.pending = {} /\ op'.todo = op.rec.services
      BY Zenon, <1>a, <2>1, <2>3, <2>4, <2>6 DEF Op
    <3>2. Stages' /\ Authorizations' /\ Copies'
      BY Zenon, <2>1, <2>2, <2>3, <2>4, <3>1 DEF LockInv, Stages, Authorizations, Copies
    <3>3. Agreement'
      BY Zenon, <3>1 DEF Agreement, Agree
    <3> QED
      BY Zenon, <2>5, <3>2, <3>3 DEF LockInv
  <2>7. CASE mem' # new
    <3>1. mem' = mem /\ disk' \in {disk, new} /\ pc' = "idle"
      BY Zenon, <2>1, <2>7
    <3> QED
      BY Zenon, <1>c, <2>1, <2>2, <2>3, <2>4, <2>5, <3>1
      DEF LockInv, Stages, Authorizations, Copies, Agreement, Authorized
  <2> QED
    BY Zenon, <2>6, <2>7
<1>18. ASSUME NEW out \in Outcomes, CommitReleased(out) PROVE LockInv'
  <2> DEFINE rec == InPhase(op.rec, FALSE, "released")
             new == [mem EXCEPT ![op.m] = rec]
  <2>1. /\ pc = "c_commit" /\ UNCHANGED <<status, watch>>
        /\ \/ mem' = new /\ disk' = new /\ pc' = "z_next" /\ UNCHANGED op
           \/ mem' = new /\ disk' = new /\ pc' = "idle" /\ op' = NoOp
           \/ /\ mem' = mem /\ disk' \in {disk, new} /\ pc' = "x_mark"
              /\ op' = [op EXCEPT !.todo = op.rec.services, !.failed = TRUE]
    BY Zenon, <1>18 DEF CommitReleased, Persist, Outcomes, Finish, Rollback
  <2>2. status \in {"ready", "serving"} /\ op.m \in Migrations
    BY Zenon, <2>1 DEF LockInv, Stages, TypeOK
  <2>3. ~rec.active /\ rec.phase = "released"
    BY Zenon, <1>a, <1>d, InPhaseType
  <2> HIDE DEF rec
  <2>4. /\ Disjoint(new)
        /\ \A n \in Migrations : Authorized(new[n]) => ~new[n].active /\ n # op.m
        /\ \A n \in Migrations \ {op.m} : new[n] = mem[n]
    BY Zenon, <1>a, <1>b, <1>c, <2>2, <2>3, DisjointExcept DEF Authorized, Owns
  <2> HIDE DEF new
  <2>5. SingleOwner'
    BY Zenon, <1>b, <2>1, <2>4 DEF SingleOwner
  <2>6. op.m \notin op.pending /\ op.pending \subseteq Migrations
    BY Zenon, <1>a, <2>1 DEF LockInv, Authorizations, Op
  <2>7. CASE pc' = "x_mark"
    <3>1. /\ mem' = mem /\ disk' \in {disk, new}
          /\ op'.m = op.m /\ op'.rec = op.rec /\ op'.pending = op.pending /\ op'.todo = op.rec.services
      BY Zenon, <1>a, <2>1, <2>7 DEF Op
    <3>2. Authorizations'
      BY Zenon, <1>c, <2>1, <2>2, <2>4, <2>7, <3>1 DEF LockInv, Authorizations, Authorized
    <3>3. Copies'
      BY Zenon, <2>1, <2>7, <3>1 DEF LockInv, Copies
    <3> QED
      BY Zenon, <2>1, <2>2, <2>5, <2>7, <3>1, <3>2, <3>3 DEF LockInv, Stages, Agreement
  <2>8. CASE pc' = "z_next"
    <3>1. mem' = new /\ disk' = new /\ UNCHANGED op
      BY Zenon, <2>1, <2>8
    <3>2. Authorizations'
      BY Zenon, <2>1, <2>2, <2>4, <2>6, <2>8, <3>1 DEF LockInv, Authorizations
    <3>3. Agreement'
      BY Zenon, <3>1 DEF Agreement, Agree
    <3> QED
      BY Zenon, <2>1, <2>2, <2>5, <2>8, <3>2, <3>3 DEF LockInv, Stages, Copies
  <2>9. CASE pc' = "idle"
    <3>1. mem' = new /\ disk' = new
      BY Zenon, <2>1, <2>9
    <3>2. Authorizations'
      BY Zenon, <2>1, <2>2, <2>4, <2>9, <3>1 DEF LockInv, Authorizations
    <3>3. Agreement'
      BY Zenon, <3>1 DEF Agreement, Agree
    <3> QED
      BY Zenon, <2>1, <2>2, <2>5, <2>9, <3>2, <3>3 DEF LockInv, Stages, Copies
  <2> QED
    BY Zenon, <2>1, <2>7, <2>8, <2>9
<1>19. ASSUME NEW out \in Outcomes, CommitRestored(out) PROVE LockInv'
  <2> DEFINE rec == InPhase(op.rec, TRUE, "active")
             new == [mem EXCEPT ![op.m] = rec]
  <2>1. /\ pc = "x_commit" /\ disk' \in {disk, new}
        /\ \/ status = "ready" /\ Stop
           \/ status # "ready" /\ mem' = new /\ pc' = "idle" /\ op' = NoOp /\ UNCHANGED <<status, watch>>
    BY Zenon, <1>19 DEF CommitRestored, Persist, Finish
  <2>2. status \in {"ready", "serving"} /\ op.m \in Migrations
    BY Zenon, <2>1 DEF LockInv, Stages, TypeOK
  <2>3. rec.active /\ rec.phase = "active" /\ rec.services = op.rec.services
    BY Zenon, <1>a, <1>d, InPhaseType
  <2>4. op.rec = mem[op.m] /\ Authorized(mem[op.m])
    BY Zenon, <2>1 DEF LockInv, Copies
  <2> HIDE DEF rec
  <2>5. /\ Disjoint(new)
        /\ \A n \in Migrations : Authorized(new[n]) => ~new[n].active /\ n # op.m /\ Authorized(mem[n])
    BY Zenon, <1>a, <1>b, <1>c, <2>2, <2>3, <2>4, DisjointExcept DEF Authorized, Owns
  <2> HIDE DEF new
  <2>6. Disjoint(disk') /\ \A n \in Migrations : Authorized(disk'[n]) => ~disk'[n].active
    BY Zenon, <1>b, <1>c, <2>1, <2>5
  <2>7. CASE status = "ready"
    BY Zenon, <2>1, <2>6, <2>7, StopStep
  <2>8. CASE status # "ready"
    <3>1. Authorizations'
      BY Zenon, <2>1, <2>2, <2>5, <2>6, <2>8 DEF LockInv, Authorizations
    <3> QED
      BY Zenon, <2>1, <2>2, <2>5, <2>6, <2>8, <3>1 DEF LockInv, Stages, Copies, Agreement, SingleOwner
  <2> QED
    BY Zenon, <2>7, <2>8
<1>20. ASSUME NEW out \in Outcomes, VerifyCommit(out) PROVE LockInv'
  <2> DEFINE phase == IF mem[op.m].phase = "activating" THEN "active" ELSE mem[op.m].phase
             rec == InPhase(mem[op.m], TRUE, phase)
             new == [mem EXCEPT ![op.m] = rec]
  <2>1. /\ pc = "v_commit" /\ UNCHANGED <<status, watch>> /\ pc' = "idle" /\ op' = NoOp
        /\ \/ mem[op.m].active /\ mem' = new /\ disk' \in {disk, new}
           \/ UNCHANGED <<mem, disk>>
    BY Zenon, <1>20 DEF VerifyCommit, Persist, Finish
  <2>2. status = "serving" /\ op.m \in Migrations
    BY Zenon, <2>1 DEF LockInv, Stages, TypeOK
  <2>3. CASE mem[op.m].active /\ mem' = new /\ disk' \in {disk, new}
    <3>1. phase \in Phases /\ phase # "release_authorized"
      BY Zenon, <1>a, <1>c, <2>2, <2>3 DEF Fence, Phases, Authorized
    <3> HIDE DEF phase
    <3>2. rec.active /\ rec.phase = phase /\ rec.services = mem[op.m].services
      BY Zenon, <1>a, <2>2, <3>1, InPhaseType
    <3> HIDE DEF rec
    <3>3. /\ Disjoint(new)
          /\ \A n \in Migrations : Authorized(new[n]) => ~new[n].active /\ Authorized(mem[n])
      BY Zenon, <1>a, <1>b, <1>c, <2>2, <2>3, <3>1, <3>2, DisjointExcept DEF Authorized, Owns
    <3> HIDE DEF new
    <3>4. SingleOwner'
      BY Zenon, <1>b, <2>3, <3>3 DEF SingleOwner
    <3>5. Authorizations'
      BY Zenon, <1>c, <2>1, <2>2, <2>3, <3>3 DEF LockInv, Authorizations, Authorized
    <3> QED
      BY Zenon, <2>1, <2>2, <3>4, <3>5 DEF LockInv, Stages, Copies, Agreement
  <2>4. CASE UNCHANGED <<mem, disk>>
    BY Zenon, <2>1, <2>2, <2>4, FinishStep DEF Finish
  <2> QED
    BY Zenon, <2>1, <2>3, <2>4
<1>21. ASSUME NEW m \in Migrations, ReconcileFence(m) PROVE LockInv'
  <2>1. pc = "w_next" /\ m \in op.pending /\ pc' = "w_mark" /\ UNCHANGED <<status, mem, disk, watch>>
    BY Zenon, <1>21 DEF ReconcileFence
  <2>2. op'.m = m /\ op'.rec = mem[m] /\ op'.todo = mem[m].services /\ op'.pending = op.pending \ {m}
    BY Zenon, <1>a, <1>21 DEF ReconcileFence, Op
  <2>3. Stages' /\ Authorizations'
    BY Zenon, <2>1, <2>2 DEF LockInv, Stages, Authorizations, Authorized
  <2>4. Copies'
    BY Zenon, <2>1, <2>2 DEF LockInv, Copies
  <2>5. Agreement' /\ SingleOwner'
    BY ZenonT(40), <2>1 DEF LockInv, Stages, Agreement, Agree, Authorized, SingleOwner, Disjoint, Owns
  <2> QED
    BY Zenon, <2>3, <2>4, <2>5 DEF LockInv
<1>22. ASSUME NEW m \in Migrations, ResumeFence(m) PROVE LockInv'
  <2>1. pc = "z_next" /\ m \in op.pending /\ pc' = "c_unmark" /\ UNCHANGED <<status, mem, disk, watch>>
    BY Zenon, <1>22 DEF ResumeFence
  <2>2. op'.m = m /\ op'.rec = mem[m] /\ op'.todo = mem[m].services /\ op'.pending = op.pending \ {m}
    BY Zenon, <1>a, <1>22 DEF ResumeFence, Op
  <2>3. Authorized(mem[m]) /\ status = "ready"
    BY Zenon, <2>1 DEF LockInv, Stages, Authorizations, TypeOK
  <2>4. Stages' /\ Authorizations'
    BY Zenon, <2>1, <2>2, <2>3 DEF LockInv, Stages, Authorizations, Authorized
  <2>5. Copies'
    BY Zenon, <2>1, <2>2, <2>3 DEF LockInv, Copies, Authorized
  <2>6. Agreement' /\ SingleOwner'
    BY ZenonT(40), <2>1, <2>3 DEF LockInv, Stages, Agreement, Agree, Authorized, SingleOwner, Disjoint, Owns
  <2> QED
    BY Zenon, <2>4, <2>5, <2>6 DEF LockInv
<1>23. ASSUME NEW s \in Services, NEW res \in {"ok", "unknown", "stuck"}, CheckService(s, res) PROVE LockInv'
  <2>1. UNCHANGED <<status, mem, disk, watch>> /\ pc = "w_check" /\ pc' \in {"w_check", "w_commit"}
    BY Zenon, <1>23 DEF CheckService
  <2>2. op'.m = op.m /\ op'.rec = op.rec /\ op'.pending = op.pending
    BY Zenon, <1>a, <1>23 DEF CheckService, Op
  <2> QED
    BY Zenon, <2>1, <2>2, LocalStep
<1>24. ASSUME NEW known \in BOOLEAN, NEW out \in Outcomes, ReconcileCommit(known, out) PROVE LockInv'
  <2> DEFINE inactive == known /\ mem[op.m].services \cap running = {}
             v == op.violated \/ ~inactive
             w == op.wderr \/ ~inactive
             phase == IF inactive /\ mem[op.m].phase \in {"activating", "releasing"} THEN "active"
                      ELSE mem[op.m].phase
             bumped == Bump(mem[op.m], v, w)
             rec == InPhase(bumped, TRUE, phase)
             new == [mem EXCEPT ![op.m] = rec]
  <2>1. /\ pc = "w_commit" /\ UNCHANGED <<status, watch>> /\ pc' = "w_next"
        /\ mem' = new /\ disk' \in {disk, new}
    BY Zenon, <1>24 DEF ReconcileCommit
  <2>2. op'.m = op.m /\ op'.pending = op.pending
    BY Zenon, <1>a, <1>24 DEF ReconcileCommit, Op
  <2>3. op.m \in Migrations /\ mem[op.m].active /\ op.m \notin op.pending /\ op.pending \subseteq Migrations
    BY Zenon, <1>a, <2>1 DEF LockInv, Stages, Copies, Op
  <2>4. phase \in Phases /\ phase # "release_authorized"
    BY Zenon, <1>a, <1>c, <2>3 DEF Fence, Phases, Authorized
  <2>5. bumped \in Fence /\ bumped.services = mem[op.m].services
    <3>1. v \in BOOLEAN /\ w \in BOOLEAN
      BY Zenon, <1>a DEF Op
    <3> HIDE DEF v, w
    <3> QED
      BY ZenonT(40), <1>a, <2>3, <3>1, BumpType
  <2> HIDE DEF phase
  <2> HIDE DEF bumped
  <2>6. rec.active /\ rec.phase = phase /\ rec.services = mem[op.m].services
    <3>1. rec.active /\ rec.phase = phase /\ rec.services = bumped.services
      BY Zenon, <2>4, <2>5, InPhaseType
    <3> QED
      BY Zenon, <2>5, <3>1
  <2> HIDE DEF rec
  <2>7. /\ Disjoint(new)
        /\ \A n \in Migrations : /\ new[n].active = mem[n].active /\ new[n].services = mem[n].services
                                 /\ Authorized(new[n]) = Authorized(mem[n])
    BY Zenon, <1>a, <1>b, <1>c, <2>3, <2>4, <2>6, DisjointExcept DEF Authorized, Owns
  <2> HIDE DEF new
  <2>8. SingleOwner'
    BY Zenon, <1>b, <2>1, <2>7 DEF SingleOwner
  <2>9. Stages' /\ Authorizations'
    BY Zenon, <1>c, <2>1, <2>2, <2>7 DEF LockInv, Stages, Authorizations
  <2>10. Copies'
    BY Zenon, <2>1, <2>2, <2>3, <2>7 DEF LockInv, Copies
  <2>11. Agreement'
    <3>1. status = "loaded" => Agree
      BY Zenon DEF LockInv, Agreement
    <3> QED
      BY Zenon, <2>1, <2>7, <3>1 DEF LockInv, Stages, Agreement, Agree
  <2> QED
    BY Zenon, <2>8, <2>9, <2>10, <2>11 DEF LockInv
<1>25. ASSUME ReconcileDone PROVE LockInv'
  <2>1. pc = "w_next" /\ disk' = disk /\ Reconciled(~op.failed)
    BY Zenon, <1>25 DEF ReconcileDone
  <2>2. status \in {"loaded", "serving"}
    BY Zenon, <2>1 DEF LockInv, Stages, TypeOK
  <2>3. CASE Stop
    BY Zenon, <1>b, <1>c, <2>1, <2>3, StopStep
  <2>4. CASE ~Stop
    <3>1. /\ mem' = mem /\ disk' = disk /\ pc' = "idle" /\ op' = NoOp
          /\ \/ status = "loaded" /\ status' = "ready" /\ watch' = "tick"
             \/ status = "serving" /\ status' = status
      BY Zenon, <2>1, <2>2, <2>4 DEF Reconciled, Finish
    <3>2. SingleOwner'
      BY Zenon, <1>b, <3>1 DEF SingleOwner, Disjoint, Owns
    <3>3. Authorizations'
      BY Zenon, <1>c, <2>1, <3>1 DEF LockInv, Authorizations, Authorized
    <3>4. Agreement'
      BY Zenon, <3>1 DEF LockInv, Agreement, Agree, Authorized
    <3> QED
      BY Zenon, <3>1, <3>2, <3>3, <3>4 DEF LockInv, Stages, Copies
  <2> QED
    BY Zenon, <2>3, <2>4
<1>26. ASSUME ResumeDone PROVE LockInv'
  <2>1. /\ pc = "z_next" /\ op.pending = {} /\ pc' = "idle" /\ status' = "serving"
        /\ UNCHANGED <<mem, disk, watch>>
    BY Zenon, <1>26 DEF ResumeDone, Finish
  <2>2. \A n \in Migrations : ~Authorized(mem[n])
    BY Zenon, <2>1 DEF LockInv, Stages, Authorizations, TypeOK
  <2>3. SingleOwner'
    BY Zenon, <1>b, <2>1 DEF SingleOwner, Disjoint, Owns
  <2> QED
    BY Zenon, <1>c, <2>1, <2>2, <2>3 DEF LockInv, Stages, Authorizations, Copies, Agreement, Authorized
<1>27. ASSUME UNCHANGED <<status, mem, disk, pc, op, watch>> PROVE LockInv'
  <2>1. Stages'
    BY Zenon, <1>27 DEF LockInv, Stages
  <2>2. Authorizations'
    BY Zenon, <1>27 DEF LockInv, Authorizations, Authorized
  <2>3. Copies'
    BY Zenon, <1>27 DEF LockInv, Copies, Authorized
  <2>4. Agreement'
    BY Zenon, <1>27 DEF LockInv, Agreement, Agree, Authorized
  <2>5. SingleOwner'
    BY Zenon, <1>27 DEF LockInv, SingleOwner, Disjoint, Owns, Authorized
  <2> QED
    BY Zenon, <2>1, <2>2, <2>3, <2>4, <2>5 DEF LockInv
<1>28. ASSUME NEW s \in Services, UnitStart(s) \/ UnexpectedRestart(s) PROVE LockInv'
  BY Zenon, <1>27, <1>28 DEF UnitStart, UnexpectedRestart
<1>29. ASSUME Crash \/ Reboot PROVE LockInv'
  <2>1. Stop /\ disk' = disk
    BY Zenon, <1>29 DEF Crash, Reboot
  <2> QED
    BY Zenon, <1>b, <1>c, <2>1, StopStep
<1>30. ASSUME Validate PROVE LockInv'
  <2>1. /\ UNCHANGED <<status, mem, disk, pc, op>> /\ watch' = "validated"
        /\ status = "serving" \/ (status = "loaded" /\ pc = "idle")
    BY Zenon, <1>30 DEF Validate
  <2>2. Authorizations'
    BY Zenon, <2>1 DEF LockInv, Authorizations, Authorized
  <2>3. Copies'
    BY Zenon, <2>1 DEF LockInv, Copies, Authorized
  <2>4. Agreement'
    BY Zenon, <2>1 DEF LockInv, Agreement, Agree, Authorized
  <2>5. SingleOwner'
    BY Zenon, <2>1 DEF LockInv, SingleOwner, Disjoint, Owns, Authorized
  <2> QED
    BY Zenon, <2>1, <2>2, <2>3, <2>4, <2>5 DEF LockInv, Stages
<1>31. ASSUME ReconcileBegin PROVE LockInv'
  <2>1. /\ watch = "validated" /\ pc = "idle" /\ pc' = "w_next" /\ watch' = "tick"
        /\ UNCHANGED <<status, mem, disk>>
    BY Zenon, <1>31 DEF ReconcileBegin
  <2>2. op'.pending = {m \in Migrations : mem[m].active}
    BY Zenon, <1>31 DEF ReconcileBegin, NoOp
  <2>3. status \in {"loaded", "serving"}
    BY Zenon, <2>1 DEF LockInv, Stages, TypeOK
  <2>4. Agreement' /\ SingleOwner'
    BY Zenon, <2>1, <2>3 DEF LockInv, Agreement, Agree, Authorized, SingleOwner, Disjoint, Owns
  <2>5. Authorizations'
    BY Zenon, <1>c, <2>1, <2>3 DEF LockInv, Authorizations, Authorized
  <2> QED
    BY Zenon, <2>1, <2>2, <2>3, <2>4, <2>5 DEF LockInv, Stages, Copies
<1>32. ASSUME ResumeBegin PROVE LockInv'
  <2>1. /\ pc = "idle" /\ pc' = "z_next" /\ watch' = "tick" /\ UNCHANGED <<status, mem, disk>>
        /\ status = "ready" \/ watch = "resume"
    BY Zenon, <1>32 DEF ResumeBegin
  <2>2. op'.pending = {m \in Migrations : ~mem[m].active /\ Authorized(mem[m])}
    BY Zenon, <1>32 DEF ResumeBegin, NoOp, Authorized
  <2>3. status \in {"ready", "serving"}
    BY Zenon, <2>1 DEF LockInv, Stages, TypeOK
  <2>4. Agreement' /\ SingleOwner'
    BY Zenon, <2>1, <2>3 DEF LockInv, Agreement, Agree, Authorized, SingleOwner, Disjoint, Owns
  <2>5. Authorizations'
    BY Zenon, <1>c, <2>1, <2>2, <2>3 DEF LockInv, Authorizations, Authorized
  <2> QED
    BY Zenon, <2>1, <2>3, <2>4, <2>5 DEF LockInv, Stages, Copies
<1>33. ASSUME Start PROVE LockInv'
  <2>1. status = "down" /\ status' = "loaded" /\ mem' = Load(disk) /\ UNCHANGED <<disk, pc, op, watch>>
    BY Zenon, <1>33 DEF Start
  <2>2. \A m \in Migrations : /\ mem'[m].active = disk[m].active /\ mem'[m].services = disk[m].services
                              /\ Authorized(mem'[m]) = Authorized(disk[m])
    BY Zenon, <1>a, <2>1, LoadFields
  <2>3. Disjoint(mem')
    BY Zenon, <1>b, <2>2 DEF Disjoint, Owns, Authorized
  <2>4. Disjoint(disk')
    BY Zenon, <1>b, <2>1
  <2>5. pc = "idle" /\ watch = "tick"
    BY Zenon, <2>1 DEF LockInv, Stages
  <2>6. Authorizations' /\ Agreement'
    BY Zenon, <1>c, <2>1, <2>2, <2>5 DEF Authorizations, Agreement, Agree, Authorized
  <2> QED
    BY Zenon, <2>1, <2>3, <2>4, <2>5, <2>6 DEF LockInv, Stages, Copies, SingleOwner
<1>34. ASSUME AcceptPersists PROVE LockInv'
  <2>1. status = "serving" /\ disk' = mem /\ UNCHANGED <<status, mem, pc, op, watch>>
    BY Zenon, <1>34 DEF AcceptPersists
  <2>2. Disjoint(mem') /\ Disjoint(disk')
    BY Zenon, <1>b, <2>1
  <2>3. Stages' /\ Authorizations' /\ Copies'
    BY ZenonT(40), <1>c, <2>1 DEF LockInv, Stages, Authorizations, Copies, Authorized, Owns
  <2> QED
    BY Zenon, <2>1, <2>2, <2>3 DEF LockInv, SingleOwner, Agreement, Agree
<1>35. ASSUME NEW out \in Outcomes, Unavailable(out) PROVE LockInv'
  <2> DEFINE new == [m \in Migrations |-> IF mem[m].active THEN Bump(mem[m], TRUE, TRUE) ELSE mem[m]]
  <2>1. /\ watch = "validated" /\ disk' \in {disk, new}
        /\ \/ status = "loaded" /\ Stop
           \/ status # "loaded" /\ mem' = new /\ UNCHANGED <<status, pc, op>>
    BY Zenon, <1>35 DEF Unavailable
  <2>2. status \in {"loaded", "serving"}
    BY Zenon, <2>1 DEF LockInv, Stages, TypeOK
  <2>3. \A m \in Migrations : /\ new[m].active = mem[m].active
                              /\ new[m].services = mem[m].services
                              /\ Authorized(new[m]) = Authorized(mem[m])
                              /\ ~mem[m].active => new[m] = mem[m]
    BY Zenon, <1>a, BumpType DEF Authorized
  <2> HIDE DEF new
  <2>4. Disjoint(new)
    BY Zenon, <1>b, <2>3 DEF Disjoint, Owns, Authorized
  <2>5. Disjoint(disk') /\ \A m \in Migrations : Authorized(disk'[m]) => ~disk'[m].active
    BY Zenon, <1>b, <1>c, <2>1, <2>3, <2>4
  <2>6. CASE status = "loaded"
    BY Zenon, <2>1, <2>5, <2>6, StopStep
  <2>7. CASE status = "serving"
    <3>1. mem' = new /\ UNCHANGED <<status, pc, op>>
      BY Zenon, <2>1, <2>7
    <3>2. op.pending \subseteq Migrations
      BY Zenon, <1>a DEF Op
    <3>3. Stages' /\ Authorizations'
      BY Zenon, <1>c, <2>3, <2>5, <2>7, <3>1, <3>2 DEF LockInv, Stages, Authorizations
    <3>4. Copies'
      BY ZenonT(40), <1>c, <2>3, <2>7, <3>1, <3>2 DEF LockInv, Stages, Copies, Owns, Authorized
    <3>5. Agreement'
      BY Zenon, <2>1, <2>3, <2>7, <3>1 DEF LockInv, Agreement, Agree
    <3> QED
      BY Zenon, <2>4, <2>5, <3>1, <3>3, <3>4, <3>5 DEF LockInv, SingleOwner
  <2> QED
    BY Zenon, <2>2, <2>6, <2>7
<1>36. CASE UNCHANGED vars
  BY Zenon, <1>27, <1>36 DEF vars
<1> QED
  BY ZenonT(40), <1>1, <1>2, <1>3, <1>4, <1>5, <1>6, <1>7, <1>8, <1>9, <1>10, <1>11, <1>12, <1>13, <1>14, <1>15, <1>16, <1>17, <1>18, <1>19, <1>20, <1>21, <1>22, <1>23, <1>24, <1>25, <1>26, <1>28, <1>29, <1>30, <1>31, <1>32, <1>33, <1>34, <1>35, <1>36
  DEF Next, Requests, HolderStep, Environment

\* The inductive invariant: what the lock holder relies on at each step holds,
\* whatever the watchdog, other connections, crashes and reboots do meanwhile.
THEOREM LockInvariant == Spec => []LockInv
<1>1. Init => LockInv
  BY Zenon, LockInit
<1>2. TypeOK /\ TypeOK' /\ LockInv /\ [Next]_vars => LockInv'
  BY Zenon, LockNext
<1> QED
  BY <1>1, <1>2, TypeCorrect, PTL DEF Spec

\* No two fences own the marker of one service, in memory or in the state file.
THEOREM SingleOwnerHolds == Spec => []SingleOwner
<1>1. LockInv => SingleOwner
  BY Zenon DEF LockInv
<1> QED
  BY <1>1, LockInvariant, PTL

\* No request of a serving broker meets a release left half done by another:
\* the branch of releaseWriterFence for such a record is never taken.
THEOREM NoLooseAuthorizationHolds == Spec => []NoLooseAuthorization
<1>1. LockInv => NoLooseAuthorization
  BY Zenon DEF LockInv, Authorizations, Authorized, NoLooseAuthorization, Completing, Restoring
<1> QED
  BY <1>1, LockInvariant, PTL

-----------------------------------------------------------------------------
(* Markers *)

\* Only the release removes markers.
LEMMA MarkersKept ==
  ASSUME [Next]_vars, ~(\E s \in Services : RemoveMarker(s)), ~(\E T \in SUBSET Services : RemoveFails(T))
  PROVE  markers \subseteq markers'
<1>1. CASE UNCHANGED vars
  BY Zenon, <1>1 DEF vars
<1>2. CASE Requests
  BY <1>2 DEF Requests, ActivateBegin, ReleaseBegin, VerifyBegin, ReleaseUnknown, ReleaseAgain
<1>3. CASE HolderStep
  BY Zenon, <1>3 DEF HolderStep, InstallMarker, InstallFails, StopService, StartService, VerifyStopped, VerifyRestarted,
     VerifyPoll, PersistIntent, CommitActive, AuthorizeRelease, CommitReleased, CommitRestored, VerifyCommit,
     ReconcileFence, ResumeFence, CheckService, ReconcileCommit, ReconcileDone, ResumeDone
<1>4. CASE Environment
  BY Zenon, <1>4 DEF Environment, UnitStart, UnexpectedRestart, Crash, Reboot
<1>5. CASE Validate \/ ReconcileBegin \/ ResumeBegin \/ Start \/ AcceptPersists \/ \E out \in Outcomes : Unavailable(out)
  BY Zenon, <1>5 DEF Validate, ReconcileBegin, ResumeBegin, Start, AcceptPersists, Unavailable
<1> QED
  BY Zenon, <1>1, <1>2, <1>3, <1>4, <1>5 DEF Next

\* the fence whose markers are being removed is authorized in the state file
LEMMA RemovalFacts ==
  ASSUME TypeOK, LockInv, pc = "c_unmark"
  PROVE  /\ op.m \in Migrations /\ op.todo \subseteq disk[op.m].services /\ op.todo \subseteq mem[op.m].services
         /\ Authorized(disk[op.m]) /\ Authorized(mem[op.m]) /\ Agree
         /\ \A n \in Migrations : disk[n].active \/ mem[n].active => op.todo \cap disk[n].services = {}
                                                                  /\ op.todo \cap mem[n].services = {}
<1> USE DEF Completing, Restoring, Reconciling
<1>1. op.m \in Migrations /\ op.rec = mem[op.m] /\ Authorized(mem[op.m]) /\ op.todo \subseteq op.rec.services
  BY Zenon DEF LockInv, Stages, Copies
<1>2. Agree
  BY Zenon DEF LockInv, Stages, Agreement, TypeOK
<1>3. Authorized(disk[op.m]) /\ disk[op.m].services = mem[op.m].services
  BY Zenon, <1>1, <1>2 DEF Agree
<1>4. ASSUME NEW n \in Migrations, disk[n].active \/ mem[n].active
      PROVE  op.todo \cap disk[n].services = {} /\ op.todo \cap mem[n].services = {}
  <2>1. mem[n].active /\ disk[n].services = mem[n].services
    BY Zenon, <1>2, <1>4 DEF Agree
  <2>2. n # op.m
    BY Zenon, <1>1, <2>1 DEF LockInv, Authorizations
  <2>3. mem[n].services \cap mem[op.m].services = {}
    BY Zenon, <1>1, <2>1, <2>2 DEF LockInv, SingleOwner, Disjoint, Owns, Authorized
  <2> QED
    BY Zenon, <1>1, <2>1, <2>3
<1> QED
  BY Zenon, <1>1, <1>2, <1>3, <1>4

\* A crash can only ever resume an authorized release: whenever a marker goes,
\* the state file authorizes the release of its service at that moment.
THEOREM RemovalAuthorizedHolds == Spec => RemovalAuthorized
<1> DEFINE A == \A s \in markers \ markers' : \E m \in Migrations :
                  disk[m].phase = "release_authorized" /\ s \in disk[m].services
<1>1. TypeOK /\ LockInv /\ [Next]_vars => [A]_vars
  <2> SUFFICES ASSUME TypeOK, LockInv, [Next]_vars PROVE A
    BY Zenon
  <2>1. CASE \E s \in Services : RemoveMarker(s)
    <3>1. PICK s \in Services : pc = "c_unmark" /\ s \in op.todo /\ markers' = markers \ {s}
      BY Zenon, <2>1 DEF RemoveMarker
    <3> QED
      BY Zenon, <3>1, RemovalFacts DEF Authorized
  <2>2. CASE \E T \in SUBSET Services : RemoveFails(T)
    <3>1. PICK T \in SUBSET Services : pc = "c_unmark" /\ T \subseteq op.todo /\ markers' = markers \ T
      BY Zenon, <2>2 DEF RemoveFails
    <3> QED
      BY Zenon, <3>1, RemovalFacts DEF Authorized
  <2> QED
    BY Zenon, <2>1, <2>2, MarkersKept
<1> QED
  BY <1>1, TypeCorrect, LockInvariant, PTL DEF Spec, RemovalAuthorized

Marking == {"a_mark", "x_mark", "w_mark"}
Marked == {"a_intent", "x_stop", "x_commit", "w_check", "w_commit"} \cup Activation

\* a step outside a reconciliation that touches no record and removes no marker
LEMMA MarkerLocal ==
  ASSUME MarkerInv, UNCHANGED <<status, mem, disk>>, markers \subseteq markers',
         pc' \notin {"w_next"} \cup Reconciling,
         pc' \in Marking => op'.rec.services \ op'.todo \subseteq markers',
         pc' \in Marked => op'.rec.services \subseteq markers'
  PROVE  MarkerInv'
BY Zenon DEF MarkerInv, Inhibited, Marking, Marked

\* the lock holder is past its reconciliation, if any, and records were written
LEMMA MarkerWrite ==
  ASSUME MarkerInv, markers' = markers,
         pc' \notin {"w_next"} \cup Reconciling \cup Marking \cup Marked,
         status' \in {"ready", "serving"} => Inhibited(mem') /\ Inhibited(disk')
  PROVE  MarkerInv'
BY Zenon DEF MarkerInv, Inhibited, Marking, Marked, Reconciling

LEMMA MarkerStop ==
  ASSUME Stop
  PROVE  MarkerInv'
BY Zenon DEF Stop, Finish, MarkerInv, Reconciling, Activation

LEMMA MarkerNext ==
  ASSUME "marker" \notin budget.kinds, TypeOK, LockInv, MarkerInv, [Next]_vars
  PROVE  MarkerInv'
<1> USE DEF Activation, Completing, Restoring, Reconciling, Marking, Marked
<1>a. /\ op \in Op /\ op.rec \in Fence /\ \A m \in Migrations : mem[m] \in Fence /\ disk[m] \in Fence
      /\ mem \in [Migrations -> Fence] /\ disk \in [Migrations -> Fence]
  BY Zenon DEF TypeOK, Op
<1>b. "active" \in Phases /\ "released" \in Phases
  BY Zenon DEF Phases
<1>c. status \in {"ready", "serving"} => Inhibited(mem) /\ Inhibited(disk)
  BY Zenon DEF MarkerInv
<1>1. ASSUME NEW m \in Migrations, NEW r \in Runs, NEW S \in Scopes, ActivateBegin(m, r, S) PROVE MarkerInv'
  <2>1. pc' = "a_mark" /\ UNCHANGED <<status, mem, disk, markers>>
    BY Zenon, <1>1 DEF ActivateBegin
  <2>2. op'.rec = Intent(m, r, S) /\ op'.todo = S
    BY Zenon, <1>1 DEF ActivateBegin, NoOp
  <2>3. op'.rec.services = S
    BY SMTT(30), <2>2, IntentType
  <2> QED
    BY Zenon, <2>1, <2>2, <2>3, MarkerLocal
<1>2. ASSUME NEW m \in Migrations, NEW r \in Runs, NEW S \in Scopes, ReleaseBegin(m, r, S) \/ VerifyBegin(m, r, S)
      PROVE  MarkerInv'
  <2>1. pc' \in {"r_auth", "v_poll"} /\ UNCHANGED <<status, mem, disk, markers>>
    BY Zenon, <1>2 DEF ReleaseBegin, VerifyBegin
  <2> QED
    BY Zenon, <2>1, MarkerLocal
<1>4. ASSUME NEW m \in Migrations, NEW r \in Runs, NEW S \in Scopes, NEW out \in Outcomes,
             ReleaseUnknown(m, r, S, out) \/ ReleaseAgain(m, r, S, out)
      PROVE  MarkerInv'
  <2> DEFINE new == [mem EXCEPT ![m] = Observed(r, S)]
  <2>1. /\ status = "serving" /\ pc = "idle" /\ UNCHANGED <<status, pc, markers>>
        /\ mem' \in {mem, new} /\ disk' \in {disk, mem, new}
    BY Zenon, <1>4 DEF ReleaseUnknown, ReleaseAgain, Request, Persist
  <2>2. ~Observed(r, S).active
    BY Zenon, RequestRecordTypes
  <2>3. Inhibited(new)
    BY Zenon, <1>a, <1>c, <2>1, <2>2 DEF Inhibited
  <2> HIDE DEF new
  <2> QED
    BY Zenon, <1>c, <2>1, <2>3, MarkerWrite
<1>6. ASSUME NEW s \in Services, InstallMarker(s) PROVE MarkerInv'
  <2>1. /\ UNCHANGED <<status, mem, disk>> /\ pc \in Marking /\ markers' = markers \cup {s}
        /\ \/ pc' = AfterMarks(pc) /\ op' = [op EXCEPT !.todo = op.rec.services] /\ op.todo = {s}
           \/ pc' = pc /\ op' = [op EXCEPT !.todo = op.todo \ {s}]
    BY Zenon, <1>6 DEF InstallMarker
  <2>2. /\ op'.m = op.m /\ op'.rec = op.rec /\ op'.pending = op.pending
        /\ \/ pc' = AfterMarks(pc) /\ op.todo = {s}
           \/ pc' = pc /\ op'.todo = op.todo \ {s}
    BY Zenon, <1>a, <2>1 DEF Op
  <2>3. op.rec.services \ op.todo \subseteq markers
    BY Zenon, <2>1 DEF MarkerInv
  <2>4. /\ pc' \in Marking => op.rec.services \ op'.todo \subseteq markers'
        /\ pc' \in Marked => op.rec.services \subseteq markers'
    BY Zenon, <2>1, <2>2, <2>3 DEF AfterMarks
  <2>5. CASE pc # "w_mark"
    BY Zenon, <2>1, <2>2, <2>4, <2>5, MarkerLocal DEF AfterMarks
  <2>6. CASE pc = "w_mark"
    <3>1. pc' \in {"w_mark", "w_check"}
      BY Zenon, <2>2, <2>6 DEF AfterMarks
    <3>2. mem[op.m].services = op.rec.services
      BY Zenon, <2>6 DEF LockInv, Copies
    <3>3. \A m \in Migrations \ op.pending :
            mem[m].active => mem[m].services \subseteq markers \/ m = op.m
      BY Zenon, <2>6 DEF MarkerInv
    <3>4. (Inhibited(mem)' /\ Inhibited(disk)') \/ status \notin {"ready", "serving"}
      BY Zenon, <1>c, <2>1 DEF Inhibited
    <3> QED
      BY Zenon, <2>1, <2>2, <2>4, <3>1, <3>2, <3>3, <3>4 DEF MarkerInv
  <2> QED
    BY Zenon, <2>5, <2>6
<1>7. ASSUME NEW s \in Services, RemoveMarker(s) PROVE MarkerInv'
  <2>1. /\ pc = "c_unmark" /\ s \in op.todo /\ markers' = markers \ {s} /\ UNCHANGED <<status, mem, disk>>
        /\ pc' \in {"c_unmark", "c_start", "c_verify"}
    BY Zenon, <1>7 DEF RemoveMarker, ToStart
  <2>2. \A n \in Migrations : disk[n].active \/ mem[n].active => s \notin disk[n].services /\ s \notin mem[n].services
    BY Zenon, <2>1, RemovalFacts
  <2>3. status \in {"ready", "serving"} => Inhibited(mem)' /\ Inhibited(disk)'
    BY Zenon, <1>c, <2>1, <2>2 DEF Inhibited
  <2> QED
    BY Zenon, <2>1, <2>3 DEF MarkerInv
<1>8. ASSUME NEW T \in SUBSET Services, InstallFails(T) \/ RemoveFails(T) PROVE MarkerInv'
  BY Zenon, <1>8 DEF InstallFails, RemoveFails, Try, CanFault
<1>10. ASSUME NEW s \in Services, NEW ok \in BOOLEAN, StopService(s, ok) PROVE MarkerInv'
  <2>1. /\ UNCHANGED <<status, mem, disk, markers>> /\ pc \in {"a_abort", "a_stop", "x_stop"}
        /\ \/ pc' = "idle"
           \/ pc' = pc /\ op' = [op EXCEPT !.todo = op.todo \ {s}, !.failed = op.failed \/ ~ok]
           \/ pc = "a_stop" /\ pc' = "a_verify" /\ op' = [op EXCEPT !.todo = {}]
           \/ pc = "x_stop" /\ pc' = "x_commit" /\ op' = [op EXCEPT !.todo = {}]
    BY Zenon, <1>10 DEF StopService, Finish
  <2>2. pc' = "idle" \/ (op'.rec = op.rec /\ pc' \in {pc, "a_verify", "x_commit"} /\ (pc = "a_abort" => pc' = pc))
    BY Zenon, <1>a, <2>1 DEF Op
  <2>3. pc # "a_abort" => op.rec.services \subseteq markers
    BY Zenon, <2>1 DEF MarkerInv
  <2> QED
    BY Zenon, <2>1, <2>2, <2>3, MarkerLocal
<1>11. ASSUME NEW b \in BOOLEAN, VerifyRestarted(b) \/ \E s \in Services : StartService(s, b)
       PROVE  MarkerInv'
  <2>1. /\ UNCHANGED <<status, mem, disk, markers>>
        /\ \/ pc' \in {"c_start", "c_verify", "c_commit"}
           \/ pc' = "x_mark" /\ op' = [op EXCEPT !.todo = op.rec.services, !.failed = TRUE]
    BY Zenon, <1>11 DEF StartService, VerifyRestarted, ToStart, Rollback
  <2>2. pc' = "x_mark" => op'.todo = op'.rec.services
    BY ZenonT(40), <1>a, <2>1 DEF Op
  <2> QED
    BY Zenon, <2>1, <2>2, MarkerLocal
<1>12. ASSUME NEW known \in BOOLEAN, VerifyStopped(known) \/ VerifyPoll(known) PROVE MarkerInv'
  <2>1. /\ UNCHANGED <<status, mem, disk, markers>>
        /\ \/ pc' \in {"idle", "v_commit"}
           \/ pc = "a_verify" /\ pc' = "a_commit" /\ UNCHANGED op
    BY Zenon, <1>12 DEF VerifyStopped, VerifyPoll, Finish
  <2>2. pc = "a_verify" => op.rec.services \subseteq markers
    BY Zenon DEF MarkerInv
  <2> QED
    BY Zenon, <2>1, <2>2, MarkerLocal
<1>15. ASSUME NEW out \in Outcomes, PersistIntent(out) PROVE MarkerInv'
  <2> DEFINE new == [mem EXCEPT ![op.m] = op.rec]
  <2>1. /\ pc = "a_intent" /\ UNCHANGED <<status, op, markers>> /\ pc' \in {"a_stop", "a_abort"}
        /\ mem' \in {mem, new} /\ disk' \in {disk, new}
    BY Zenon, <1>15 DEF PersistIntent, Persist
  <2>2. status = "serving" /\ op.rec.services \subseteq markers
    BY Zenon, <2>1 DEF LockInv, Stages, MarkerInv, TypeOK
  <2>3. Inhibited(new)
    BY Zenon, <1>a, <1>c, <2>2 DEF Inhibited
  <2> HIDE DEF new
  <2>4. Inhibited(mem)' /\ Inhibited(disk)'
    BY Zenon, <1>c, <2>1, <2>2, <2>3 DEF Inhibited
  <2> QED
    BY Zenon, <2>1, <2>2, <2>4 DEF MarkerInv
<1>16. ASSUME NEW out \in Outcomes, CommitActive(out) PROVE MarkerInv'
  <2> DEFINE rec == InPhase(op.rec, TRUE, "active")
             new == [mem EXCEPT ![op.m] = rec]
             failed == [mem EXCEPT ![op.m] = Unproven(rec)]
  <2>1. /\ pc = "a_commit" /\ UNCHANGED <<status, markers>> /\ pc' = "idle"
        /\ mem' \in {new, failed} /\ disk' \in {disk, new}
    BY Zenon, <1>16 DEF CommitActive, Persist, Finish
  <2>2. status = "serving" /\ op.rec.services \subseteq markers
    BY Zenon, <2>1 DEF LockInv, Stages, MarkerInv, TypeOK
  <2>3. rec \in Fence /\ rec.services = op.rec.services
    BY Zenon, <1>a, <1>b, InPhaseType
  <2> HIDE DEF rec
  <2>4. Unproven(rec).services = op.rec.services
    BY Zenon, <2>3, UnprovenType
  <2>5. Inhibited(new) /\ Inhibited(failed)
    BY Zenon, <1>a, <1>c, <2>2, <2>3, <2>4 DEF Inhibited
  <2> HIDE DEF new, failed
  <2> QED
    BY Zenon, <1>c, <2>1, <2>2, <2>5, MarkerWrite
<1>17. ASSUME NEW out \in Outcomes, AuthorizeRelease(out) PROVE MarkerInv'
  <2> DEFINE new == [mem EXCEPT ![op.m] = op.rec]
  <2>1. /\ pc = "r_auth" /\ UNCHANGED <<status, markers>> /\ pc' \in {"c_unmark", "idle"}
        /\ mem' \in {mem, new} /\ disk' \in {disk, new}
    BY Zenon, <1>17 DEF AuthorizeRelease, Persist, Finish
  <2>2. status = "serving" /\ ~op.rec.active
    BY Zenon, <2>1 DEF LockInv, Stages, Copies, TypeOK
  <2>3. Inhibited(new)
    BY Zenon, <1>a, <1>c, <2>2 DEF Inhibited
  <2> HIDE DEF new
  <2> QED
    BY Zenon, <1>c, <2>1, <2>2, <2>3, MarkerWrite
<1>18. ASSUME NEW out \in Outcomes, CommitReleased(out) PROVE MarkerInv'
  <2> DEFINE rec == InPhase(op.rec, FALSE, "released")
             new == [mem EXCEPT ![op.m] = rec]
  <2>1. /\ pc = "c_commit" /\ UNCHANGED <<status, markers>> /\ mem' \in {mem, new} /\ disk' \in {disk, new}
        /\ \/ pc' \in {"z_next", "idle"}
           \/ pc' = "x_mark" /\ op' = [op EXCEPT !.todo = op.rec.services, !.failed = TRUE]
    BY Zenon, <1>18 DEF CommitReleased, Persist, Finish, Rollback
  <2>2. status \in {"ready", "serving"}
    BY Zenon, <2>1 DEF LockInv, Stages, TypeOK
  <2>3. ~rec.active
    BY Zenon, <1>a, <1>b, InPhaseType
  <2> HIDE DEF rec
  <2>4. Inhibited(new)
    BY Zenon, <1>a, <1>c, <2>2, <2>3 DEF Inhibited
  <2> HIDE DEF new
  <2>5. Inhibited(mem)' /\ Inhibited(disk)'
    BY Zenon, <1>c, <2>1, <2>2, <2>4 DEF Inhibited
  <2>6. pc' = "x_mark" => op'.todo = op'.rec.services
    BY ZenonT(40), <1>a, <2>1 DEF Op
  <2> QED
    BY Zenon, <2>1, <2>5, <2>6 DEF MarkerInv
<1>19. ASSUME NEW out \in Outcomes, CommitRestored(out) PROVE MarkerInv'
  <2> DEFINE rec == InPhase(op.rec, TRUE, "active")
             new == [mem EXCEPT ![op.m] = rec]
  <2>1. /\ pc = "x_commit" /\ disk' \in {disk, new} /\ markers' = markers
        /\ \/ status = "ready" /\ Stop
           \/ status # "ready" /\ mem' = new /\ pc' = "idle" /\ status' = status
    BY Zenon, <1>19 DEF CommitRestored, Persist, Finish
  <2>2. status \in {"ready", "serving"} /\ op.rec.services \subseteq markers
    BY Zenon, <2>1 DEF LockInv, Stages, TypeOK, MarkerInv
  <2>3. rec.services = op.rec.services
    BY Zenon, <1>a, <1>b, InPhaseType
  <2> HIDE DEF rec
  <2>4. Inhibited(new)
    BY Zenon, <1>a, <1>c, <2>2, <2>3 DEF Inhibited
  <2> HIDE DEF new
  <2> QED
    BY Zenon, <1>c, <2>1, <2>2, <2>4, MarkerWrite, MarkerStop
<1>20. ASSUME NEW out \in Outcomes, VerifyCommit(out) PROVE MarkerInv'
  <2> DEFINE phase == IF mem[op.m].phase = "activating" THEN "active" ELSE mem[op.m].phase
             rec == InPhase(mem[op.m], TRUE, phase)
             new == [mem EXCEPT ![op.m] = rec]
  <2>1. /\ pc = "v_commit" /\ UNCHANGED <<status, markers>> /\ pc' = "idle"
        /\ \/ mem[op.m].active /\ mem' = new /\ disk' \in {disk, new}
           \/ UNCHANGED <<mem, disk>>
    BY Zenon, <1>20 DEF VerifyCommit, Persist, Finish
  <2>2. status = "serving" /\ op.m \in Migrations
    BY Zenon, <2>1 DEF LockInv, Stages, TypeOK
  <2>3. phase \in Phases
    BY Zenon, <1>a, <1>b, <2>2 DEF Fence
  <2> HIDE DEF phase
  <2>4. rec.services = mem[op.m].services
    BY Zenon, <1>a, <2>2, <2>3, InPhaseType
  <2> HIDE DEF rec
  <2>5. mem[op.m].active => Inhibited(new)
    BY Zenon, <1>a, <1>c, <2>2, <2>4 DEF Inhibited
  <2> HIDE DEF new
  <2> QED
    BY Zenon, <1>c, <2>1, <2>2, <2>5, MarkerWrite
<1>21. ASSUME NEW m \in Migrations, ReconcileFence(m) PROVE MarkerInv'
  <2>1. pc = "w_next" /\ m \in op.pending /\ pc' = "w_mark" /\ UNCHANGED <<status, mem, disk, markers>>
    BY Zenon, <1>21 DEF ReconcileFence
  <2>2. op'.m = m /\ op'.rec = mem[m] /\ op'.todo = mem[m].services /\ op'.pending = op.pending \ {m}
    BY Zenon, <1>a, <1>21 DEF ReconcileFence, Op
  <2> QED
    BY Zenon, <2>1, <2>2 DEF MarkerInv, Inhibited
<1>22. ASSUME ResumeBegin \/ \E m \in Migrations : ResumeFence(m) PROVE MarkerInv'
  <2>1. pc' \in {"c_unmark", "z_next"} /\ UNCHANGED <<status, mem, disk, markers>>
    BY Zenon, <1>22 DEF ResumeFence, ResumeBegin
  <2> QED
    BY Zenon, <2>1, MarkerLocal
<1>23. ASSUME NEW s \in Services, NEW res \in {"ok", "unknown", "stuck"}, CheckService(s, res) PROVE MarkerInv'
  <2>1. UNCHANGED <<status, mem, disk, markers>> /\ pc = "w_check" /\ pc' \in {"w_check", "w_commit"}
    BY Zenon, <1>23 DEF CheckService
  <2>2. op'.m = op.m /\ op'.rec = op.rec /\ op'.pending = op.pending
    BY Zenon, <1>a, <1>23 DEF CheckService, Op
  <2> QED
    BY Zenon, <2>1, <2>2 DEF MarkerInv, Inhibited
<1>24. ASSUME NEW known \in BOOLEAN, NEW out \in Outcomes, ReconcileCommit(known, out) PROVE MarkerInv'
  <2> DEFINE inactive == known /\ mem[op.m].services \cap running = {}
             v == op.violated \/ ~inactive
             w == op.wderr \/ ~inactive
             phase == IF inactive /\ mem[op.m].phase \in {"activating", "releasing"} THEN "active"
                      ELSE mem[op.m].phase
             bumped == Bump(mem[op.m], v, w)
             rec == InPhase(bumped, TRUE, phase)
             new == [mem EXCEPT ![op.m] = rec]
  <2>1. /\ pc = "w_commit" /\ UNCHANGED <<status, markers>> /\ pc' = "w_next"
        /\ mem' = new /\ disk' \in {disk, new}
    BY Zenon, <1>24 DEF ReconcileCommit
  <2>2. op'.m = op.m /\ op'.pending = op.pending
    BY Zenon, <1>a, <1>24 DEF ReconcileCommit, Op
  <2>3. op.m \in Migrations /\ mem[op.m].active /\ op.m \notin op.pending /\ op.pending \subseteq Migrations
    BY Zenon, <1>a, <2>1 DEF LockInv, Stages, Copies, Op
  <2>4. phase \in Phases
    BY Zenon, <1>a, <1>b, <2>3 DEF Fence
  <2>5. bumped \in Fence /\ bumped.services = mem[op.m].services
    <3>1. v \in BOOLEAN /\ w \in BOOLEAN
      BY Zenon, <1>a DEF Op
    <3> HIDE DEF v, w
    <3> QED
      BY ZenonT(40), <1>a, <2>3, <3>1, BumpType
  <2> HIDE DEF phase
  <2> HIDE DEF bumped
  <2>6. rec.active /\ rec.services = mem[op.m].services
    <3>1. rec.active /\ rec.services = bumped.services
      BY Zenon, <2>4, <2>5, InPhaseType
    <3> QED
      BY Zenon, <2>5, <3>1
  <2> HIDE DEF rec
  <2>7. \A n \in Migrations : new[n].active = mem[n].active /\ new[n].services = mem[n].services
    BY Zenon, <1>a, <2>3, <2>6
  <2> HIDE DEF new
  <2>8. status \in {"ready", "serving"} => Inhibited(mem)' /\ Inhibited(disk)'
    BY Zenon, <1>c, <2>1, <2>7 DEF Inhibited
  <2>9. \A m \in Migrations \ op.pending : mem[m].active => mem[m].services \subseteq markers
    BY Zenon, <2>1 DEF MarkerInv
  <2> QED
    BY Zenon, <2>1, <2>2, <2>7, <2>8, <2>9 DEF MarkerInv
<1>25. ASSUME ReconcileDone PROVE MarkerInv'
  <2>1. pc = "w_next" /\ op.pending = {} /\ UNCHANGED <<disk, markers>> /\ Reconciled(~op.failed)
    BY Zenon, <1>25 DEF ReconcileDone
  <2>2. CASE ~Stop
    <3>1. mem' = mem /\ pc' = "idle" /\ status \in {"loaded", "serving"}
      BY Zenon, <2>1, <2>2 DEF Reconciled, Finish, LockInv, Stages, TypeOK
    <3>2. \A m \in Migrations : mem[m].active => mem[m].services \subseteq markers
      BY Zenon, <2>1 DEF MarkerInv
    <3>3. status = "loaded" => Agree
      BY Zenon DEF LockInv, Agreement
    <3>4. Inhibited(mem') /\ Inhibited(disk')
      BY Zenon, <1>c, <2>1, <3>1, <3>2, <3>3 DEF Inhibited, Agree
    <3> QED
      BY Zenon, <2>1, <3>1, <3>4, MarkerWrite
  <2> QED
    BY Zenon, <2>2, MarkerStop
<1>26. ASSUME ResumeDone PROVE MarkerInv'
  <2>1. pc = "z_next" /\ pc' = "idle" /\ UNCHANGED <<mem, disk, markers>>
    BY Zenon, <1>26 DEF ResumeDone, Finish
  <2>2. status \in {"ready", "serving"}
    BY Zenon, <2>1 DEF LockInv, Stages, TypeOK
  <2> QED
    BY Zenon, <1>c, <2>1, <2>2, MarkerWrite
<1>27. ASSUME UNCHANGED <<status, mem, disk, markers, pc, op>> PROVE MarkerInv'
  BY Zenon, <1>27 DEF MarkerInv, Inhibited
<1>28. ASSUME Validate \/ \E s \in Services : UnitStart(s) \/ UnexpectedRestart(s) PROVE MarkerInv'
  BY Zenon, <1>27, <1>28 DEF UnitStart, UnexpectedRestart, Validate
<1>29. ASSUME Crash \/ Reboot PROVE MarkerInv'
  BY Zenon, <1>29, MarkerStop DEF Crash, Reboot
<1>31. ASSUME ReconcileBegin PROVE MarkerInv'
  <2>1. pc' = "w_next" /\ UNCHANGED <<status, mem, disk, markers>>
    BY Zenon, <1>31 DEF ReconcileBegin
  <2>2. op'.pending = {m \in Migrations : mem[m].active}
    BY Zenon, <1>31 DEF ReconcileBegin, NoOp
  <2> QED
    BY Zenon, <2>1, <2>2 DEF MarkerInv, Inhibited
<1>33. ASSUME Start PROVE MarkerInv'
  <2>1. status = "down" /\ status' = "loaded" /\ UNCHANGED <<pc, op>>
    BY Zenon, <1>33 DEF Start
  <2> QED
    BY Zenon, <2>1 DEF MarkerInv, LockInv, Stages
<1>34. ASSUME AcceptPersists PROVE MarkerInv'
  <2>1. status = "serving" /\ disk' = mem /\ UNCHANGED <<status, mem, markers, pc, op>>
    BY Zenon, <1>34 DEF AcceptPersists
  <2> QED
    BY Zenon, <2>1 DEF MarkerInv, Inhibited
<1>35. ASSUME NEW out \in Outcomes, Unavailable(out) PROVE MarkerInv'
  <2> DEFINE new == [m \in Migrations |-> IF mem[m].active THEN Bump(mem[m], TRUE, TRUE) ELSE mem[m]]
  <2>1. /\ markers' = markers /\ disk' \in {disk, new}
        /\ Stop \/ (mem' = new /\ UNCHANGED <<status, pc, op>>)
    BY Zenon, <1>35 DEF Unavailable
  <2>2. \A m \in Migrations : new[m].active = mem[m].active /\ new[m].services = mem[m].services
    BY Zenon, <1>a, BumpType
  <2> HIDE DEF new
  <2> QED
    BY ZenonT(40), <1>c, <2>1, <2>2, MarkerStop DEF MarkerInv, Inhibited
<1>36. CASE UNCHANGED vars
  BY Zenon, <1>27, <1>36 DEF vars
<1> QED
  BY ZenonT(40), <1>1, <1>2, <1>4, <1>6, <1>7, <1>8, <1>10, <1>11, <1>12, <1>15, <1>16, <1>17, <1>18, <1>19, <1>20, <1>21, <1>22, <1>23, <1>24, <1>25, <1>26, <1>28, <1>29, <1>31, <1>33, <1>34, <1>35, <1>36
  DEF Next, Requests, HolderStep, Environment

\* Unless installing a marker itself fails, a fence that the state file calls
\* active is inhibited whenever systemd may start writer units, through every
\* other failure, crash, reboot and interleaving of requests and watchdog.
THEOREM FenceInhibitedHolds == Spec => []FenceInhibited
<1> DEFINE Inv == "marker" \notin budget.kinds => MarkerInv
<1>1. Init => Inv
  BY Zenon DEF Init, MarkerInv, Reconciling, Activation
<1>2. TypeOK /\ LockInv /\ Inv /\ [Next]_vars => Inv'
  <2> SUFFICES ASSUME TypeOK, LockInv, Inv, [Next]_vars, "marker" \notin budget'.kinds PROVE MarkerInv'
    BY Zenon
  <2>1. budget'.kinds = budget.kinds
    BY Zenon, SpendsNext, SpendType DEF TypeOK
  <2> QED
    BY Zenon, <2>1, MarkerNext
<1>3. Inv => FenceInhibited
  BY Zenon DEF MarkerInv, Inhibited, FenceInhibited
<1> QED
  BY <1>1, <1>2, <1>3, TypeCorrect, LockInvariant, PTL DEF Spec

=============================================================================
