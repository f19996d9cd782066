---------------------- MODULE WriterFenceRecordProofs -----------------------
(***************************************************************************)
(* Proofs about what the fence records of WriterFence keep, for any        *)
(* migrations, services, requests, faults and bounds.  Three invariants    *)
(* build on what WriterFenceProofs says of the lock holder: which copy of  *)
(* a record carries the counters (EvidenceInv), which fence answers for a  *)
(* service that does not run (RememberInv), and where a restart has been   *)
(* noted (RestartInv).                                                     *)
(***************************************************************************)
EXTENDS WriterFenceProofs

-----------------------------------------------------------------------------
(* Part 1: what the records that the actions build keep *)

SameCounts(f, g) == f.viol = g.viol /\ f.wderr = g.wderr

LEMMA InPhaseKeeps ==
  ASSUME NEW f \in Fence, NEW a \in BOOLEAN, NEW p \in Phases
  PROVE  /\ InPhase(f, a, p) \in Fence /\ InPhase(f, a, p).phase = p /\ InPhase(f, a, p).active = a
         /\ InPhase(f, a, p).services = f.services /\ InPhase(f, a, p).prev = f.prev
         /\ InPhase(f, a, p).viol = f.viol /\ InPhase(f, a, p).wderr = f.wderr
BY Zenon DEF InPhase, Fence

LEMMA InPhaseCounts ==
  ASSUME NEW f \in Fence, NEW p \in Phases
  PROVE  /\ SameCounts(InPhase(f, TRUE, p), f) /\ InPhase(f, TRUE, p).prev = f.prev
         /\ SameCounts(InPhase(f, FALSE, p), f) /\ InPhase(f, FALSE, p).prev = f.prev
BY Zenon DEF InPhase, Fence, SameCounts

LEMMA UnprovenKeeps ==
  ASSUME NEW f \in Fence
  PROVE  Unproven(f).viol = f.viol /\ Unproven(f).wderr = f.wderr /\ Unproven(f).prev = f.prev
BY Zenon DEF Unproven, Fence

LEMMA IntentKeeps ==
  ASSUME TypeOK, NEW m \in Migrations, NEW r \in Runs, NEW S \in Scopes
  PROVE  /\ Intent(m, r, S).viol = mem[m].viol /\ Intent(m, r, S).wderr = mem[m].wderr
         /\ Intent(m, r, S).prev = IF mem[m].active THEN mem[m].prev ELSE S \cap running
<1> DEFINE prev == IF mem[m].active THEN mem[m].prev ELSE S \cap running
<1>1. mem[m] \in Fence
  BY Zenon DEF TypeOK
<1>2. Intent(m, r, S) = [mem[m] EXCEPT !.active = TRUE, !.phase = "activating", !.run = r,
                                       !.services = S, !.prev = prev]
  BY Zenon DEF Intent
<1>3. Intent(m, r, S).prev = prev /\ Intent(m, r, S).viol = mem[m].viol /\ Intent(m, r, S).wderr = mem[m].wderr
  <2> HIDE DEF prev
  <2> QED
    BY Zenon, <1>1, <1>2 DEF Fence
<1> QED
  BY Zenon, <1>3

LEMMA BumpKeeps ==
  ASSUME NEW f \in Fence, NEW v \in BOOLEAN, NEW w \in BOOLEAN
  PROVE  /\ Bump(f, v, w).prev = f.prev
         /\ Bump(f, v, w).viol \in Nat /\ Bump(f, v, w).viol >= f.viol /\ Bump(f, v, w).wderr >= f.wderr
         /\ v => Bump(f, v, w).viol > 0
<1> DEFINE i == f.viol + (IF v THEN 1 ELSE 0)
           j == f.wderr + (IF w THEN 1 ELSE 0)
<1>1. i \in Nat /\ j \in Nat /\ i >= f.viol /\ j >= f.wderr /\ (v => i > 0)
  BY DEF Fence
<1>2. Bump(f, v, w) = [f EXCEPT !.viol = i, !.wderr = j]
  BY Zenon DEF Bump
<1> HIDE DEF i, j
<1>3. Bump(f, v, w).viol = i /\ Bump(f, v, w).wderr = j /\ Bump(f, v, w).prev = f.prev
  BY Zenon, <1>2 DEF Fence
<1> QED
  BY Zenon, <1>1, <1>3

\* loadFences keeps the counters and gives every record a phase
LEMMA LoadKeeps ==
  ASSUME NEW f \in [Migrations -> Fence], NEW m \in Migrations
  PROVE  /\ SameCounts(Load(f)[m], f[m]) /\ Load(f)[m].phase # ""
         /\ Load(f)[m].phase = "none" <=> f[m].phase = "none"
         /\ Load(f)[m].active = f[m].active
         /\ f[m].phase # "" => Load(f)[m] = f[m]
<1> DEFINE prev == IF f[m].prev = {} THEN f[m].services ELSE f[m].prev
           legacy == [f[m] EXCEPT !.phase = "active", !.prev = prev]
           old == [f[m] EXCEPT !.phase = "released"]
<1>1. /\ legacy.active = f[m].active /\ legacy.viol = f[m].viol /\ legacy.wderr = f[m].wderr /\ legacy.phase = "active"
      /\ old.active = f[m].active /\ old.viol = f[m].viol /\ old.wderr = f[m].wderr /\ old.phase = "released"
  BY Zenon DEF Fence
<1>2. Load(f)[m] = IF f[m].phase # "" THEN f[m] ELSE IF f[m].active THEN legacy ELSE old
  BY Zenon DEF Load
<1> HIDE DEF legacy, old
<1>3. CASE f[m].phase # ""
  BY Zenon, <1>2, <1>3 DEF SameCounts
<1>4. CASE f[m].phase = "" /\ f[m].active
  BY Zenon, <1>1, <1>2, <1>4 DEF SameCounts
<1>5. CASE f[m].phase = "" /\ ~f[m].active
  BY Zenon, <1>1, <1>2, <1>5 DEF SameCounts
<1> QED
  BY Zenon, <1>3, <1>4, <1>5

\* records that all have a phase are loaded as they are
LEMMA LoadSame ==
  ASSUME NEW f \in [Migrations -> Fence], \A m \in Migrations : f[m].phase # ""
  PROVE  Load(f) = f
BY Zenon DEF Load

\* the steps of the lock holder that write no record
HolderMove ==
  \/ \E s \in Services : InstallMarker(s) \/ RemoveMarker(s)
  \/ \E T \in SUBSET Services : InstallFails(T) \/ RemoveFails(T)
  \/ \E s \in Services, ok \in BOOLEAN : StopService(s, ok) \/ StartService(s, ok)
  \/ \E known \in BOOLEAN : VerifyStopped(known) \/ VerifyRestarted(known) \/ VerifyPoll(known)
  \/ \E s \in Services, res \in {"ok", "unknown", "stuck"} : CheckService(s, res)

\* They work on the same copy, in the same part of the operation, or end it.
LEMMA HolderMoves ==
  ASSUME TypeOK, HolderMove
  PROVE  /\ UNCHANGED <<status, mem, disk, watch, production, dirty>>
         /\ \/ pc' = "idle" /\ op' = NoOp
            \/ /\ op'.m = op.m /\ op'.rec = op.rec /\ op'.who = op.who
               /\ \/ pc \in {"a_mark", "a_intent"} /\ pc' \in {"a_mark", "a_intent"}
                  \/ pc \in Activation /\ pc' \in Activation
                  \/ pc \in Completing /\ pc' \in Completing \cup {"x_mark"}
                  \/ pc \in Restoring /\ pc' \in Restoring
                  \/ pc \in Reconciling /\ pc' \in Reconciling
                  \/ pc \in {"a_abort", "v_poll"} /\ pc' \in {pc, "v_commit"}
<1> USE DEF Activation, Completing, Restoring, Reconciling
<1>a. op \in Op
  BY Zenon DEF TypeOK
<1>1. ASSUME NEW todo, NEW flag, \/ op' = [op EXCEPT !.todo = todo] \/ op' = [op EXCEPT !.todo = todo, !.failed = flag]
                                 \/ op' = [op EXCEPT !.todo = todo, !.wderr = flag] \/ op' = op
      PROVE  op'.m = op.m /\ op'.rec = op.rec /\ op'.who = op.who
  BY Zenon, <1>1, <1>a DEF Op
<1>2. CASE \E s \in Services : InstallMarker(s)
  BY Zenon, <1>1, <1>2 DEF InstallMarker, AfterMarks
<1>3. CASE \E s \in Services : RemoveMarker(s)
  BY Zenon, <1>1, <1>3 DEF RemoveMarker, ToStart
<1>4. CASE \E T \in SUBSET Services : InstallFails(T)
  BY Zenon, <1>1, <1>4 DEF InstallFails, AfterMarks, Finish
<1>5. CASE \E T \in SUBSET Services : RemoveFails(T)
  BY Zenon, <1>1, <1>5 DEF RemoveFails, Rollback
<1>6. CASE \E s \in Services, b \in BOOLEAN : StopService(s, b)
  BY Zenon, <1>1, <1>6 DEF StopService, Finish
<1>7. CASE \E s \in Services, b \in BOOLEAN : StartService(s, b)
  BY Zenon, <1>1, <1>7 DEF StartService, ToStart, Rollback
<1>8. CASE \E b \in BOOLEAN : VerifyStopped(b) \/ VerifyPoll(b)
  BY Zenon, <1>1, <1>8 DEF VerifyStopped, VerifyPoll, Finish
<1>9. CASE \E b \in BOOLEAN : VerifyRestarted(b)
  BY Zenon, <1>1, <1>9 DEF VerifyRestarted, Rollback
<1>10. CASE \E s \in Services, res \in {"ok", "unknown", "stuck"} : CheckService(s, res)
  <2>1. op'.m = op.m /\ op'.rec = op.rec /\ op'.who = op.who
    BY ZenonT(40), <1>a, <1>10 DEF CheckService, Op
  <2> QED
    BY Zenon, <2>1, <1>10 DEF CheckService
<1> QED
  BY Zenon, <1>2, <1>3, <1>4, <1>5, <1>6, <1>7, <1>8, <1>9, <1>10 DEF HolderMove

-----------------------------------------------------------------------------
(* Part 2: the evidence in the records *)

AtLeast(f, g) == \A m \in Migrations : f[m].viol >= g[m].viol /\ f[m].wderr >= g[m].wderr

\* a fence that was never asked for has charged nothing
Counted(f) == \A m \in Migrations : f[m].phase = "none" => ~f[m].active /\ f[m].viol = 0 /\ f[m].wderr = 0

\* the lock holder works on a record of its own
Working == {"a_mark", "a_intent", "r_auth"} \cup Activation \cup Completing \cup Restoring

\* Memory is never behind the state file, and the copy of a record that the lock
\* holder will write back carries the counters of the record in memory.
EvidenceInv ==
  /\ status # "down" => AtLeast(mem, disk)
  /\ Counted(mem) /\ Counted(disk)
  /\ pc \in Working => op.rec.phase # "none" /\ SameCounts(op.rec, mem[op.m])

\* a step that writes nothing
LEMMA EvidenceLocal ==
  ASSUME EvidenceInv, UNCHANGED <<mem, disk>>, status' # "down" => status # "down",
         pc' \in Working => op'.rec.phase # "none" /\ SameCounts(op'.rec, mem[op'.m])
  PROVE  EvidenceInv' /\ UNCHANGED disk
BY Zenon DEF EvidenceInv, AtLeast, Counted, SameCounts

\* one record is replaced by one that has charged at least as much
LEMMA EvidenceRecord ==
  ASSUME TypeOK, Counted(mem), NEW m \in Migrations, NEW rec \in Fence, rec.phase # "none",
         rec.viol >= mem[m].viol, rec.wderr >= mem[m].wderr
  PROVE  /\ [mem EXCEPT ![m] = rec] \in [Migrations -> Fence]
         /\ AtLeast([mem EXCEPT ![m] = rec], mem) /\ Counted([mem EXCEPT ![m] = rec])
         /\ SameCounts(rec, mem[m]) => AtLeast(mem, [mem EXCEPT ![m] = rec])
<1>1. mem \in [Migrations -> Fence] /\ \A n \in Migrations : mem[n].viol \in Nat /\ mem[n].wderr \in Nat
  BY Zenon DEF TypeOK, Fence
<1>2. PICK new : new = [mem EXCEPT ![m] = rec]
  BY Zenon
<1>3. new \in [Migrations -> Fence] /\ new[m] = rec /\ \A n \in Migrations : n # m => new[n] = mem[n]
  BY Zenon, <1>1, <1>2
<1>4. AtLeast(new, mem)
  BY <1>1, <1>3 DEF AtLeast
<1>5. Counted(new)
  BY Zenon, <1>3 DEF Counted
<1>6. SameCounts(rec, mem[m]) => AtLeast(mem, new)
  BY <1>1, <1>3 DEF AtLeast, SameCounts
<1> QED
  BY Zenon, <1>2, <1>3, <1>4, <1>5, <1>6

\* the records are written, by an operation that ends or goes on with its copy
LEMMA EvidenceWrite ==
  ASSUME TypeOK, EvidenceInv, status # "down", NEW new \in [Migrations -> Fence], AtLeast(new, mem), Counted(new),
         disk' \in {disk, new}, status' # "down" => mem' = new \/ (mem' = mem /\ AtLeast(mem, new)),
         Counted(mem'), pc' \in Working => op'.rec.phase # "none" /\ SameCounts(op'.rec, mem'[op'.m])
  PROVE  EvidenceInv' /\ AtLeast(disk', disk)
<1>1. \A m \in Migrations : /\ mem[m].viol \in Nat /\ mem[m].wderr \in Nat /\ disk[m].viol \in Nat /\ disk[m].wderr \in Nat
                            /\ new[m].viol \in Nat /\ new[m].wderr \in Nat
  BY Zenon DEF TypeOK, Fence
<1>2. AtLeast(mem, disk) /\ Counted(disk)
  BY Zenon DEF EvidenceInv
<1>3. AtLeast(new, disk) /\ AtLeast(new, new) /\ AtLeast(disk, disk)
  BY <1>1, <1>2 DEF AtLeast
<1>4. AtLeast(disk', disk) /\ Counted(disk')
  BY Zenon, <1>2, <1>3
<1>5. status' # "down" => AtLeast(mem', disk')
  BY Zenon, <1>2, <1>3
<1>6. AtLeast(disk', disk) /\ Counted(disk)' /\ Counted(mem)' /\ (status' # "down" => AtLeast(mem, disk)')
  BY Zenon, <1>4, <1>5 DEF AtLeast, Counted
<1> QED
  BY Zenon, <1>6 DEF EvidenceInv, SameCounts

\* the broker stops
LEMMA StopCounts == ASSUME Stop PROVE status' = "down" /\ Counted(mem') /\ pc' \notin Working
BY Zenon DEF Stop, Finish, Counted, NoFence, Working, Activation, Completing, Restoring

LEMMA EvidenceNext ==
  ASSUME TypeOK, LockInv, EvidenceInv, "systemctl" \notin budget.kinds, [Next]_vars
  PROVE  EvidenceInv' /\ AtLeast(disk', disk)
<1> DEFINE Goal == EvidenceInv' /\ AtLeast(disk', disk)
<1> USE DEF Activation, Completing, Restoring, Reconciling, Working
<1>a. /\ op \in Op /\ op.rec \in Fence /\ \A m \in Migrations : mem[m] \in Fence /\ disk[m] \in Fence
      /\ mem \in [Migrations -> Fence] /\ disk \in [Migrations -> Fence]
  BY Zenon DEF TypeOK, Op
<1>b. "activating" \in Phases /\ "active" \in Phases /\ "released" \in Phases /\ "release_authorized" \in Phases
  BY Zenon DEF Phases
<1>c. Counted(mem) /\ Counted(disk) /\ AtLeast(disk, disk) /\ AtLeast(mem, mem)
  BY <1>a DEF EvidenceInv, AtLeast, Fence
<1>d. ASSUME EvidenceInv' /\ UNCHANGED disk PROVE Goal
  BY Zenon, <1>c, <1>d
<1> HIDE DEF Goal
<1>1. ASSUME NEW m \in Migrations, NEW r \in Runs, NEW S \in Scopes, ActivateBegin(m, r, S) PROVE Goal
  <2>1. pc' = "a_mark" /\ UNCHANGED <<status, mem, disk>>
    BY Zenon, <1>1 DEF ActivateBegin
  <2>2. op'.m = m /\ op'.rec = Intent(m, r, S)
    BY Zenon, <1>1 DEF ActivateBegin, NoOp
  <2>3. op'.rec.phase # "none" /\ SameCounts(op'.rec, mem[op'.m])
    <3>1. Intent(m, r, S).phase = "activating"
      BY Zenon, IntentType
    <3>2. SameCounts(Intent(m, r, S), mem[m])
      BY ZenonT(40), IntentKeeps DEF SameCounts
    <3> QED
      BY Zenon, <2>2, <3>1, <3>2
  <2> QED
    BY Zenon, <1>d, <2>1, <2>3, EvidenceLocal
<1>2. ASSUME NEW m \in Migrations, NEW r \in Runs, NEW S \in Scopes, ReleaseBegin(m, r, S) PROVE Goal
  <2>1. UNCHANGED <<status, mem, disk>> /\ op'.m = m /\ op'.rec = InPhase(mem[m], FALSE, "release_authorized")
    BY Zenon, <1>2 DEF ReleaseBegin, NoOp
  <2>2. op'.rec.phase # "none" /\ SameCounts(op'.rec, mem[op'.m])
    <3>1. PICK f : f = mem[m] /\ f \in Fence
      BY Zenon, <1>a
    <3>2. InPhase(f, FALSE, "release_authorized").phase = "release_authorized"
      BY Zenon, <1>b, <3>1, InPhaseType
    <3>3. SameCounts(InPhase(f, FALSE, "release_authorized"), f)
      BY Zenon, <1>b, <3>1, InPhaseCounts
    <3> QED
      BY Zenon, <2>1, <3>1, <3>2, <3>3
  <2> QED
    BY Zenon, <1>d, <2>1, <2>2, EvidenceLocal
<1>3. ASSUME NEW m \in Migrations, NEW r \in Runs, NEW S \in Scopes, VerifyBegin(m, r, S) PROVE Goal
  <2>1. pc' = "v_poll" /\ UNCHANGED <<status, mem, disk>>
    BY Zenon, <1>3 DEF VerifyBegin
  <2> QED
    BY Zenon, <1>d, <2>1, EvidenceLocal
<1>4. ASSUME NEW m \in Migrations, NEW r \in Runs, NEW S \in Scopes, NEW out \in Outcomes,
             ReleaseUnknown(m, r, S, out)
      PROVE  Goal
  <2>1. PICK rec : rec = Observed(r, S)
    BY Zenon
  <2>2. PICK new : new = [mem EXCEPT ![m] = rec]
    BY Zenon
  <2>3. /\ status = "serving" /\ mem[m].phase = "none" /\ pc = "idle" /\ UNCHANGED <<status, pc, op>>
        /\ \/ mem' = new /\ disk' \in {disk, new}
           \/ mem' = mem /\ disk' \in {disk, new}
    BY Zenon, <1>4, <2>1, <2>2 DEF ReleaseUnknown, Request, Persist
  <2>4. rec \in Fence /\ rec.phase # "none"
    BY Zenon, <2>1, RequestRecordTypes
  <2>5. rec.viol = 0 /\ rec.wderr = 0
    BY Zenon, <2>1 DEF Observed, NoFence
  <2>6. mem[m].viol = 0 /\ mem[m].wderr = 0
    BY Zenon, <1>c, <2>3 DEF Counted
  <2>7. new \in [Migrations -> Fence] /\ AtLeast(new, mem) /\ Counted(new) /\ AtLeast(mem, new)
    <3>1. SameCounts(rec, mem[m]) /\ rec.viol >= mem[m].viol /\ rec.wderr >= mem[m].wderr
      BY <2>5, <2>6 DEF SameCounts
    <3> QED
      BY Zenon, <1>c, <2>2, <2>4, <3>1, EvidenceRecord
  <2> QED
    BY Zenon, <1>c, <2>3, <2>7, EvidenceWrite DEF Goal
<1>5. ASSUME NEW m \in Migrations, NEW r \in Runs, NEW S \in Scopes, NEW out \in Outcomes,
             ReleaseAgain(m, r, S, out)
      PROVE  Goal
  <2>1. status = "serving" /\ pc = "idle" /\ UNCHANGED <<status, mem, pc, op>> /\ disk' \in {disk, mem}
    BY Zenon, <1>5 DEF ReleaseAgain, Request, Persist
  <2> QED
    BY Zenon, <1>a, <1>c, <2>1, EvidenceWrite DEF Goal
<1>6. ASSUME HolderMove PROVE Goal
  <2>1. /\ UNCHANGED <<status, mem, disk>>
        /\ pc' \in Working => pc \in Working /\ op'.m = op.m /\ op'.rec = op.rec
    BY Zenon, <1>6, HolderMoves
  <2>2. pc \in Working => op.rec.phase # "none" /\ SameCounts(op.rec, mem[op.m])
    BY Zenon DEF EvidenceInv
  <2> QED
    BY <1>d, <2>1, <2>2, EvidenceLocal
<1>7. ASSUME NEW out \in Outcomes, PersistIntent(out) \/ AuthorizeRelease(out) PROVE Goal
  <2>1. PICK new : new = [mem EXCEPT ![op.m] = op.rec]
    BY Zenon
  <2>2. /\ pc \in {"a_intent", "r_auth"} /\ status' = status /\ disk' \in {disk, new} /\ mem' \in {mem, new}
        /\ \/ op' \in {op, [op EXCEPT !.todo = op.rec.services]}
           \/ pc' = "idle"
    BY Zenon, <1>7, <2>1 DEF PersistIntent, AuthorizeRelease, Persist, Finish
  <2>3. pc' = "idle" \/ (op'.m = op.m /\ op'.rec = op.rec)
    BY Zenon, <1>a, <2>2 DEF Op
  <2>4. status = "serving" /\ op.m \in Migrations
    BY Zenon, <2>2 DEF LockInv, Stages, TypeOK
  <2>5. op.rec.phase # "none" /\ SameCounts(op.rec, mem[op.m])
    BY Zenon, <2>2 DEF EvidenceInv
  <2>6. op.rec.viol >= mem[op.m].viol /\ op.rec.wderr >= mem[op.m].wderr
    BY <1>a, <2>4, <2>5 DEF SameCounts, Fence
  <2>7. new \in [Migrations -> Fence] /\ AtLeast(new, mem) /\ Counted(new) /\ AtLeast(mem, new)
    BY Zenon, <1>a, <1>c, <2>1, <2>4, <2>5, <2>6, EvidenceRecord
  <2>8. SameCounts(op.rec, mem'[op.m])
    BY Zenon, <1>a, <2>1, <2>2, <2>4, <2>5 DEF SameCounts
  <2>9. Counted(mem')
    BY Zenon, <1>c, <2>2, <2>7
  <2> QED
    BY Zenon, <2>2, <2>3, <2>4, <2>5, <2>7, <2>8, <2>9, EvidenceWrite DEF Goal
<1>8. ASSUME NEW out \in Outcomes, CommitActive(out) PROVE Goal
  <2>1. PICK rec : rec = InPhase(op.rec, TRUE, "active")
    BY Zenon
  <2>2. PICK new : new = [mem EXCEPT ![op.m] = rec]
    BY Zenon
  <2>3. PICK late : late = [mem EXCEPT ![op.m] = Unproven(rec)]
    BY Zenon
  <2>4. /\ pc = "a_commit" /\ status' = status /\ pc' = "idle" /\ disk' \in {disk, new} /\ mem' \in {new, late}
    BY Zenon, <1>8, <2>1, <2>2, <2>3 DEF CommitActive, Persist, Finish
  <2>5. status = "serving" /\ op.m \in Migrations
    BY Zenon, <2>4 DEF LockInv, Stages, TypeOK
  <2>6. op.rec.phase # "none" /\ SameCounts(op.rec, mem[op.m])
    BY Zenon, <2>4 DEF EvidenceInv
  <2>7. rec \in Fence /\ rec.phase = "active" /\ SameCounts(rec, mem[op.m])
    <3>1. rec \in Fence /\ rec.phase = "active" /\ SameCounts(rec, op.rec)
      BY Zenon, <1>a, <1>b, <2>1, InPhaseType, InPhaseCounts
    <3> QED
      BY Zenon, <2>6, <3>1 DEF SameCounts
  <2>8. Unproven(rec) \in Fence /\ Unproven(rec).phase = "activating" /\ SameCounts(Unproven(rec), mem[op.m])
    BY Zenon, <2>7, UnprovenType, UnprovenKeeps DEF SameCounts
  <2>9. \A f \in Fence : SameCounts(f, mem[op.m]) => f.viol >= mem[op.m].viol /\ f.wderr >= mem[op.m].wderr
    BY <1>a, <2>5 DEF SameCounts, Fence
  <2>10. new \in [Migrations -> Fence] /\ AtLeast(new, mem) /\ Counted(new) /\ AtLeast(mem, new)
    BY Zenon, <1>c, <2>2, <2>5, <2>7, <2>9, EvidenceRecord
  <2>11. late \in [Migrations -> Fence] /\ AtLeast(late, mem) /\ Counted(late) /\ AtLeast(mem, late)
    BY Zenon, <1>c, <2>3, <2>5, <2>8, <2>9, EvidenceRecord
  <2>12. AtLeast(late, new) /\ AtLeast(new, disk) /\ AtLeast(late, disk)
    <3>1. \A n \in Migrations : /\ mem[n].viol \in Nat /\ mem[n].wderr \in Nat /\ new[n].viol \in Nat /\ new[n].wderr \in Nat
                                /\ late[n].viol \in Nat /\ late[n].wderr \in Nat /\ disk[n].viol \in Nat /\ disk[n].wderr \in Nat
      BY Zenon, <1>a, <2>10, <2>11 DEF Fence
    <3>2. AtLeast(mem, disk)
      BY Zenon, <2>5 DEF EvidenceInv
    <3> QED
      BY <2>10, <2>11, <3>1, <3>2 DEF AtLeast
  <2>13. AtLeast(new, new)
    BY <2>10 DEF AtLeast, Fence
  <2>14. AtLeast(mem', disk') /\ AtLeast(disk', disk) /\ Counted(mem') /\ Counted(disk')
    BY Zenon, <1>c, <2>4, <2>10, <2>11, <2>12, <2>13
  <2>15. AtLeast(mem, disk)' /\ Counted(mem)' /\ Counted(disk)'
    BY Zenon, <2>14 DEF AtLeast, Counted
  <2> QED
    BY Zenon, <2>4, <2>14, <2>15 DEF Goal, EvidenceInv
<1>9. ASSUME NEW out \in Outcomes, CommitReleased(out) \/ CommitRestored(out) PROVE Goal
  <2>1. PICK active \in BOOLEAN, phase \in {"released", "active"} :
          /\ disk' \in {disk, [mem EXCEPT ![op.m] = InPhase(op.rec, active, phase)]}
          /\ pc \in {"c_commit", "x_commit"}
          /\ \/ Stop
             \/ /\ status' = status /\ mem' = [mem EXCEPT ![op.m] = InPhase(op.rec, active, phase)]
                /\ pc' \in {"idle", "z_next"}
             \/ /\ status' = status /\ mem' = mem /\ pc' = "x_mark"
                /\ op' = [op EXCEPT !.todo = op.rec.services, !.failed = TRUE]
    <3>1. CASE CommitReleased(out)
      BY Zenon, <3>1 DEF CommitReleased, Persist, Finish, Rollback
    <3>2. CASE CommitRestored(out)
      BY Zenon, <3>2 DEF CommitRestored, Persist, Finish
    <3> QED
      BY Zenon, <1>9, <3>1, <3>2
  <2>2. PICK rec : rec = InPhase(op.rec, active, phase)
    BY Zenon
  <2>3. PICK new : new = [mem EXCEPT ![op.m] = rec]
    BY Zenon
  <2>4. status \in {"ready", "serving"} /\ op.m \in Migrations
    BY Zenon, <2>1 DEF LockInv, Stages, TypeOK
  <2>5. op.rec.phase # "none" /\ SameCounts(op.rec, mem[op.m])
    BY Zenon, <2>1 DEF EvidenceInv
  <2>6. rec \in Fence /\ rec.phase # "none" /\ SameCounts(rec, mem[op.m])
    <3>0. phase \in Phases /\ op.rec \in Fence /\ phase # "none"
      BY Zenon, <1>a, <1>b
    <3>1. /\ InPhase(op.rec, active, phase) \in Fence /\ InPhase(op.rec, active, phase).phase = phase
          /\ InPhase(op.rec, active, phase).viol = op.rec.viol /\ InPhase(op.rec, active, phase).wderr = op.rec.wderr
      BY SMT, <3>0, InPhaseKeeps
    <3>2. /\ rec \in Fence /\ rec.phase = phase
          /\ rec.viol = op.rec.viol /\ rec.wderr = op.rec.wderr
      BY Zenon, <2>2, <3>1
    <3> QED
      BY Zenon, <2>5, <3>0, <3>2 DEF SameCounts
  <2>7. rec.viol >= mem[op.m].viol /\ rec.wderr >= mem[op.m].wderr
    BY <1>a, <2>4, <2>6 DEF SameCounts, Fence
  <2>8. new \in [Migrations -> Fence] /\ AtLeast(new, mem) /\ Counted(new) /\ AtLeast(mem, new)
    BY Zenon, <1>c, <2>3, <2>4, <2>6, <2>7, EvidenceRecord
  <2>9. disk' \in {disk, new}
    BY Zenon, <2>1, <2>2, <2>3
  <2>10. CASE Stop
    BY Zenon, <2>4, <2>8, <2>9, <2>10, StopCounts, EvidenceWrite DEF Goal
  <2>11. CASE mem' = new /\ pc' \in {"idle", "z_next"}
    BY Zenon, <2>4, <2>8, <2>9, <2>11, EvidenceWrite DEF Goal
  <2>12. CASE mem' = mem /\ pc' = "x_mark" /\ op' = [op EXCEPT !.todo = op.rec.services, !.failed = TRUE]
    <3>1. op'.m = op.m /\ op'.rec = op.rec
      BY Zenon, <1>a, <2>12 DEF Op
    <3> QED
      BY Zenon, <1>c, <2>4, <2>5, <2>8, <2>9, <2>12, <3>1, EvidenceWrite DEF Goal
  <2> QED
    BY Zenon, <2>1, <2>2, <2>3, <2>10, <2>11, <2>12
<1>10. ASSUME NEW out \in Outcomes, VerifyCommit(out) PROVE Goal
  <2>1. PICK phase : phase = IF mem[op.m].phase = "activating" THEN "active" ELSE mem[op.m].phase
    BY Zenon
  <2>2. PICK rec : rec = InPhase(mem[op.m], TRUE, phase)
    BY Zenon
  <2>3. PICK new : new = [mem EXCEPT ![op.m] = rec]
    BY Zenon
  <2>4. /\ pc = "v_commit" /\ status' = status /\ pc' = "idle"
        /\ \/ mem[op.m].active /\ mem' = new /\ disk' \in {disk, new}
           \/ UNCHANGED <<mem, disk>>
    BY Zenon, <1>10, <2>1, <2>2, <2>3 DEF VerifyCommit, Persist, Finish
  <2>5. status = "serving" /\ op.m \in Migrations
    BY Zenon, <2>4 DEF LockInv, Stages, TypeOK
  <2>6. CASE UNCHANGED <<mem, disk>>
    BY Zenon, <1>d, <2>4, <2>6, EvidenceLocal
  <2>7. CASE mem[op.m].active /\ mem' = new /\ disk' \in {disk, new}
    <3>1. phase \in Phases /\ phase # "none"
      BY Zenon, <1>a, <1>b, <1>c, <2>1, <2>5, <2>7 DEF Fence, Counted
    <3>2. rec \in Fence /\ rec.phase # "none" /\ rec.viol = mem[op.m].viol /\ rec.wderr = mem[op.m].wderr
      <4>1. PICK f : f = mem[op.m] /\ f \in Fence
        BY Zenon, <1>a, <2>5
      <4>2. InPhase(f, TRUE, phase) \in Fence /\ InPhase(f, TRUE, phase).phase = phase
        BY Zenon, <3>1, <4>1, InPhaseType
      <4>3. SameCounts(InPhase(f, TRUE, phase), f)
        BY Zenon, <3>1, <4>1, InPhaseCounts
      <4> QED
        BY Zenon, <2>2, <3>1, <4>1, <4>2, <4>3 DEF SameCounts
    <3>3. rec.viol >= mem[op.m].viol /\ rec.wderr >= mem[op.m].wderr
      BY <1>a, <2>5, <3>2 DEF Fence
    <3>4. new \in [Migrations -> Fence] /\ AtLeast(new, mem) /\ Counted(new)
      BY Zenon, <1>c, <2>3, <2>5, <3>2, <3>3, EvidenceRecord
    <3> QED
      BY Zenon, <2>4, <2>5, <2>7, <3>4, EvidenceWrite DEF Goal
  <2> QED
    BY Zenon, <2>4, <2>6, <2>7
<1>11. ASSUME NEW m \in Migrations, ReconcileFence(m) PROVE Goal
  <2>1. pc' = "w_mark" /\ UNCHANGED <<status, mem, disk>>
    BY Zenon, <1>11 DEF ReconcileFence
  <2> QED
    BY Zenon, <1>d, <2>1, EvidenceLocal
<1>12. ASSUME NEW m \in Migrations, ResumeFence(m) PROVE Goal
  <2>1. pc = "z_next" /\ m \in op.pending /\ UNCHANGED <<status, mem, disk>>
    BY Zenon, <1>12 DEF ResumeFence
  <2>2. op'.m = m /\ op'.rec = mem[m]
    BY Zenon, <1>a, <1>12 DEF ResumeFence, Op
  <2>3. mem[m].phase = "release_authorized"
    BY Zenon, <2>1 DEF LockInv, Authorizations, Authorized
  <2>4. op'.rec.phase # "none" /\ SameCounts(op'.rec, mem[op'.m])
    BY Zenon, <2>2, <2>3 DEF SameCounts
  <2> QED
    BY Zenon, <1>d, <2>1, <2>4, EvidenceLocal
<1>13. ASSUME NEW known \in BOOLEAN, NEW out \in Outcomes, ReconcileCommit(known, out) PROVE Goal
  <2>1. PICK inactive : inactive = (known /\ mem[op.m].services \cap running = {})
    BY Zenon
  <2>2. PICK v, w : v = (op.violated \/ ~inactive) /\ w = (op.wderr \/ ~inactive)
    BY Zenon
  <2>3. PICK phase : phase = IF inactive /\ mem[op.m].phase \in {"activating", "releasing"} THEN "active"
                             ELSE mem[op.m].phase
    BY Zenon
  <2>4. PICK bumped : bumped = Bump(mem[op.m], v, w)
    BY Zenon
  <2>5. PICK rec : rec = InPhase(bumped, TRUE, phase)
    BY Zenon
  <2>6. PICK new : new = [mem EXCEPT ![op.m] = rec]
    BY Zenon
  <2>7. pc = "w_commit" /\ status' = status /\ pc' = "w_next" /\ mem' = new /\ disk' \in {disk, new}
    BY Zenon, <1>13, <2>1, <2>2, <2>3, <2>4, <2>5, <2>6 DEF ReconcileCommit
  <2>8. op.m \in Migrations /\ mem[op.m].active /\ status # "down"
    BY Zenon, <2>7 DEF LockInv, Stages, Copies
  <2>9. phase \in Phases /\ phase # "none"
    BY Zenon, <1>a, <1>b, <1>c, <2>3, <2>8 DEF Fence, Counted
  <2>10. v \in BOOLEAN /\ w \in BOOLEAN
    BY Zenon, <1>a, <2>1, <2>2 DEF Op
  <2>11. bumped \in Fence /\ bumped.viol >= mem[op.m].viol /\ bumped.wderr >= mem[op.m].wderr
    BY Zenon, <1>a, <2>4, <2>8, <2>10, BumpType, BumpKeeps
  <2>12. rec \in Fence /\ rec.phase # "none" /\ rec.viol = bumped.viol /\ rec.wderr = bumped.wderr
    <3>1. rec \in Fence /\ rec.phase = phase
      BY Zenon, <2>5, <2>9, <2>11, InPhaseType
    <3>2. SameCounts(rec, bumped)
      BY Zenon, <2>5, <2>9, <2>11, InPhaseCounts
    <3> QED
      BY Zenon, <2>9, <3>1, <3>2 DEF SameCounts
  <2>13. new \in [Migrations -> Fence] /\ AtLeast(new, mem) /\ Counted(new)
    BY Zenon, <1>c, <2>6, <2>8, <2>11, <2>12, EvidenceRecord
  <2> QED
    BY Zenon, <2>7, <2>8, <2>13, EvidenceWrite DEF Goal
<1>14. ASSUME ReconcileDone PROVE Goal
  <2>1. pc = "w_next" /\ disk' = disk /\ Reconciled(~op.failed)
    BY Zenon, <1>14 DEF ReconcileDone
  <2>2. status # "down"
    BY Zenon, <2>1 DEF LockInv, Stages
  <2>3. CASE Stop
    BY Zenon, <1>a, <1>c, <2>1, <2>2, <2>3, StopCounts, EvidenceWrite DEF Goal
  <2>4. CASE ~Stop
    <3>1. mem' = mem /\ pc' = "idle"
      BY Zenon, <2>1, <2>4 DEF Reconciled, Finish
    <3> QED
      BY Zenon, <1>d, <2>1, <2>2, <3>1, EvidenceLocal
  <2> QED
    BY Zenon, <2>3, <2>4
<1>15. ASSUME ResumeDone PROVE Goal
  <2>1. pc = "z_next" /\ pc' = "idle" /\ UNCHANGED <<mem, disk>>
    BY Zenon, <1>15 DEF ResumeDone, Finish
  <2>2. status # "down"
    BY Zenon, <2>1 DEF LockInv, Stages
  <2> QED
    BY Zenon, <1>d, <2>1, <2>2, EvidenceLocal
<1>16. ASSUME UNCHANGED <<status, mem, disk, pc, op>> PROVE Goal
  BY Zenon, <1>d, <1>16, EvidenceLocal DEF EvidenceInv
<1>17. ASSUME Validate \/ UNCHANGED vars \/ \E s \in Services : UnitStart(s) \/ UnexpectedRestart(s) PROVE Goal
  BY Zenon, <1>16, <1>17 DEF UnitStart, UnexpectedRestart, Validate, vars
<1>18. ASSUME Crash \/ Reboot PROVE Goal
  <2>1. Stop /\ disk' = disk
    BY Zenon, <1>18 DEF Crash, Reboot
  <2>2. EvidenceInv'
    BY Zenon, <1>c, <2>1, StopCounts DEF EvidenceInv, Counted
  <2> QED
    BY Zenon, <1>d, <2>1, <2>2
<1>19. ASSUME ReconcileBegin \/ ResumeBegin PROVE Goal
  <2>1. pc' \in {"w_next", "z_next"} /\ UNCHANGED <<status, mem, disk>>
    BY Zenon, <1>19 DEF ReconcileBegin, ResumeBegin
  <2> QED
    BY Zenon, <1>d, <2>1, EvidenceLocal
<1>20. ASSUME Start PROVE Goal
  <2>1. status = "down" /\ mem' = Load(disk) /\ UNCHANGED <<disk, pc, op>>
    BY Zenon, <1>20 DEF Start
  <2>2. pc = "idle"
    BY Zenon, <2>1 DEF LockInv, Stages
  <2>3. \A m \in Migrations : /\ SameCounts(mem'[m], disk[m]) /\ mem'[m].active = disk[m].active
                              /\ mem'[m].phase = "none" <=> disk[m].phase = "none"
    BY Zenon, <1>a, <2>1, LoadKeeps
  <2>4. Counted(mem)' /\ Counted(disk)'
    BY Zenon, <1>c, <2>1, <2>3 DEF Counted, SameCounts
  <2>5. AtLeast(mem, disk)'
    BY <1>a, <2>1, <2>3 DEF AtLeast, SameCounts, Fence
  <2> QED
    BY Zenon, <1>d, <2>1, <2>2, <2>4, <2>5 DEF EvidenceInv
<1>21. ASSUME AcceptPersists PROVE Goal
  <2>1. status = "serving" /\ disk' = mem /\ UNCHANGED <<status, mem, pc, op>>
    BY Zenon, <1>21 DEF AcceptPersists
  <2>2. pc \in Working => op.rec.phase # "none" /\ SameCounts(op.rec, mem[op.m])
    BY Zenon DEF EvidenceInv
  <2> QED
    BY Zenon, <1>a, <1>c, <2>1, <2>2, EvidenceWrite DEF Goal
<1>22. ASSUME NEW out \in Outcomes, Unavailable(out) PROVE Goal
  BY Zenon, <1>22 DEF Unavailable, CanFault
<1>23. Goal
  BY ZenonT(40), <1>1, <1>2, <1>3, <1>4, <1>5, <1>6, <1>7, <1>8, <1>9, <1>10, <1>11, <1>12, <1>13, <1>14, <1>15, <1>17, <1>18, <1>19, <1>20,
     <1>21, <1>22 DEF Next, Requests, HolderStep, HolderMove, Environment
<1> QED
  BY Zenon, <1>23 DEF Goal

LEMMA EvidenceInvariant == Spec => []("systemctl" \notin budget.kinds => EvidenceInv)
<1> DEFINE Inv == "systemctl" \notin budget.kinds => EvidenceInv
<1>1. Init => Inv
  <2> SUFFICES ASSUME Init PROVE EvidenceInv
    BY Zenon
  <2>1. Counted(mem)
    BY Zenon DEF Init, Empty, NoFence, Counted
  <2>2. Counted(disk)
    <3>1. CASE disk = Empty
      BY Zenon, <3>1 DEF Empty, NoFence, Counted
    <3>2. CASE disk # Empty
      <4>0. PICK m \in budget.migrations, r \in Runs, S \in budget.scopes :
              disk \in {Legacy(m, r, S, {}, ""), Legacy(m, r, S, S \cap production, "releasing")}
        BY <3>2, Zenon DEF Init
      <4>1. \E prev, phase : phase \in {"", "releasing"} /\ disk = Legacy(m, r, S, prev, phase)
        BY <4>0, Zenon
      <4>5. PICK prev, phase : phase \in {"", "releasing"} /\ disk = Legacy(m, r, S, prev, phase)
        BY <4>1, Zenon
      <4>2. PICK rec : rec = [NoFence EXCEPT !.active = TRUE, !.phase = phase, !.run = r, !.services = S, !.prev = prev]
        BY Zenon
      <4>3. rec.phase # "none"
        BY <4>2, <4>5, Zenon DEF NoFence
      <4>4. disk = [Empty EXCEPT ![m] = rec]
        BY Zenon, <4>2, <4>5 DEF Legacy
      <4> QED
        BY Zenon, <4>3, <4>4 DEF Empty, NoFence, Counted
    <3> QED
      BY Zenon, <3>1, <3>2
  <2> QED
    BY Zenon, <2>1, <2>2 DEF Init, EvidenceInv, Working, Activation, Completing, Restoring
<1>2. TypeOK /\ LockInv /\ Inv /\ [Next]_vars => Inv'
  <2> SUFFICES ASSUME TypeOK, LockInv, Inv, [Next]_vars PROVE Inv'
    BY Zenon
  <2>1. budget'.kinds = budget.kinds
    BY Zenon, SpendsNext, SpendType DEF TypeOK
  <2> QED
    BY Zenon, <2>1, EvidenceNext
<1> QED
  BY <1>1, <1>2, TypeCorrect, LockInvariant, PTL DEF Spec

\* Unless systemctl itself goes missing, no write lowers a counter in the state
\* file: not the failed last write of an activation, not a rollback of a
\* release, not the watchdog's, and not the save of another connection.
THEOREM EvidenceKeptHolds == Spec => EvidenceKept
<1> DEFINE Inv == "systemctl" \notin budget.kinds => EvidenceInv
           A == \A m \in Migrations : "systemctl" \notin budget.kinds =>
                  disk'[m].viol >= disk[m].viol /\ disk'[m].wderr >= disk[m].wderr
<1>1. TypeOK /\ LockInv /\ Inv /\ [Next]_vars => [A]_vars
  <2> SUFFICES ASSUME TypeOK, LockInv, Inv, [Next]_vars, "systemctl" \notin budget.kinds PROVE AtLeast(disk', disk)
    BY Zenon DEF AtLeast
  <2> QED
    BY Zenon, EvidenceNext
<1>2. Spec => []Inv
  BY Zenon, EvidenceInvariant
<1> QED
  BY <1>1, <1>2, TypeCorrect, LockInvariant, PTL DEF Spec, EvidenceKept

-----------------------------------------------------------------------------
(* Part 3: what a fence remembers *)

\* the records a start would load
Recorded == Load(disk)

Phased(f) == \A m \in Migrations : f[m].phase # "" /\ (f[m].phase = "none" => ~f[m].active)

Remembers(f) == \A m \in Migrations : Owns(f[m]) => f[m].services \cap production \subseteq f[m].prev

Covered(f) == \A s \in production \ running : \E m \in Migrations : Owns(f[m]) /\ s \in f[m].services

OpRemembers ==
  /\ pc \in {"a_mark", "a_intent", "r_auth"} \cup Activation => op.rec.services \cap production \subseteq op.rec.prev
  /\ pc \in {"a_mark", "a_intent"} /\ Owns(mem[op.m]) => mem[op.m].services = op.rec.services
  /\ pc \in {"a_intent", "a_stop", "x_stop", "w_check"} => op.todo \subseteq op.rec.services
  /\ pc = "c_commit" => op.rec.prev \subseteq running
  /\ pc # "a_abort"

\* Without failing writes memory is what a start would load, every production
\* service that does not run belongs to a fence, and that fence remembers it.
RememberInv ==
  /\ Phased(mem) /\ Phased(Recorded)
  /\ status # "down" => mem = Recorded
  /\ Remembers(Recorded) /\ Covered(Recorded) /\ OpRemembers

\* nothing is written, no service stops
LEMMA RememberLocal ==
  ASSUME RememberInv, UNCHANGED <<mem, disk, production>>, running \subseteq running',
         status' # "down" => status # "down", OpRemembers'
  PROVE  RememberInv'
<1>1. Recorded' = Recorded
  BY Zenon DEF Recorded
<1>2. Remembers(Recorded)' /\ Covered(Recorded)' /\ Phased(Recorded)' /\ Phased(mem)'
  BY Zenon, <1>1 DEF RememberInv, Remembers, Covered, Phased
<1> QED
  BY Zenon, <1>1, <1>2 DEF RememberInv

\* all records are written, to memory and to the state file
LEMMA RememberWrite ==
  ASSUME NEW new \in [Migrations -> Fence], Phased(new),
         disk' = new, mem' = new \/ Stop, UNCHANGED <<production, running>>,
         Remembers(new), Covered(new), OpRemembers'
  PROVE  RememberInv'
<1>1. Recorded' = new
  BY Zenon, LoadSame DEF Recorded, Phased
<1>2. Remembers(Recorded)' /\ Covered(Recorded)' /\ Phased(Recorded)'
  BY Zenon, <1>1 DEF Remembers, Covered, Phased
<1>3. CASE mem' = new
  BY Zenon, <1>1, <1>2, <1>3 DEF RememberInv, Phased
<1>4. CASE Stop
  <2>1. status' = "down" /\ Phased(mem)'
    BY Zenon, <1>4 DEF Stop, NoFence, Phased
  <2> QED
    BY Zenon, <1>2, <2>1 DEF RememberInv
<1> QED
  BY Zenon, <1>3, <1>4

\* the broker stops without a write
LEMMA RememberStop ==
  ASSUME RememberInv, Stop, UNCHANGED <<disk, production, running>>
  PROVE  RememberInv'
<1>1. Recorded' = Recorded
  BY Zenon DEF Recorded
<1>2. Remembers(Recorded)' /\ Covered(Recorded)' /\ Phased(Recorded)'
  BY Zenon, <1>1 DEF RememberInv, Remembers, Covered, Phased
<1>3. status' = "down" /\ Phased(mem)' /\ OpRemembers'
  BY Zenon DEF Stop, Finish, NoFence, Phased, OpRemembers, Activation
<1> QED
  BY Zenon, <1>2, <1>3 DEF RememberInv

\* a write that cannot fail
LEMMA PersistOk ==
  ASSUME "persist" \notin budget.kinds, NEW state, NEW out, Persist(state, out)
  PROVE  out = "ok" /\ disk' = state
BY Zenon DEF Persist, Try, CanFault

\* one record is replaced by one that owns what it owned, or nothing
LEMMA RememberRecord ==
  ASSUME TypeOK, Phased(mem), Remembers(mem), Covered(mem),
         NEW m \in Migrations, NEW rec \in Fence, rec.phase \notin {"", "none"},
         Owns(rec) => rec.services \cap production \subseteq rec.prev,
         Owns(mem[m]) => \/ Owns(rec) /\ rec.services = mem[m].services
                         \/ mem[m].services \cap production \subseteq running
  PROVE  /\ [mem EXCEPT ![m] = rec] \in [Migrations -> Fence]
         /\ Phased([mem EXCEPT ![m] = rec]) /\ Remembers([mem EXCEPT ![m] = rec]) /\ Covered([mem EXCEPT ![m] = rec])
<1>1. mem \in [Migrations -> Fence]
  BY Zenon DEF TypeOK
<1>2. PICK new : new = [mem EXCEPT ![m] = rec]
  BY Zenon
<1>3. new \in [Migrations -> Fence] /\ new[m] = rec /\ \A n \in Migrations : n # m => new[n] = mem[n]
  BY Zenon, <1>1, <1>2
<1>4. Phased(new)
  BY <1>3, Zenon DEF Phased
<1>5. Remembers(new)
  BY Zenon, <1>3 DEF Remembers
<1>6. ASSUME NEW s \in production \ running PROVE \E n \in Migrations : Owns(new[n]) /\ s \in new[n].services
  <2>1. PICK n \in Migrations : Owns(mem[n]) /\ s \in mem[n].services
    BY Zenon DEF Covered
  <2> QED
    BY Zenon, <1>3, <2>1
<1> QED
  BY Zenon, <1>2, <1>3, <1>4, <1>5, <1>6 DEF Covered

LEMMA RememberNext ==
  ASSUME TypeOK, LockInv, RememberInv, "persist" \notin budget.kinds, "reboot" \notin budget.kinds, [Next]_vars
  PROVE  RememberInv'
<1> USE DEF Activation, Completing, Restoring, Reconciling
<1>a. /\ op \in Op /\ op.rec \in Fence /\ \A m \in Migrations : mem[m] \in Fence /\ disk[m] \in Fence
      /\ mem \in [Migrations -> Fence] /\ disk \in [Migrations -> Fence]
  BY Zenon DEF TypeOK, Op
<1>b. "activating" \in Phases /\ "active" \in Phases /\ "released" \in Phases /\ "release_authorized" \in Phases
  BY Zenon DEF Phases
<1>c. /\ Phased(mem)
      /\ status # "down" => mem = Recorded /\ Remembers(mem) /\ Covered(mem)
  BY Zenon DEF RememberInv
<1>1. ASSUME NEW m \in Migrations, NEW r \in Runs, NEW S \in Scopes, ActivateBegin(m, r, S) PROVE RememberInv'
  <2>1. /\ status = "serving" /\ pc = "idle" /\ pc' = "a_mark" /\ UNCHANGED <<status, mem, disk, running, production>>
        /\ \A n \in Migrations \ {m} : mem[n].active => mem[n].services \cap S = {}
        /\ mem[m].active => mem[m].services = S
    BY Zenon, <1>1 DEF ActivateBegin, Request
  <2>2. op'.m = m /\ op'.rec = Intent(m, r, S)
    BY Zenon, <1>1 DEF ActivateBegin, NoOp
  <2>3. op'.rec.services = S /\ op'.rec.prev = IF mem[m].active THEN mem[m].prev ELSE S \cap running
    <3>1. Intent(m, r, S).services = S
      BY Zenon, IntentType
    <3>2. Intent(m, r, S).prev = IF mem[m].active THEN mem[m].prev ELSE S \cap running
      BY Zenon, IntentKeeps
    <3> QED
      BY Zenon, <2>2, <3>1, <3>2
  <2>4. \A n \in Migrations : ~Authorized(mem[n])
    BY Zenon, <2>1 DEF LockInv, Authorizations
  <2>5. S \cap production \subseteq op'.rec.prev
    <3>1. CASE mem[m].active
      BY Zenon, <1>c, <2>1, <2>3, <3>1 DEF Remembers, Owns
    <3>2. CASE ~mem[m].active
      <4>1. ASSUME NEW s \in S \cap production PROVE s \in running
        <5>1. s \notin running => \E n \in Migrations : Owns(mem[n]) /\ s \in mem[n].services
          BY Zenon, <1>c, <2>1 DEF Covered
        <5> QED
          BY Zenon, <2>1, <2>4, <3>2, <5>1 DEF Owns, Authorized
      <4> QED
        BY Zenon, <2>3, <3>2, <4>1
    <3> QED
      BY Zenon, <3>1, <3>2
  <2>6. OpRemembers'
    BY Zenon, <2>1, <2>2, <2>3, <2>4, <2>5 DEF OpRemembers, Owns, Authorized
  <2> QED
    BY Zenon, <2>1, <2>6, RememberLocal
<1>2. ASSUME NEW m \in Migrations, NEW r \in Runs, NEW S \in Scopes, ReleaseBegin(m, r, S) PROVE RememberInv'
  <2>1. /\ status = "serving" /\ mem[m].active /\ pc' = "r_auth" /\ UNCHANGED <<status, mem, disk, running, production>>
    BY Zenon, <1>2 DEF ReleaseBegin, Request
  <2>2. PICK f : f = mem[m] /\ f \in Fence
    BY Zenon, <1>a
  <2>3. op'.rec = InPhase(f, FALSE, "release_authorized")
    BY Zenon, <1>2, <2>2 DEF ReleaseBegin, NoOp
  <2>4. op'.rec.services = f.services
    <3>1. InPhase(f, FALSE, "release_authorized").services = f.services
      BY Zenon, <1>b, <2>2, InPhaseType
    <3> QED
      BY Zenon, <2>3, <3>1
  <2>5. op'.rec.prev = f.prev
    <3>1. InPhase(f, FALSE, "release_authorized").prev = f.prev
      BY Zenon, <1>b, <2>2, InPhaseCounts
    <3> QED
      BY Zenon, <2>3, <3>1
  <2>6. f.services \cap production \subseteq f.prev
    BY Zenon, <1>c, <2>1, <2>2 DEF Remembers, Owns
  <2>7. OpRemembers'
    BY Zenon, <2>1, <2>4, <2>5, <2>6 DEF OpRemembers
  <2> QED
    BY Zenon, <2>1, <2>7, RememberLocal
<1>3. ASSUME NEW m \in Migrations, NEW r \in Runs, NEW S \in Scopes, VerifyBegin(m, r, S) PROVE RememberInv'
  <2>1. pc' = "v_poll" /\ UNCHANGED <<status, mem, disk, running, production>>
    BY Zenon, <1>3 DEF VerifyBegin
  <2>2. OpRemembers'
    BY Zenon, <2>1 DEF OpRemembers
  <2> QED
    BY Zenon, <2>1, <2>2, RememberLocal
<1>4. ASSUME NEW m \in Migrations, NEW r \in Runs, NEW S \in Scopes, NEW out \in Outcomes, ReleaseUnknown(m, r, S, out)
      PROVE  RememberInv'
  <2>1. PICK rec : rec = Observed(r, S)
    BY Zenon
  <2>2. PICK new : new = [mem EXCEPT ![m] = rec]
    BY Zenon
  <2>3. Persist(new, out) /\ mem' = IF out = "ok" THEN new ELSE mem
    BY Zenon, <1>4, <2>1, <2>2 DEF ReleaseUnknown
  <2>4. /\ status = "serving" /\ mem[m].phase = "none" /\ pc = "idle" /\ UNCHANGED <<pc, op, running, production>>
        /\ mem' = new /\ disk' = new
    BY Zenon, <1>4, <2>3, PersistOk DEF ReleaseUnknown, Request
  <2>5. rec \in Fence /\ rec.phase = "released" /\ ~Owns(rec)
    BY Zenon, <2>1, RequestRecordTypes DEF Owns
  <2>6. ~Owns(mem[m])
    BY Zenon, <1>c, <2>4 DEF Phased, Owns
  <2>7. new \in [Migrations -> Fence] /\ Phased(new) /\ Remembers(new) /\ Covered(new)
    BY Zenon, <1>c, <2>2, <2>4, <2>5, <2>6, RememberRecord
  <2>8. OpRemembers'
    BY Zenon, <2>4 DEF OpRemembers
  <2> QED
    BY Zenon, <2>4, <2>7, <2>8, RememberWrite
<1>5. ASSUME NEW m \in Migrations, NEW r \in Runs, NEW S \in Scopes, NEW out \in Outcomes, ReleaseAgain(m, r, S, out)
      PROVE  RememberInv'
  <2>1. Persist(mem, out) /\ status = "serving" /\ pc = "idle" /\ UNCHANGED <<status, mem, pc, op, running, production>>
    BY Zenon, <1>5 DEF ReleaseAgain, Request
  <2>2. disk' = mem
    BY Zenon, <2>1, PersistOk
  <2>3. OpRemembers'
    BY Zenon, <2>1 DEF OpRemembers
  <2> QED
    BY Zenon, <1>a, <1>c, <2>1, <2>2, <2>3, RememberWrite
<1>6. ASSUME HolderMove, ~(\E s \in Services, b \in BOOLEAN : StopService(s, b)),
             ~(\E s \in Services, res \in {"ok", "unknown", "stuck"} : CheckService(s, res))
      PROVE  RememberInv'
  <2>1. /\ UNCHANGED <<status, mem, disk, production>>
        /\ \/ pc' = "idle"
           \/ /\ op'.m = op.m /\ op'.rec = op.rec
              /\ \/ pc \in {"a_mark", "a_intent"} /\ pc' \in {"a_mark", "a_intent"}
                 \/ pc \in Activation /\ pc' \in Activation
                 \/ pc \in Completing /\ pc' \in Completing \cup {"x_mark"}
                 \/ pc \in Restoring /\ pc' \in Restoring
                 \/ pc \in Reconciling /\ pc' \in Reconciling
                 \/ pc \in {"a_abort", "v_poll"} /\ pc' \in {pc, "v_commit"}
    BY Zenon, <1>6, HolderMoves
  <2>2. running \subseteq running'
    BY Zenon, <1>6 DEF HolderMove, InstallMarker, RemoveMarker, InstallFails, RemoveFails, StartService,
       VerifyStopped, VerifyRestarted, VerifyPoll
  <2>3. /\ pc' \in {"a_intent", "a_stop", "x_stop", "w_check"} => op'.todo = op.rec.services
        /\ pc' = "c_commit" => op.rec.prev \subseteq running /\ running' = running
    <3>1. CASE \E s \in Services : InstallMarker(s)
      <4>1. pc' \in {"a_mark", "x_mark", "w_mark"} \/ op' = [op EXCEPT !.todo = op.rec.services]
        BY Zenon, <3>1 DEF InstallMarker
      <4>2. pc' # "c_commit"
        BY Zenon, <3>1 DEF InstallMarker, AfterMarks
      <4> QED
        BY Zenon, <1>a, <4>1, <4>2 DEF Op
    <3>2. CASE \E T \in SUBSET Services : InstallFails(T)
      <4>1. pc' = "idle" \/ \E e : op' = [op EXCEPT !.todo = op.rec.services, !.wderr = e]
        BY Zenon, <3>2 DEF InstallFails, Finish
      <4>2. pc' # "c_commit"
        BY Zenon, <3>2 DEF InstallFails, Finish, AfterMarks
      <4> QED
        BY Zenon, <1>a, <4>1, <4>2 DEF Op
    <3>3. CASE \/ \E s \in Services : RemoveMarker(s) \/ \E b \in BOOLEAN : StartService(s, b)
               \/ \E T \in SUBSET Services : RemoveFails(T)
      BY Zenon, <3>3 DEF RemoveMarker, StartService, RemoveFails, ToStart, Rollback
    <3>4. CASE \E b \in BOOLEAN : VerifyStopped(b) \/ VerifyPoll(b)
      BY Zenon, <3>4 DEF VerifyStopped, VerifyPoll, Finish
    <3>5. CASE \E b \in BOOLEAN : VerifyRestarted(b)
      BY Zenon, <3>5 DEF VerifyRestarted, Rollback
    <3> QED
      BY Zenon, <1>6, <3>1, <3>2, <3>3, <3>4, <3>5 DEF HolderMove
  <2>4. OpRemembers'
    BY Zenon, <2>1, <2>3 DEF RememberInv, OpRemembers, Owns
  <2> QED
    BY Zenon, <2>1, <2>2, <2>4, RememberLocal
<1>7. ASSUME NEW s \in Services, HolderMove,
             (\E b \in BOOLEAN : StopService(s, b)) \/ \E res \in {"ok", "unknown", "stuck"} : CheckService(s, res)
      PROVE  RememberInv'
  <2>1. /\ UNCHANGED <<status, mem, disk, production>>
        /\ \/ pc' = "idle"
           \/ /\ op'.rec = op.rec
              /\ \/ pc \in Activation /\ pc' \in Activation
                 \/ pc \in Restoring /\ pc' \in Restoring
                 \/ pc \in Reconciling /\ pc' \in Reconciling
    <3>1. pc \in {"a_stop", "x_stop", "w_check"}
      BY Zenon, <1>7 DEF StopService, CheckService, RememberInv, OpRemembers
    <3> QED
      BY Zenon, <1>7, <3>1, HolderMoves
  <2>2. /\ pc \in {"a_stop", "x_stop", "w_check"} /\ s \in op.todo /\ running' \in {running, running \ {s}}
        /\ pc' \in {"idle", "a_stop", "x_stop", "w_check", "a_verify", "x_commit", "w_commit"}
    BY Zenon, <1>7 DEF StopService, CheckService, RememberInv, OpRemembers, Finish
  <2>3. op.todo \subseteq op.rec.services
    BY Zenon, <2>2 DEF RememberInv, OpRemembers
  <2>4. op.m \in Migrations /\ status # "down" /\ Owns(mem[op.m]) /\ mem[op.m].services = op.rec.services
    BY Zenon, <2>2 DEF LockInv, Stages, Copies, Owns, Authorized
  <2>5. pc' \in {"a_stop", "x_stop", "w_check"} => op'.todo \subseteq op.todo
    <3>1. CASE \E b \in BOOLEAN : StopService(s, b)
      <4>1. PICK b \in BOOLEAN : StopService(s, b)
        BY Zenon, <3>1
      <4>2. PICK f : f = (op.failed \/ ~b)
        BY Zenon
      <4>3. pc' \in {"idle", "a_verify", "x_commit"} \/ op' = [op EXCEPT !.todo = op.todo \ {s}, !.failed = f]
        BY <2>2, <4>1, <4>2, Zenon DEF StopService, Finish
      <4>4. op' = [op EXCEPT !.todo = op.todo \ {s}, !.failed = f] => op'.todo = op.todo \ {s}
        BY Zenon, <1>a DEF Op
      <4> QED
        BY Zenon, <4>3, <4>4
    <3>2. CASE \E res \in {"ok", "unknown", "stuck"} : CheckService(s, res)
      <4>1. \E v, w : op' = [op EXCEPT !.todo = op.todo \ {s}, !.violated = v, !.wderr = w]
        BY Zenon, <3>2 DEF CheckService
      <4> QED
        BY <1>a, <4>1 DEF Op
    <3> QED
      BY Zenon, <1>7, <3>1, <3>2
  <2>6. OpRemembers'
    BY Zenon, <2>1, <2>2, <2>3, <2>5 DEF RememberInv, OpRemembers
  <2>7. mem = Recorded /\ Recorded' = Recorded
    BY Zenon, <1>c, <2>1, <2>4 DEF Recorded
  <2>8. Covered(Recorded)'
    BY Zenon, <2>1, <2>2, <2>3, <2>4, <2>7 DEF RememberInv, Covered
  <2>9. Remembers(Recorded)' /\ Phased(Recorded)' /\ Phased(mem)'
    BY Zenon, <2>1, <2>7 DEF RememberInv, Remembers, Phased
  <2> QED
    BY Zenon, <2>1, <2>6, <2>7, <2>8, <2>9 DEF RememberInv
<1>8. ASSUME NEW out \in Outcomes, PersistIntent(out) PROVE RememberInv'
  <2>1. PICK new : new = [mem EXCEPT ![op.m] = op.rec]
    BY Zenon
  <2>2. Persist(new, out)
    BY Zenon, <1>8, <2>1 DEF PersistIntent
  <2>3. out = "ok" /\ disk' = new
    BY Zenon, <2>2, PersistOk
  <2>4. pc = "a_intent" /\ mem' = new /\ pc' = "a_stop" /\ UNCHANGED <<op, production, running>>
    BY Zenon, <1>8, <2>1, <2>3 DEF PersistIntent
  <2>5. status = "serving" /\ op.m \in Migrations /\ op.rec.active /\ op.rec.phase = "activating"
    BY Zenon, <2>4 DEF LockInv, Stages, Copies, TypeOK
  <2>6. /\ op.rec.services \cap production \subseteq op.rec.prev
        /\ Owns(mem[op.m]) => mem[op.m].services = op.rec.services
    BY Zenon, <2>4 DEF RememberInv, OpRemembers
  <2>7. new \in [Migrations -> Fence] /\ Phased(new) /\ Remembers(new) /\ Covered(new)
    BY Zenon, <1>a, <1>c, <2>1, <2>5, <2>6, RememberRecord DEF Owns
  <2>8. op.todo \subseteq op.rec.services
    BY Zenon, <2>4 DEF RememberInv, OpRemembers
  <2>9. OpRemembers'
    BY Zenon, <2>4, <2>6, <2>8 DEF OpRemembers
  <2> QED
    BY Zenon, <2>3, <2>4, <2>7, <2>9, RememberWrite
<1>9. ASSUME NEW out \in Outcomes, CommitActive(out) PROVE RememberInv'
  <2>1. PICK rec : rec = InPhase(op.rec, TRUE, "active")
    BY Zenon
  <2>2. PICK new : new = [mem EXCEPT ![op.m] = rec]
    BY ZenonT(40)
  <2>3. Persist(new, out)
    BY Zenon, <1>9, <2>1, <2>2 DEF CommitActive
  <2>4. out = "ok" /\ disk' = new
    BY Zenon, <2>3, PersistOk
  <2>5. pc = "a_commit" /\ mem' = new /\ pc' = "idle" /\ UNCHANGED <<production, running>>
    BY Zenon, <1>9, <2>1, <2>2, <2>4 DEF CommitActive, Finish
  <2>6. status = "serving" /\ op.m \in Migrations /\ mem[op.m].services = op.rec.services
    BY Zenon, <2>5 DEF LockInv, Stages, Copies, TypeOK
  <2>7. op.rec.services \cap production \subseteq op.rec.prev
    BY Zenon, <2>5 DEF RememberInv, OpRemembers
  <2>8. rec \in Fence /\ rec.active /\ rec.phase = "active" /\ rec.services = op.rec.services
    BY Zenon, <1>a, <1>b, <2>1, InPhaseType
  <2>9. rec.prev = op.rec.prev
    BY Zenon, <1>a, <1>b, <2>1, InPhaseCounts
  <2>10. new \in [Migrations -> Fence] /\ Phased(new) /\ Remembers(new) /\ Covered(new)
    BY Zenon, <1>a, <1>c, <2>2, <2>6, <2>7, <2>8, <2>9, RememberRecord DEF Owns
  <2>11. OpRemembers'
    BY Zenon, <2>5 DEF OpRemembers
  <2> QED
    BY Zenon, <2>4, <2>5, <2>10, <2>11, RememberWrite
<1>10. ASSUME NEW out \in Outcomes, AuthorizeRelease(out) PROVE RememberInv'
  <2>1. PICK new : new = [mem EXCEPT ![op.m] = op.rec]
    BY Zenon
  <2>2. Persist(new, out)
    BY Zenon, <1>10, <2>1 DEF AuthorizeRelease
  <2>3. out = "ok" /\ disk' = new
    BY Zenon, <2>2, PersistOk
  <2>4. pc = "r_auth" /\ mem' = new /\ pc' = "c_unmark" /\ UNCHANGED <<production, running>>
    BY Zenon, <1>10, <2>1, <2>3 DEF AuthorizeRelease
  <2>5. /\ status = "serving" /\ op.m \in Migrations /\ op.rec.phase = "release_authorized"
        /\ mem[op.m].services = op.rec.services
    BY Zenon, <2>4 DEF LockInv, Stages, Copies, TypeOK, Authorized
  <2>6. op.rec.services \cap production \subseteq op.rec.prev
    BY Zenon, <2>4 DEF RememberInv, OpRemembers
  <2>7. new \in [Migrations -> Fence] /\ Phased(new) /\ Remembers(new) /\ Covered(new)
    BY Zenon, <1>a, <1>c, <2>1, <2>5, <2>6, RememberRecord DEF Owns
  <2>8. OpRemembers'
    BY Zenon, <2>4 DEF OpRemembers
  <2> QED
    BY Zenon, <2>3, <2>4, <2>7, <2>8, RememberWrite
<1>11. ASSUME NEW out \in Outcomes, CommitReleased(out) PROVE RememberInv'
  <2>1. PICK rec : rec = InPhase(op.rec, FALSE, "released")
    BY Zenon
  <2>2. PICK new : new = [mem EXCEPT ![op.m] = rec]
    BY Zenon
  <2>3. Persist(new, out)
    BY Zenon, <1>11, <2>1, <2>2 DEF CommitReleased
  <2>4. out = "ok" /\ disk' = new
    BY Zenon, <2>3, PersistOk
  <2>5. pc = "c_commit" /\ mem' = new /\ pc' \in {"idle", "z_next"} /\ UNCHANGED <<production, running>>
    BY Zenon, <1>11, <2>1, <2>2, <2>4 DEF CommitReleased, Finish
  <2>6. status # "down" /\ op.m \in Migrations /\ op.rec = mem[op.m] /\ mem[op.m].phase = "release_authorized"
    BY Zenon, <2>5 DEF LockInv, Stages, Copies, Authorized
  <2>7. op.rec.prev \subseteq running
    BY Zenon, <2>5 DEF RememberInv, OpRemembers
  <2>8. mem[op.m].services \cap production \subseteq running
    BY Zenon, <1>c, <2>6, <2>7 DEF Remembers, Owns
  <2>9. rec \in Fence /\ ~rec.active /\ rec.phase = "released"
    BY ZenonT(40), <1>a, <1>b, <2>1, InPhaseType
  <2>10. new \in [Migrations -> Fence] /\ Phased(new) /\ Remembers(new) /\ Covered(new)
    BY Zenon, <1>a, <1>c, <2>2, <2>6, <2>8, <2>9, RememberRecord DEF Owns
  <2>11. OpRemembers'
    BY Zenon, <2>5 DEF OpRemembers
  <2> QED
    BY Zenon, <2>4, <2>5, <2>10, <2>11, RememberWrite
<1>12. ASSUME NEW out \in Outcomes, CommitRestored(out) PROVE RememberInv'
  <2>1. PICK rec : rec = InPhase(op.rec, TRUE, "active")
    BY Zenon
  <2>2. PICK new : new = [mem EXCEPT ![op.m] = rec]
    BY Zenon
  <2>3. Persist(new, out)
    BY Zenon, <1>12, <2>1, <2>2 DEF CommitRestored
  <2>4. out = "ok" /\ disk' = new
    BY Zenon, <2>3, PersistOk
  <2>5. pc = "x_commit" /\ (mem' = new \/ Stop) /\ pc' = "idle" /\ UNCHANGED <<production, running>>
    BY Zenon, <1>12, <2>1, <2>2, <2>4 DEF CommitRestored, Stop, Finish
  <2>6. status # "down" /\ op.m \in Migrations /\ op.rec = mem[op.m] /\ mem[op.m].phase = "release_authorized"
    BY ZenonT(40), <2>5 DEF LockInv, Stages, Copies, Authorized
  <2>7. rec \in Fence /\ rec.active /\ rec.phase = "active" /\ rec.services = op.rec.services
    BY Zenon, <1>a, <1>b, <2>1, InPhaseType
  <2>8. rec.prev = op.rec.prev
    BY Zenon, <1>a, <1>b, <2>1, InPhaseCounts
  <2>9. rec.services \cap production \subseteq rec.prev
    BY Zenon, <1>c, <2>6, <2>7, <2>8 DEF Remembers, Owns
  <2>10. new \in [Migrations -> Fence] /\ Phased(new) /\ Remembers(new) /\ Covered(new)
    BY Zenon, <1>a, <1>c, <2>2, <2>6, <2>7, <2>9, RememberRecord DEF Owns
  <2>11. OpRemembers'
    BY Zenon, <2>5 DEF OpRemembers
  <2> QED
    BY Zenon, <2>4, <2>5, <2>10, <2>11, RememberWrite
<1>13. ASSUME NEW out \in Outcomes, VerifyCommit(out) PROVE RememberInv'
  <2>1. PICK phase : phase = IF mem[op.m].phase = "activating" THEN "active" ELSE mem[op.m].phase
    BY Zenon
  <2>2. PICK rec : rec = InPhase(mem[op.m], TRUE, phase)
    BY Zenon
  <2>3. PICK new : new = [mem EXCEPT ![op.m] = rec]
    BY Zenon
  <2>4. /\ pc = "v_commit" /\ pc' = "idle" /\ UNCHANGED <<status, running, production>>
        /\ \/ mem[op.m].active /\ mem' = new /\ Persist(new, out)
           \/ UNCHANGED <<mem, disk>>
    BY ZenonT(40), <1>13, <2>1, <2>2, <2>3 DEF VerifyCommit, Finish
  <2>5. status = "serving" /\ op.m \in Migrations
    BY Zenon, <2>4 DEF LockInv, Stages, TypeOK
  <2>6. OpRemembers'
    BY Zenon, <2>4 DEF OpRemembers
  <2>7. CASE UNCHANGED <<mem, disk>>
    BY Zenon, <2>4, <2>6, <2>7, RememberLocal
  <2>8. CASE mem[op.m].active /\ mem' = new /\ Persist(new, out)
    <3>1. phase \in Phases /\ phase \notin {"", "none"}
      BY <1>a, <1>b, <1>c, <2>1, <2>5, <2>8, Zenon DEF Fence, Phased
    <3>2. PICK f : f = mem[op.m] /\ f \in Fence
      BY Zenon, <1>a, <2>5
    <3>3. rec \in Fence /\ rec.active /\ rec.phase = phase /\ rec.services = f.services
      BY Zenon, <2>2, <3>1, <3>2, InPhaseType
    <3>4. rec.prev = f.prev
      BY Zenon, <2>2, <3>1, <3>2, InPhaseCounts
    <3>5. rec.services \cap production \subseteq rec.prev
      BY Zenon, <1>c, <2>5, <2>8, <3>2, <3>3, <3>4 DEF Remembers, Owns
    <3>6. new \in [Migrations -> Fence] /\ Phased(new) /\ Remembers(new) /\ Covered(new)
      <4>1. Owns(rec) /\ rec.services = mem[op.m].services /\ rec.phase \notin {"", "none"}
        BY <3>1, <3>2, <3>3, Zenon DEF Owns
      <4> QED
        BY Zenon, <1>c, <2>3, <2>5, <3>3, <3>5, <4>1, RememberRecord
    <3>7. disk' = new
      BY Zenon, <2>8, PersistOk
    <3> QED
      BY Zenon, <2>4, <2>6, <2>8, <3>6, <3>7, RememberWrite
  <2> QED
    BY Zenon, <2>4, <2>7, <2>8
<1>14. ASSUME NEW m \in Migrations, ReconcileFence(m) \/ ResumeFence(m) PROVE RememberInv'
  <2>1. pc' \in {"w_mark", "c_unmark"} /\ UNCHANGED <<status, mem, disk, running, production>>
    BY Zenon, <1>14 DEF ReconcileFence, ResumeFence
  <2>2. OpRemembers'
    BY Zenon, <2>1 DEF OpRemembers
  <2> QED
    BY Zenon, <2>1, <2>2, RememberLocal
<1>15. ASSUME NEW known \in BOOLEAN, NEW out \in Outcomes, ReconcileCommit(known, out) PROVE RememberInv'
  <2>1. PICK inactive : inactive = (known /\ mem[op.m].services \cap running = {})
    BY Zenon
  <2>2. PICK v, w : v = (op.violated \/ ~inactive) /\ w = (op.wderr \/ ~inactive)
    BY Zenon
  <2>3. PICK phase : phase = IF inactive /\ mem[op.m].phase \in {"activating", "releasing"} THEN "active"
                             ELSE mem[op.m].phase
    BY Zenon
  <2>4. PICK bumped : bumped = Bump(mem[op.m], v, w)
    BY Zenon
  <2>5. PICK rec : rec = InPhase(bumped, TRUE, phase)
    BY Zenon
  <2>6. PICK new : new = [mem EXCEPT ![op.m] = rec]
    BY Zenon
  <2>7. /\ pc = "w_commit" /\ pc' = "w_next" /\ mem' = new /\ UNCHANGED <<running, production>>
        /\ (out # "ok") => CanFault("persist")
        /\ disk' = IF out = "before" THEN disk ELSE new
    BY Zenon, <1>15, <2>1, <2>2, <2>3, <2>4, <2>5, <2>6 DEF ReconcileCommit
  <2>8. disk' = new
    BY Zenon, <2>7 DEF CanFault
  <2>9. op.m \in Migrations /\ mem[op.m].active /\ status # "down"
    BY Zenon, <2>7 DEF LockInv, Stages, Copies
  <2>10. phase \in Phases /\ phase \notin {"", "none"}
    BY <1>a, <1>b, <1>c, <2>3, <2>9, Zenon DEF Fence, Phased
  <2>11. v \in BOOLEAN /\ w \in BOOLEAN
    BY Zenon, <1>a, <2>1, <2>2 DEF Op
  <2>12. bumped \in Fence /\ bumped.services = mem[op.m].services /\ bumped.prev = mem[op.m].prev
    <3>1. mem[op.m] \in Fence
      BY Zenon, <1>a, <2>9
    <3> QED
      BY Zenon, <2>4, <2>11, <3>1, BumpType, BumpKeeps
  <2>13. rec \in Fence /\ rec.active /\ rec.phase = phase /\ rec.services = bumped.services
    BY Zenon, <2>5, <2>10, <2>12, InPhaseType
  <2>14. rec.prev = bumped.prev
    BY Zenon, <2>5, <2>10, <2>12, InPhaseCounts
  <2>15. rec.services \cap production \subseteq rec.prev
    BY Zenon, <1>c, <2>9, <2>12, <2>13, <2>14 DEF Remembers, Owns
  <2>16. Owns(rec) /\ rec.services = mem[op.m].services /\ rec.phase \notin {"", "none"}
    BY <2>10, <2>12, <2>13, Zenon DEF Owns
  <2>17. new \in [Migrations -> Fence] /\ Phased(new) /\ Remembers(new) /\ Covered(new)
    BY ZenonT(40), <1>c, <2>6, <2>9, <2>13, <2>15, <2>16, RememberRecord
  <2>18. OpRemembers'
    BY Zenon, <2>7 DEF OpRemembers
  <2> QED
    BY Zenon, <2>7, <2>8, <2>17, <2>18, RememberWrite
<1>16. ASSUME ReconcileDone PROVE RememberInv'
  <2>1. pc = "w_next" /\ UNCHANGED <<disk, running, production>> /\ Reconciled(~op.failed)
    BY Zenon, <1>16 DEF ReconcileDone
  <2>2. CASE Stop
    BY Zenon, <2>1, <2>2, RememberStop
  <2>3. CASE ~Stop
    <3>1. mem' = mem /\ pc' = "idle" /\ status # "down"
      BY Zenon, <2>1, <2>3 DEF Reconciled, Finish, LockInv, Stages
    <3>2. OpRemembers'
      BY Zenon, <3>1 DEF OpRemembers
    <3> QED
      BY Zenon, <2>1, <3>1, <3>2, RememberLocal
  <2> QED
    BY Zenon, <2>2, <2>3
<1>17. ASSUME ResumeDone PROVE RememberInv'
  <2>1. pc = "z_next" /\ pc' = "idle" /\ UNCHANGED <<mem, disk, running, production>>
    BY Zenon, <1>17 DEF ResumeDone, Finish
  <2>2. status # "down"
    BY Zenon, <2>1 DEF LockInv, Stages
  <2>3. OpRemembers'
    BY Zenon, <2>1 DEF OpRemembers
  <2> QED
    BY Zenon, <2>1, <2>2, <2>3, RememberLocal
<1>18. ASSUME UNCHANGED <<status, mem, disk, pc, op, production>>, running \subseteq running' PROVE RememberInv'
  <2>1. OpRemembers'
    BY Zenon, <1>18 DEF RememberInv, OpRemembers, Owns
  <2> QED
    BY ZenonT(40), <1>18, <2>1, RememberLocal
<1>19. ASSUME Validate \/ UNCHANGED vars \/ \E s \in Services : UnitStart(s) \/ UnexpectedRestart(s) PROVE RememberInv'
  BY Zenon, <1>18, <1>19 DEF UnitStart, UnexpectedRestart, Started, Validate, vars
<1>20. ASSUME Crash PROVE RememberInv'
  BY Zenon, <1>20, RememberStop DEF Crash
<1>21. ASSUME Reboot PROVE RememberInv'
  BY Zenon, <1>21 DEF Reboot
<1>22. ASSUME ReconcileBegin \/ ResumeBegin PROVE RememberInv'
  <2>1. pc' \in {"w_next", "z_next"} /\ UNCHANGED <<status, mem, disk, running, production>>
    BY Zenon, <1>22 DEF ReconcileBegin, ResumeBegin
  <2>2. OpRemembers'
    BY Zenon, <2>1 DEF OpRemembers
  <2> QED
    BY Zenon, <2>1, <2>2, RememberLocal
<1>23. ASSUME Start PROVE RememberInv'
  <2>1. status = "down" /\ mem' = Recorded /\ UNCHANGED <<disk, pc, op, running, production>>
    BY Zenon, <1>23 DEF Start, Recorded
  <2>2. pc = "idle"
    BY Zenon, <2>1 DEF LockInv, Stages
  <2>3. Recorded' = Recorded
    BY Zenon, <2>1 DEF Recorded
  <2>4. Phased(mem)' /\ Phased(Recorded)' /\ Remembers(Recorded)' /\ Covered(Recorded)'
    BY Zenon, <2>1, <2>3 DEF RememberInv, Phased, Remembers, Covered
  <2>5. OpRemembers'
    BY Zenon, <2>1, <2>2 DEF OpRemembers
  <2> QED
    BY Zenon, <2>1, <2>3, <2>4, <2>5 DEF RememberInv
<1>24. ASSUME AcceptPersists PROVE RememberInv'
  <2>1. status = "serving" /\ disk' = mem /\ UNCHANGED <<status, mem, pc, op, running, production>>
    BY Zenon, <1>24 DEF AcceptPersists
  <2>2. OpRemembers'
    BY Zenon, <2>1 DEF RememberInv, OpRemembers, Owns
  <2> QED
    BY Zenon, <1>a, <1>c, <2>1, <2>2, RememberWrite
<1>25. ASSUME NEW out \in Outcomes, Unavailable(out) PROVE RememberInv'
  <2>1. PICK new : new = [m \in Migrations |-> IF mem[m].active THEN Bump(mem[m], TRUE, TRUE) ELSE mem[m]]
    BY Zenon
  <2>2. /\ UNCHANGED <<running, production>> /\ (out # "ok" => "persist" \in budget.kinds)
        /\ disk' = (IF out = "before" THEN disk ELSE new) /\ watch = "validated"
        /\ Stop \/ (mem' = new /\ UNCHANGED <<status, pc, op>>)
    BY Zenon, <1>25, <2>1 DEF Unavailable
  <2>3. disk' = new
    BY Zenon, <2>2
  <2>4. status # "down"
    BY Zenon, <2>2 DEF LockInv, Stages
  <2>5. ASSUME NEW m \in Migrations
        PROVE  /\ new[m] \in Fence /\ new[m].active = mem[m].active /\ new[m].phase = mem[m].phase
               /\ new[m].services = mem[m].services /\ new[m].prev = mem[m].prev
    <3>1. CASE mem[m].active
      <4>1. new[m] = Bump(mem[m], TRUE, TRUE)
        BY ZenonT(40), <2>1, <3>1
      <4>2. PICK f : f = mem[m] /\ f \in Fence
        BY Zenon, <1>a
      <4>3. /\ Bump(f, TRUE, TRUE) \in Fence /\ Bump(f, TRUE, TRUE).active = f.active
            /\ Bump(f, TRUE, TRUE).phase = f.phase /\ Bump(f, TRUE, TRUE).services = f.services
        BY Zenon, <4>2, BumpType
      <4>4. Bump(f, TRUE, TRUE).prev = f.prev
        BY ZenonT(40), <4>2, BumpKeeps
      <4> QED
        BY Zenon, <4>1, <4>2, <4>3, <4>4
    <3>2. CASE ~mem[m].active
      BY Zenon, <1>a, <2>1, <3>2
    <3> QED
      BY Zenon, <3>1, <3>2
  <2>6. new \in [Migrations -> Fence]
    <3>1. new = [m \in Migrations |-> new[m]]
      BY Zenon, <2>1
    <3> QED
      BY Zenon, <2>5, <3>1
  <2>7. Phased(new)
    BY <1>c, <2>5, Zenon DEF Phased
  <2>8. \A m \in Migrations : Owns(new[m]) = Owns(mem[m])
    BY Zenon, <2>5 DEF Owns
  <2>9. Remembers(new) /\ Covered(new)
    BY Zenon, <1>c, <2>4, <2>5, <2>8 DEF Remembers, Covered
  <2>10. OpRemembers'
    <3>1. CASE Stop
      BY Zenon, <3>1 DEF Stop, Finish, OpRemembers
    <3>2. CASE mem' = new /\ UNCHANGED <<status, pc, op>>
      <4>1. pc \in {"a_mark", "a_intent"} => op.m \in Migrations
        BY Zenon DEF LockInv, Stages
      <4> QED
        BY Zenon, <2>2, <2>5, <2>8, <3>2, <4>1 DEF RememberInv, OpRemembers
    <3> QED
      BY Zenon, <2>2, <3>1, <3>2
  <2> QED
    BY Zenon, <2>2, <2>3, <2>6, <2>7, <2>9, <2>10, RememberWrite
<1> QED
  BY ZenonT(40), <1>1, <1>2, <1>3, <1>4, <1>5, <1>6, <1>7, <1>8, <1>9, <1>10, <1>11, <1>12, <1>13, <1>14, <1>15, <1>16, <1>17, <1>19,
     <1>20, <1>21, <1>22, <1>23, <1>24, <1>25 DEF Next, Requests, HolderStep, HolderMove, Environment

LEMMA RememberInit == Init => RememberInv
<1> SUFFICES ASSUME Init PROVE RememberInv
  BY Zenon
<1>1. Phased(mem) /\ status = "down" /\ OpRemembers
  BY Zenon DEF Init, Empty, NoFence, Phased, OpRemembers, Activation
<1>2. CASE disk = Empty /\ running = production
  <2>1. \A m \in Migrations : Recorded[m] = NoFence
    <3>1. Empty \in [Migrations -> Fence] /\ \A m \in Migrations : Empty[m] = NoFence /\ Empty[m].phase # ""
      BY BasicTypes, Zenon DEF Empty, NoFence
    <3>2. Load(Empty) = Empty
      BY Zenon, <3>1, LoadSame
    <3> QED
      BY Zenon, <1>2, <3>1, <3>2 DEF Recorded
  <2>2. ~NoFence.active /\ NoFence.phase = "none"
    BY Zenon DEF NoFence
  <2>3. Phased(Recorded)
    BY <2>1, <2>2, Zenon DEF Phased
  <2>4. Remembers(Recorded) /\ Covered(Recorded)
    BY Zenon, <1>2, <2>1, <2>2 DEF Remembers, Covered, Owns
  <2> QED
    BY Zenon, <1>1, <2>3, <2>4 DEF RememberInv
<1>3. CASE ~(disk = Empty /\ running = production)
  <2>1. PICK m \in budget.migrations, r \in Runs, S \in budget.scopes :
          /\ disk \in {Legacy(m, r, S, {}, ""), Legacy(m, r, S, S \cap production, "releasing")}
          /\ running = production \ S
    BY <1>3, Zenon DEF Init
  <2>2. m \in Migrations /\ S \in Scopes /\ S \subseteq Services /\ production \subseteq Services
    BY Zenon, ConstantsAssumption DEF Init, Budget
  <2>3. PICK prev, phase : /\ disk = Legacy(m, r, S, prev, phase)
                           /\ (phase = "" /\ prev = {}) \/ (phase = "releasing" /\ prev = S \cap production)
    BY <2>1, Zenon
  <2>4. PICK rec : rec = [NoFence EXCEPT !.active = TRUE, !.phase = phase, !.run = r, !.services = S, !.prev = prev]
    BY Zenon
  <2>5. rec.active /\ rec.phase = phase /\ rec.services = S /\ rec.prev = prev
    BY <2>4, Zenon DEF NoFence
  <2>6. disk = [Empty EXCEPT ![m] = rec]
    BY Zenon, <2>3, <2>4 DEF Legacy
  <2>7. disk[m] = rec /\ \A n \in Migrations : n # m => disk[n] = NoFence
    BY Zenon, <2>2, <2>6 DEF Empty
  <2>8. \A n \in Migrations : n # m => Recorded[n] = NoFence
    <3>1. NoFence.phase # ""
      BY Zenon DEF NoFence
    <3> QED
      BY <2>7, <3>1, Zenon DEF Recorded, Load
  <2>9. Recorded[m].active /\ Recorded[m].services = S /\ Recorded[m].phase \notin {"", "none"} /\ S \cap production \subseteq Recorded[m].prev
    <3>1. CASE phase = "releasing" /\ prev = S \cap production
      <4>1. disk[m].phase # ""
        BY <2>5, <2>7, <3>1, Zenon
      <4>2. Recorded[m] = rec
        BY <2>2, <2>7, <4>1, Zenon DEF Recorded, Load
      <4> QED
        BY <2>5, <3>1, <4>2, Zenon
    <3>2. CASE phase = "" /\ prev = {}
      <4>1. Recorded[m] = [rec EXCEPT !.phase = "active", !.prev = IF rec.prev = {} THEN rec.services ELSE rec.prev]
        BY <2>2, <2>5, <2>7, <3>2, Zenon DEF Recorded, Load
      <4>2. PICK p : p = IF rec.prev = {} THEN rec.services ELSE rec.prev
        BY Zenon
      <4>3. p = S
        BY Zenon, <2>5, <3>2, <4>2
      <4>4. Recorded[m] = [rec EXCEPT !.phase = "active", !.prev = p]
        BY <4>1, <4>2, Zenon
      <4>5. Recorded[m].active /\ Recorded[m].services = S /\ Recorded[m].phase = "active" /\ Recorded[m].prev = S
        <5>1. Recorded[m] = [NoFence EXCEPT !.active = TRUE, !.phase = "active", !.run = r, !.services = S, !.prev = S]
          BY <2>4, <4>3, <4>4, Zenon DEF NoFence
        <5> QED
          BY <5>1, Zenon DEF NoFence
      <4> QED
        BY <4>5, Zenon
    <3> QED
      BY Zenon, <2>3, <3>1, <3>2
  <2>10. ~NoFence.active /\ NoFence.phase = "none"
    BY Zenon DEF NoFence
  <2>11. Phased(Recorded)
    BY <2>8, <2>9, <2>10, Zenon DEF Phased
  <2>12. Remembers(Recorded)
    BY Zenon, <2>8, <2>9, <2>10 DEF Remembers, Owns
  <2>13. Covered(Recorded)
    BY Zenon, <2>1, <2>2, <2>9 DEF Covered, Owns
  <2> QED
    BY Zenon, <1>1, <2>11, <2>12, <2>13 DEF RememberInv
<1> QED
  BY Zenon, <1>2, <1>3

LEMMA RememberInvariant ==
  Spec => [](budget.kinds \cap {"persist", "reboot"} = {} => RememberInv)
<1> DEFINE Inv == budget.kinds \cap {"persist", "reboot"} = {} => RememberInv
<1>1. Init => Inv
  BY Zenon, RememberInit
<1>2. TypeOK /\ LockInv /\ Inv /\ [Next]_vars => Inv'
  <2> SUFFICES ASSUME TypeOK, LockInv, Inv, [Next]_vars, budget'.kinds \cap {"persist", "reboot"} = {} PROVE RememberInv'
    BY Zenon
  <2>1. budget'.kinds = budget.kinds
    BY Zenon, SpendsNext, SpendType DEF TypeOK
  <2> QED
    BY Zenon, <2>1, RememberNext
<1> QED
  BY <1>1, <1>2, TypeCorrect, LockInvariant, PTL DEF Spec

\* a broker that is down has no records in memory
LEMMA DownEmpty == Spec => [](status = "down" => mem = Empty)
<1>1. Init => (status = "down" => mem = Empty)
  BY Zenon DEF Init
<1>2. TypeOK /\ LockInv /\ (status = "down" => mem = Empty) /\ [Next]_vars => (status = "down" => mem = Empty)'
  <2> SUFFICES ASSUME TypeOK, LockInv, status = "down" => mem = Empty, [Next]_vars, status' = "down" PROVE mem' = Empty
    BY Zenon DEF Empty
  <2>1. status = "down" => pc = "idle" /\ watch = "tick"
    BY Zenon DEF LockInv, Stages
  <2>2. ASSUME Stop PROVE mem' = Empty
    BY Zenon, <2>2 DEF Stop, Empty
  <2>3. CASE Requests
    BY <2>3 DEF Requests, Request, ActivateBegin, ReleaseBegin, VerifyBegin, ReleaseUnknown, ReleaseAgain
  <2>4. CASE HolderMove
    <3>1. status' = status /\ pc # "idle"
      BY Zenon, <2>4 DEF HolderMove, InstallMarker, RemoveMarker, InstallFails, RemoveFails, StopService, StartService,
         VerifyStopped, VerifyRestarted, VerifyPoll, CheckService
    <3> QED
      BY Zenon, <2>1, <3>1
  <2>5. CASE \/ \E out \in Outcomes : \/ PersistIntent(out) \/ CommitActive(out) \/ AuthorizeRelease(out)
                                      \/ CommitReleased(out) \/ CommitRestored(out) \/ VerifyCommit(out)
             \/ \E m \in Migrations : ReconcileFence(m) \/ ResumeFence(m)
             \/ \E known \in BOOLEAN, out \in Outcomes : ReconcileCommit(known, out)
    <3>1. pc # "idle" /\ (status' = status \/ Stop)
      BY Zenon, <2>5 DEF PersistIntent, CommitActive, AuthorizeRelease, CommitReleased, CommitRestored, VerifyCommit,
         ReconcileFence, ResumeFence, ReconcileCommit
    <3> QED
      BY Zenon, <2>1, <2>2, <3>1
  <2>6. CASE ReconcileDone \/ ResumeDone
    <3>1. pc # "idle" /\ (status' # "down" \/ status' = status \/ Stop)
      BY Zenon, <2>6 DEF ReconcileDone, ResumeDone, Reconciled
    <3> QED
      BY Zenon, <2>1, <2>2, <3>1
  <2>7. CASE Environment
    BY Zenon, <2>2, <2>7 DEF Environment, UnitStart, UnexpectedRestart, Crash, Reboot
  <2>8. CASE Validate \/ ReconcileBegin \/ ResumeBegin \/ Start \/ AcceptPersists \/ UNCHANGED vars
    BY Zenon, <2>8 DEF Validate, ReconcileBegin, ResumeBegin, Start, AcceptPersists, vars
  <2>9. CASE \E out \in Outcomes : Unavailable(out)
    <3>1. watch = "validated" /\ (status' = status \/ Stop)
      BY Zenon, <2>9 DEF Unavailable
    <3> QED
      BY Zenon, <2>1, <2>2, <3>1
  <2> QED
    BY Zenon, <2>3, <2>4, <2>5, <2>6, <2>7, <2>8, <2>9 DEF Next, HolderStep, HolderMove
<1> QED
  BY <1>1, <1>2, TypeCorrect, LockInvariant, PTL DEF Spec

\* Whatever crashes, restarts and failing markers, service calls and releases
\* intervene, an active fence names every service that ran before it among those
\* its release has to start again.
THEOREM WritersRemembered == Spec => []RemembersWriters
<1>1. (budget.kinds \cap {"persist", "reboot"} = {} => RememberInv) /\ (status = "down" => mem = Empty) => RemembersWriters
  <2> SUFFICES ASSUME RememberInv, status = "down" => mem = Empty, NEW m \in Migrations, mem[m].active
               PROVE  mem[m].services \cap production \subseteq mem[m].prev
    BY Zenon DEF RemembersWriters
  <2>1. CASE status # "down"
    BY Zenon, <2>1 DEF RememberInv, Remembers, Owns
  <2>2. CASE status = "down"
    BY <2>2 DEF Empty, NoFence
  <2> QED
    BY Zenon, <2>1, <2>2
<1> QED
  BY <1>1, RememberInvariant, DownEmpty, PTL

-----------------------------------------------------------------------------
(* Part 4: where a restart has been noted *)

\* A restart of a fenced service has been charged, or is still to be seen by a
\* reconciliation, or has just been seen by one.
Accounted(m) ==
  \/ Recorded[m].viol > 0
  \/ /\ Recorded[m].active /\ Recorded[m].phase = "active" /\ ~(pc = "r_auth" /\ op.m = m)
     /\ \/ Recorded[m].services \cap running # {}
        \/ pc \in {"w_check", "w_commit"} /\ op.m = m /\ op.violated

OpRestart ==
  /\ pc \in {"a_mark", "a_intent"} => ~mem[op.m].active
  /\ pc \in Activation => mem[op.m].phase = "activating"
  /\ pc = "r_auth" => op.who = "request"
  /\ pc \in Reconciling => op.rec.phase = mem[op.m].phase

RestartInv == (\A m \in Migrations : dirty[m] => Accounted(m)) /\ OpRestart

\* nothing is written and no service stops, outside a check of the services
LEMMA RestartQuiet ==
  ASSUME RestartInv, UNCHANGED <<disk, dirty>>, running \subseteq running', pc \notin {"w_check", "w_commit"}, pc' # "r_auth"
  PROVE  \A m \in Migrations : dirty'[m] => Accounted(m)'
<1>1. Recorded' = Recorded
  BY Zenon DEF Recorded
<1> QED
  BY Zenon, <1>1 DEF RestartInv, Accounted

\* the lock holder does not move
LEMMA RestartSame ==
  ASSUME RestartInv, Recorded' = Recorded, UNCHANGED <<dirty, running, pc, op>>
  PROVE  \A m \in Migrations : dirty'[m] => Accounted(m)'
BY Zenon DEF RestartInv, Accounted

\* one record is replaced by one that has charged the restart, or still sees it
LEMMA RestartWrite ==
  ASSUME TypeOK, RestartInv, mem = Recorded, NEW m \in Migrations, NEW rec, Recorded' = [mem EXCEPT ![m] = rec],
         UNCHANGED running, pc \in {"w_check", "w_commit"} => op.m = m, pc' # "r_auth",
         \A n \in Migrations : n # m /\ dirty'[n] => dirty[n],
         dirty'[m] => \/ rec.viol > 0
                      \/ rec.active /\ rec.phase = "active" /\ rec.services \cap running # {}
  PROVE  \A n \in Migrations : dirty'[n] => Accounted(n)'
<1> SUFFICES ASSUME NEW n \in Migrations, dirty'[n] PROVE Accounted(n)'
  BY Zenon
<1>1. mem \in [Migrations -> Fence]
  BY Zenon DEF TypeOK
<1>2. CASE n = m
  <2>1. Recorded'[n] = rec
    BY Zenon, <1>1, <1>2
  <2> QED
    BY Zenon, <1>2, <2>1 DEF Accounted
<1>3. CASE n # m
  <2>1. Recorded'[n] = Recorded[n]
    BY Zenon, <1>1, <1>3
  <2>2. Accounted(n)
    BY Zenon, <1>3 DEF RestartInv
  <2> QED
    BY Zenon, <1>3, <2>1, <2>2 DEF Accounted
<1> QED
  BY Zenon, <1>2, <1>3

\* what a fence whose record is not active has charged
LEMMA RestartCharged ==
  ASSUME RestartInv, NEW m \in Migrations, dirty[m], mem = Recorded,
         \/ ~mem[m].active \/ mem[m].phase # "active" \/ (pc = "r_auth" /\ op.m = m)
         \/ mem[m].services \cap running = {} /\ pc \notin {"w_check", "w_commit"}
  PROVE  mem[m].viol > 0
BY Zenon DEF RestartInv, Accounted

\* the records a start would load after a write
LEMMA RecordedWrite ==
  ASSUME NEW new \in [Migrations -> Fence], \A m \in Migrations : new[m].phase # "", disk' = new
  PROVE  Recorded' = new
BY Zenon, LoadSame DEF Recorded

\* the replaced record has a phase, and so have the others
LEMMA RecordedExcept ==
  ASSUME TypeOK, Phased(mem), NEW m \in Migrations, NEW rec \in Fence, rec.phase # "", disk' = [mem EXCEPT ![m] = rec]
  PROVE  Recorded' = [mem EXCEPT ![m] = rec]
<1>1. PICK new : new = [mem EXCEPT ![m] = rec]
  BY Zenon
<1>2. new \in [Migrations -> Fence] /\ new[m] = rec /\ \A n \in Migrations : n # m => new[n] = mem[n]
  BY Zenon, <1>1 DEF TypeOK
<1>3. \A n \in Migrations : new[n].phase # ""
  BY <1>2, Zenon DEF Phased
<1> QED
  BY Zenon, <1>1, <1>2, <1>3, RecordedWrite

LEMMA RestartNext ==
  ASSUME TypeOK, LockInv, EvidenceInv, RememberInv, RememberInv', RestartInv,
         budget.kinds \subseteq {"control"}, ~budget.retry, [Next]_vars
  PROVE  RestartInv'
<1> USE DEF Activation, Completing, Restoring, Reconciling
<1> DEFINE Charged == \A m \in Migrations : dirty'[m] => Accounted(m)'
<1>a. /\ op \in Op /\ op.rec \in Fence /\ \A m \in Migrations : mem[m] \in Fence /\ disk[m] \in Fence
      /\ mem \in [Migrations -> Fence] /\ disk \in [Migrations -> Fence]
  BY Zenon DEF TypeOK, Op
<1>b. "activating" \in Phases /\ "active" \in Phases /\ "released" \in Phases /\ "release_authorized" \in Phases
  BY Zenon DEF Phases
<1>c. Phased(mem) /\ (status # "down" => mem = Recorded) /\ OpRestart /\ "persist" \notin budget.kinds
  BY Zenon DEF RememberInv, RestartInv
<1>d. ASSUME Charged, OpRestart' PROVE RestartInv'
  BY Zenon, <1>d DEF RestartInv
<1>e. ASSUME NEW s \in Services, status # "down", op.m \in Migrations, Owns(mem[op.m]), s \in mem[op.m].services
      PROVE  \A n \in Migrations : n # op.m /\ Recorded[n].active => s \notin Recorded[n].services
  BY Zenon, <1>c, <1>e DEF LockInv, SingleOwner, Disjoint, Owns
<1>1. ASSUME NEW m \in Migrations, NEW r \in Runs, NEW S \in Scopes, ActivateBegin(m, r, S) PROVE RestartInv'
  <2>1. pc = "idle" /\ pc' = "a_mark" /\ ~mem[m].active /\ UNCHANGED <<status, mem, disk, running, dirty>>
    BY Zenon, <1>1 DEF ActivateBegin, Request
  <2>2. op'.m = m
    BY Zenon, <1>1 DEF ActivateBegin, NoOp
  <2>3. OpRestart'
    BY Zenon, <2>1, <2>2 DEF OpRestart
  <2> QED
    BY Zenon, <1>d, <2>1, <2>3, RestartQuiet
<1>2. ASSUME NEW m \in Migrations, NEW r \in Runs, NEW S \in Scopes, ReleaseBegin(m, r, S) PROVE RestartInv'
  <2>1. /\ pc = "idle" /\ pc' = "r_auth" /\ status = "serving" /\ mem[m].services = S /\ S \cap running = {}
        /\ UNCHANGED <<status, mem, disk, running, dirty>>
    BY Zenon, <1>2 DEF ReleaseBegin, Request
  <2>2. op'.m = m /\ op'.who = "request"
    BY Zenon, <1>2 DEF ReleaseBegin, NoOp
  <2>3. dirty[m] => mem[m].viol > 0
    BY Zenon, <1>c, <2>1, RestartCharged
  <2>4. Recorded' = Recorded /\ mem = Recorded
    BY Zenon, <1>c, <2>1 DEF Recorded
  <2>5. ASSUME NEW n \in Migrations, dirty'[n] PROVE Accounted(n)'
    <3>1. CASE n = m
      BY Zenon, <2>1, <2>3, <2>4, <2>5, <3>1 DEF Accounted
    <3>2. CASE n # m
      BY Zenon, <2>1, <2>2, <2>4, <2>5, <3>2 DEF RestartInv, Accounted
    <3> QED
      BY Zenon, <3>1, <3>2
  <2>6. OpRestart'
    BY Zenon, <2>1, <2>2 DEF OpRestart
  <2> QED
    BY Zenon, <1>d, <2>5, <2>6
<1>3. ASSUME NEW m \in Migrations, NEW r \in Runs, NEW S \in Scopes, VerifyBegin(m, r, S) PROVE RestartInv'
  <2>1. pc = "idle" /\ pc' = "v_poll" /\ UNCHANGED <<status, mem, disk, running, dirty>>
    BY Zenon, <1>3 DEF VerifyBegin, Request
  <2>2. OpRestart'
    BY Zenon, <2>1 DEF OpRestart
  <2> QED
    BY Zenon, <1>d, <2>1, <2>2, RestartQuiet
<1>4. ASSUME NEW m \in Migrations, NEW r \in Runs, NEW S \in Scopes, NEW out \in Outcomes, ReleaseUnknown(m, r, S, out)
      PROVE  RestartInv'
  <2>1. PICK rec : rec = Observed(r, S)
    BY Zenon
  <2>2. PICK new : new = [mem EXCEPT ![m] = rec]
    BY Zenon
  <2>3. Persist(new, out)
    BY ZenonT(40), <1>4, <2>1, <2>2 DEF ReleaseUnknown
  <2>4. disk' = new
    BY Zenon, <1>c, <2>3, PersistOk
  <2>5. status = "serving" /\ mem[m].phase = "none" /\ pc = "idle" /\ UNCHANGED <<pc, op, running, dirty>>
    BY Zenon, <1>4 DEF ReleaseUnknown, Request
  <2>6. rec \in Fence /\ rec.phase = "released"
    BY Zenon, <2>1, RequestRecordTypes
  <2>7. Recorded' = new
    <3>1. rec.phase # ""
      BY <2>6, Zenon
    <3> QED
      BY Zenon, <1>c, <2>2, <2>4, <2>6, <3>1, RecordedExcept
  <2>8. ~dirty[m]
    <3>1. mem[m].viol = 0
      BY Zenon, <2>5 DEF EvidenceInv, Counted
    <3>2. dirty[m] => mem[m].viol > 0
      BY Zenon, <1>c, <2>5, RestartCharged
    <3> QED
      BY SMTT(30), <3>1, <3>2
  <2>9. Charged
    BY Zenon, <1>c, <2>2, <2>5, <2>7, <2>8, RestartWrite
  <2>10. OpRestart'
    BY Zenon, <2>5 DEF OpRestart
  <2> QED
    BY Zenon, <1>d, <2>9, <2>10
<1>5. ASSUME Recorded' = Recorded, mem' = mem, UNCHANGED <<dirty, running, pc, op>> PROVE RestartInv'
  <2>1. OpRestart'
    BY Zenon, <1>c, <1>5 DEF OpRestart
  <2> QED
    BY Zenon, <1>d, <1>5, <2>1, RestartSame
<1>6. ASSUME \/ AcceptPersists
             \/ \E m \in Migrations, r \in Runs, S \in Scopes, out \in Outcomes : ReleaseAgain(m, r, S, out)
      PROVE  RestartInv'
  <2>1. disk' = mem /\ status = "serving" /\ UNCHANGED <<mem, pc, op, running, dirty>>
    BY Zenon, <1>6, <1>c, PersistOk DEF ReleaseAgain, AcceptPersists, Request
  <2>2. Recorded' = mem
    BY Zenon, <1>a, <1>c, <2>1, RecordedWrite DEF Phased
  <2> QED
    BY Zenon, <1>5, <1>c, <2>1, <2>2
<1>7. ASSUME HolderMove, ~(\E s \in Services, b \in BOOLEAN : StopService(s, b)),
             ~(\E s \in Services, res \in {"ok", "unknown", "stuck"} : CheckService(s, res))
      PROVE  RestartInv'
  <2>1. /\ UNCHANGED <<status, mem, disk, dirty>>
        /\ \/ pc' = "idle"
           \/ /\ op'.m = op.m /\ op'.rec = op.rec
              /\ \/ pc \in {"a_mark", "a_intent"} /\ pc' \in {"a_mark", "a_intent"}
                 \/ pc \in Activation /\ pc' \in Activation
                 \/ pc \in Completing /\ pc' \in Completing \cup {"x_mark"}
                 \/ pc \in Restoring /\ pc' \in Restoring
                 \/ pc \in Reconciling /\ pc' \in Reconciling
                 \/ pc \in {"a_abort", "v_poll"} /\ pc' \in {pc, "v_commit"}
    BY Zenon, <1>7, HolderMoves
  <2>2. running \subseteq running' /\ pc \notin {"w_check", "w_commit"}
    BY Zenon, <1>7 DEF HolderMove, InstallMarker, RemoveMarker, InstallFails, RemoveFails, StartService,
       VerifyStopped, VerifyRestarted, VerifyPoll
  <2>3. OpRestart' /\ pc' # "r_auth"
    BY Zenon, <1>c, <2>1 DEF OpRestart
  <2> QED
    BY Zenon, <1>d, <2>1, <2>2, <2>3, RestartQuiet
<1>8. ASSUME HolderMove, NEW s \in Services, NEW b \in BOOLEAN, StopService(s, b) PROVE RestartInv'
  <2>1. pc \in {"a_stop", "x_stop"} /\ s \in op.todo /\ running' \in {running, running \ {s}}
    BY Zenon, <1>8 DEF StopService, RememberInv, OpRemembers
  <2>2. /\ UNCHANGED <<status, mem, disk, dirty>> /\ pc' # "r_auth"
        /\ \/ pc' = "idle"
           \/ /\ op'.m = op.m /\ op'.rec = op.rec
              /\ \/ pc \in Activation /\ pc' \in Activation
                 \/ pc \in Restoring /\ pc' \in Restoring
    BY Zenon, <1>8, <2>1, HolderMoves
  <2>3. /\ op.m \in Migrations /\ status # "down" /\ Owns(mem[op.m]) /\ mem[op.m].services = op.rec.services
        /\ mem[op.m].phase # "active"
    BY Zenon, <1>c, <2>1 DEF LockInv, Stages, Copies, Owns, Authorized, OpRestart
  <2>4. s \in mem[op.m].services
    BY Zenon, <2>1, <2>3 DEF RememberInv, OpRemembers
  <2>5. \A n \in Migrations : n # op.m /\ Recorded[n].active => s \notin Recorded[n].services
    BY ZenonT(40), <1>e, <2>3, <2>4
  <2>6. Recorded' = Recorded /\ mem = Recorded
    BY Zenon, <1>c, <2>2, <2>3 DEF Recorded
  <2>7. ASSUME NEW n \in Migrations, dirty'[n] PROVE Accounted(n)'
    <3>1. CASE n = op.m
      <4>1. mem[n].viol > 0
        BY Zenon, <2>2, <2>3, <2>6, <2>7, <3>1, RestartCharged
      <4> QED
        BY Zenon, <2>6, <4>1 DEF Accounted
    <3>2. CASE n # op.m
      <4>1. Accounted(n) /\ (Recorded[n].active => s \notin Recorded[n].services)
        BY Zenon, <2>2, <2>5, <2>7, <3>2 DEF RestartInv
      <4>2. Recorded[n].active => Recorded[n].services \cap running \subseteq Recorded[n].services \cap running'
        BY Zenon, <2>1, <4>1
      <4> QED
        BY Zenon, <2>1, <2>2, <2>6, <4>1, <4>2 DEF Accounted
    <3> QED
      BY Zenon, <3>1, <3>2
  <2>8. OpRestart'
    BY Zenon, <1>c, <2>2 DEF OpRestart
  <2> QED
    BY Zenon, <1>d, <2>7, <2>8
<1>9. ASSUME HolderMove, NEW s \in Services, NEW res \in {"ok", "unknown", "stuck"}, CheckService(s, res) PROVE RestartInv'
  <2>1. /\ pc = "w_check" /\ s \in op.todo /\ pc' \in {"w_check", "w_commit"} /\ running' \in {running, running \ {s}}
    BY Zenon, <1>9 DEF CheckService
  <2>2. UNCHANGED <<status, mem, disk, dirty>> /\ op'.m = op.m /\ op'.rec = op.rec
    BY Zenon, <1>9, <2>1, HolderMoves
  <2>3. op.m \in Migrations /\ status # "down" /\ Owns(mem[op.m]) /\ mem[op.m].services = op.rec.services
    BY Zenon, <2>1 DEF LockInv, Stages, Copies, Owns
  <2>4. s \in mem[op.m].services
    BY Zenon, <2>1, <2>3 DEF RememberInv, OpRemembers
  <2>5. \A n \in Migrations : n # op.m /\ Recorded[n].active => s \notin Recorded[n].services
    BY Zenon, <1>e, <2>3, <2>4
  <2>6. Recorded' = Recorded /\ mem = Recorded
    BY Zenon, <1>c, <2>2, <2>3 DEF Recorded
  <2>7. PICK v : v = (op.violated \/ ((res = "unknown" \/ s \in running \/ op.rec.phase = "releasing") /\ op.rec.phase = "active"))
    BY Zenon
  <2>8. op'.violated = v
    <3>1. PICK w, T : op' = [op EXCEPT !.todo = T, !.violated = v, !.wderr = w]
      BY Zenon, <1>9, <2>7 DEF CheckService
    <3> QED
      BY Zenon, <1>a, <3>1 DEF Op
  <2>9. ASSUME NEW n \in Migrations, dirty'[n] PROVE Accounted(n)'
    <3>0. Accounted(n)
      BY Zenon, <2>2, <2>9 DEF RestartInv
    <3>1. CASE n = op.m
      <4>1. op.rec.phase = mem[n].phase
        BY Zenon, <1>c, <2>1, <3>1 DEF OpRestart
      <4>2. CASE Recorded[n].viol > 0
        BY Zenon, <2>6, <4>2 DEF Accounted
      <4>3. CASE Recorded[n].active /\ Recorded[n].phase = "active" /\ op.violated
        BY Zenon, <2>1, <2>2, <2>6, <2>7, <2>8, <3>1, <4>3 DEF Accounted
      <4>4. CASE Recorded[n].active /\ Recorded[n].phase = "active" /\ Recorded[n].services \cap running # {}
        <5>1. CASE Recorded[n].services \cap running' # {}
          BY Zenon, <2>1, <2>6, <4>4, <5>1 DEF Accounted
        <5>2. CASE Recorded[n].services \cap running' = {}
          <6>1. s \in running
            BY Zenon, <2>1, <4>4, <5>2
          <6>2. op'.violated
            BY ZenonT(40), <2>6, <2>7, <2>8, <4>1, <4>4, <6>1
          <6> QED
            BY Zenon, <2>1, <2>2, <2>6, <3>1, <4>4, <6>2 DEF Accounted
        <5> QED
          BY Zenon, <5>1, <5>2
      <4> QED
        BY Zenon, <3>0, <4>2, <4>3, <4>4 DEF Accounted
    <3>2. CASE n # op.m
      <4>1. Recorded[n].active => Recorded[n].services \cap running \subseteq Recorded[n].services \cap running'
        BY Zenon, <2>1, <2>5, <3>2
      <4> QED
        BY Zenon, <2>1, <2>2, <2>6, <3>0, <3>2, <4>1 DEF Accounted
    <3> QED
      BY Zenon, <3>1, <3>2
  <2>10. OpRestart'
    BY Zenon, <1>c, <2>1, <2>2 DEF OpRestart
  <2> QED
    BY Zenon, <1>d, <2>9, <2>10
<1>10. ASSUME NEW out \in Outcomes, PersistIntent(out) \/ AuthorizeRelease(out) PROVE RestartInv'
  <2>1. PICK new : new = [mem EXCEPT ![op.m] = op.rec]
    BY ZenonT(40)
  <2>2. Persist(new, out)
    BY Zenon, <1>10, <2>1 DEF PersistIntent, AuthorizeRelease
  <2>3. out = "ok" /\ disk' = new
    BY Zenon, <1>c, <2>2, PersistOk
  <2>4. /\ mem' = new /\ UNCHANGED <<running, dirty>>
        /\ \/ pc = "a_intent" /\ pc' = "a_stop" /\ op' = op
           \/ pc = "r_auth" /\ pc' = "c_unmark"
    BY Zenon, <1>10, <2>1, <2>3 DEF PersistIntent, AuthorizeRelease
  <2>5. /\ status = "serving" /\ op.m \in Migrations /\ op.rec.phase \in {"activating", "release_authorized"}
        /\ pc = "a_intent" => op.rec.phase = "activating"
    BY Zenon, <2>4 DEF LockInv, Stages, Copies, TypeOK, Authorized
  <2>6. SameCounts(op.rec, mem[op.m])
    BY Zenon, <2>4 DEF EvidenceInv, Working
  <2>7. dirty[op.m] => op.rec.viol > 0
    <3>1. pc = "a_intent" => ~mem[op.m].active
      BY Zenon, <1>c DEF OpRestart
    <3>2. dirty[op.m] => mem[op.m].viol > 0
      BY Zenon, <1>c, <2>4, <2>5, <3>1, RestartCharged
    <3> QED
      BY Zenon, <2>6, <3>2 DEF SameCounts
  <2>8. Recorded' = new
    <3>1. op.rec.phase # ""
      BY <2>5, Zenon
    <3> QED
      BY Zenon, <1>a, <1>c, <2>1, <2>3, <2>5, <3>1, RecordedExcept
  <2>9. Charged
    BY Zenon, <1>c, <2>1, <2>4, <2>5, <2>7, <2>8, RestartWrite
  <2>10. new[op.m] = op.rec
    BY ZenonT(40), <1>a, <2>1, <2>5
  <2>11. OpRestart'
    BY ZenonT(40), <2>4, <2>5, <2>10 DEF OpRestart
  <2> QED
    BY Zenon, <1>d, <2>9, <2>11
<1>11. ASSUME NEW out \in Outcomes, CommitActive(out) PROVE RestartInv'
  <2>1. PICK rec : rec = InPhase(op.rec, TRUE, "active")
    BY Zenon
  <2>2. PICK new : new = [mem EXCEPT ![op.m] = rec]
    BY ZenonT(40)
  <2>3. Persist(new, out)
    BY Zenon, <1>11, <2>1, <2>2 DEF CommitActive
  <2>4. disk' = new
    BY Zenon, <1>c, <2>3, PersistOk
  <2>5. pc = "a_commit" /\ pc' = "idle" /\ UNCHANGED <<running, dirty>>
    BY Zenon, <1>11 DEF CommitActive, Finish
  <2>6. status = "serving" /\ op.m \in Migrations /\ mem[op.m].phase = "activating"
    BY Zenon, <1>c, <2>5 DEF LockInv, Stages, TypeOK, OpRestart
  <2>7. rec \in Fence /\ rec.phase = "active"
    BY ZenonT(40), <1>a, <1>b, <2>1, InPhaseType
  <2>8. SameCounts(rec, op.rec)
    BY ZenonT(40), <1>a, <1>b, <2>1, InPhaseCounts
  <2>9. SameCounts(op.rec, mem[op.m])
    BY Zenon, <2>5 DEF EvidenceInv, Working
  <2>10. dirty[op.m] => mem[op.m].viol > 0
    BY Zenon, <1>c, <2>6, RestartCharged
  <2>11. dirty[op.m] => rec.viol > 0
    BY Zenon, <2>8, <2>9, <2>10 DEF SameCounts
  <2>12. Recorded' = new
    <3>1. rec.phase # ""
      BY <2>7, Zenon
    <3> QED
      BY Zenon, <1>c, <2>2, <2>4, <2>6, <2>7, <3>1, RecordedExcept
  <2>13. Charged
    BY Zenon, <1>c, <2>2, <2>5, <2>6, <2>11, <2>12, RestartWrite
  <2>14. OpRestart'
    BY Zenon, <2>5 DEF OpRestart
  <2> QED
    BY Zenon, <1>d, <2>13, <2>14
<1>12. ASSUME NEW out \in Outcomes, CommitReleased(out) PROVE RestartInv'
  <2>1. PICK rec : rec = InPhase(op.rec, FALSE, "released")
    BY ZenonT(40)
  <2>2. PICK new : new = [mem EXCEPT ![op.m] = rec]
    BY Zenon
  <2>3. Persist(new, out)
    BY Zenon, <1>12, <2>1, <2>2 DEF CommitReleased
  <2>4. out = "ok" /\ disk' = new
    BY Zenon, <1>c, <2>3, PersistOk
  <2>5. pc = "c_commit" /\ pc' \in {"idle", "z_next"} /\ UNCHANGED running /\ dirty' = [dirty EXCEPT ![op.m] = FALSE]
    BY Zenon, <1>12, <2>4 DEF CommitReleased, Finish
  <2>6. status # "down" /\ op.m \in Migrations
    BY Zenon, <2>5 DEF LockInv, Stages
  <2>7. rec \in Fence /\ rec.phase = "released"
    BY Zenon, <1>a, <1>b, <2>1, InPhaseType
  <2>8. Recorded' = new
    <3>1. rec.phase # ""
      BY <2>7, Zenon
    <3> QED
      BY Zenon, <1>c, <2>2, <2>4, <2>6, <2>7, <3>1, RecordedExcept
  <2>9. ~dirty'[op.m] /\ \A n \in Migrations : n # op.m => dirty'[n] = dirty[n]
    BY Zenon, <2>5, <2>6 DEF TypeOK
  <2>10. Charged
    BY ZenonT(40), <1>c, <2>2, <2>5, <2>6, <2>8, <2>9, RestartWrite
  <2>11. OpRestart'
    BY Zenon, <2>5 DEF OpRestart
  <2> QED
    BY Zenon, <1>d, <2>10, <2>11
<1>13. ASSUME NEW out \in Outcomes, CommitRestored(out) PROVE RestartInv'
  <2>1. PICK rec : rec = InPhase(op.rec, TRUE, "active")
    BY Zenon
  <2>2. PICK new : new = [mem EXCEPT ![op.m] = rec]
    BY Zenon
  <2>3. Persist(new, out)
    BY Zenon, <1>13, <2>1, <2>2 DEF CommitRestored
  <2>4. disk' = new
    BY Zenon, <1>c, <2>3, PersistOk
  <2>5. pc = "x_commit" /\ pc' = "idle" /\ UNCHANGED <<running, dirty>>
    BY ZenonT(40), <1>13 DEF CommitRestored, Stop, Finish
  <2>6. status # "down" /\ op.m \in Migrations /\ op.rec = mem[op.m] /\ mem[op.m].phase = "release_authorized"
    BY ZenonT(40), <2>5 DEF LockInv, Stages, Copies, Authorized
  <2>7. rec \in Fence /\ rec.phase = "active"
    BY Zenon, <1>a, <1>b, <2>1, InPhaseType
  <2>8. SameCounts(rec, op.rec)
    BY Zenon, <1>a, <1>b, <2>1, InPhaseCounts
  <2>9. dirty[op.m] => mem[op.m].viol > 0
    BY ZenonT(40), <1>c, <2>6, RestartCharged
  <2>10. dirty[op.m] => rec.viol > 0
    BY Zenon, <2>6, <2>8, <2>9 DEF SameCounts
  <2>11. Recorded' = new
    <3>1. rec.phase # ""
      BY <2>7, Zenon
    <3> QED
      BY ZenonT(40), <1>c, <2>2, <2>4, <2>6, <2>7, <3>1, RecordedExcept
  <2>12. Charged
    BY ZenonT(40), <1>c, <2>2, <2>5, <2>6, <2>10, <2>11, RestartWrite
  <2>13. OpRestart'
    BY Zenon, <2>5 DEF OpRestart
  <2> QED
    BY Zenon, <1>d, <2>12, <2>13
<1>14. ASSUME NEW out \in Outcomes, VerifyCommit(out) PROVE RestartInv'
  <2>1. PICK phase : phase = IF mem[op.m].phase = "activating" THEN "active" ELSE mem[op.m].phase
    BY Zenon
  <2>2. PICK rec : rec = InPhase(mem[op.m], TRUE, phase)
    BY ZenonT(40)
  <2>3. PICK new : new = [mem EXCEPT ![op.m] = rec]
    BY Zenon
  <2>4. /\ pc = "v_commit" /\ pc' = "idle" /\ UNCHANGED <<status, running, dirty>>
        /\ \/ mem[op.m].active /\ Persist(new, out)
           \/ UNCHANGED <<mem, disk>>
    BY Zenon, <1>14, <2>1, <2>2, <2>3 DEF VerifyCommit, Finish
  <2>5. status = "serving" /\ op.m \in Migrations
    BY ZenonT(40), <2>4 DEF LockInv, Stages, TypeOK
  <2>6. OpRestart'
    BY ZenonT(40), <2>4 DEF OpRestart
  <2>7. CASE UNCHANGED <<mem, disk>>
    BY Zenon, <1>d, <2>4, <2>6, <2>7, RestartQuiet
  <2>8. CASE mem[op.m].active /\ Persist(new, out)
    <3>1. phase \in Phases /\ phase # "" /\ (mem[op.m].phase = "active" => phase = "active")
      BY <1>a, <1>b, <1>c, <2>1, <2>5, Zenon DEF Fence, Phased
    <3>2. PICK f : f = mem[op.m] /\ f \in Fence
      BY Zenon, <1>a, <2>5
    <3>3. rec \in Fence /\ rec.active /\ rec.phase = phase /\ rec.services = f.services
      BY ZenonT(40), <2>2, <3>1, <3>2, InPhaseType
    <3>4. SameCounts(rec, f)
      BY ZenonT(40), <2>2, <3>1, <3>2, InPhaseCounts
    <3>5. disk' = new
      BY Zenon, <1>c, <2>8, PersistOk
    <3>6. Recorded' = new
      <4>1. rec.phase # ""
        BY <3>1, <3>3, Zenon
      <4> QED
        BY Zenon, <1>c, <2>3, <2>5, <3>3, <3>5, <4>1, RecordedExcept
    <3>7. dirty[op.m] => rec.viol > 0 \/ (rec.active /\ rec.phase = "active" /\ rec.services \cap running # {})
      <4>1. CASE mem[op.m].active /\ mem[op.m].phase = "active" /\ mem[op.m].services \cap running # {}
        BY Zenon, <3>1, <3>2, <3>3, <4>1
      <4>2. CASE ~(mem[op.m].active /\ mem[op.m].phase = "active" /\ mem[op.m].services \cap running # {})
        <5>1. dirty[op.m] => mem[op.m].viol > 0
          BY Zenon, <1>c, <2>4, <2>5, <4>2, RestartCharged
        <5> QED
          BY Zenon, <3>2, <3>4, <5>1 DEF SameCounts
      <4> QED
        BY Zenon, <4>1, <4>2
    <3>8. Charged
      BY Zenon, <1>c, <2>3, <2>4, <2>5, <3>6, <3>7, RestartWrite
    <3> QED
      BY Zenon, <1>d, <2>6, <3>8
  <2> QED
    BY Zenon, <2>4, <2>7, <2>8
<1>15. ASSUME NEW m \in Migrations, ReconcileFence(m) \/ ResumeFence(m) PROVE RestartInv'
  <2>1. pc \in {"w_next", "z_next"} /\ pc' \in {"w_mark", "c_unmark"} /\ UNCHANGED <<mem, disk, running, dirty>>
    BY Zenon, <1>15 DEF ReconcileFence, ResumeFence
  <2>2. op'.m = m /\ op'.rec = mem[m]
    BY ZenonT(40), <1>a, <1>15 DEF ReconcileFence, ResumeFence, Op
  <2>3. OpRestart'
    BY ZenonT(40), <2>1, <2>2 DEF OpRestart
  <2> QED
    BY Zenon, <1>d, <2>1, <2>3, RestartQuiet
<1>16. ASSUME NEW known \in BOOLEAN, NEW out \in Outcomes, ReconcileCommit(known, out) PROVE RestartInv'
  <2>1. PICK inactive : inactive = (known /\ mem[op.m].services \cap running = {})
    BY Zenon
  <2>2. PICK v, w : v = (op.violated \/ ~inactive) /\ w = (op.wderr \/ ~inactive)
    BY Zenon
  <2>3. PICK phase : phase = IF inactive /\ mem[op.m].phase \in {"activating", "releasing"} THEN "active"
                             ELSE mem[op.m].phase
    BY Zenon
  <2>4. PICK bumped : bumped = Bump(mem[op.m], v, w)
    BY Zenon
  <2>5. PICK rec : rec = InPhase(bumped, TRUE, phase)
    BY Zenon
  <2>6. PICK new : new = [mem EXCEPT ![op.m] = rec]
    BY Zenon
  <2>7. /\ pc = "w_commit" /\ pc' = "w_next" /\ UNCHANGED <<running, dirty>>
        /\ (out # "ok") => CanFault("persist")
        /\ disk' = IF out = "before" THEN disk ELSE new
    BY Zenon, <1>16, <2>1, <2>2, <2>3, <2>4, <2>5, <2>6 DEF ReconcileCommit
  <2>8. disk' = new
    BY Zenon, <1>c, <2>7 DEF CanFault
  <2>9. op.m \in Migrations /\ status # "down"
    BY Zenon, <2>7 DEF LockInv, Stages
  <2>10. phase \in Phases /\ phase # ""
    BY <1>a, <1>b, <1>c, <2>3, <2>9, Zenon DEF Fence, Phased
  <2>11. v \in BOOLEAN /\ w \in BOOLEAN
    BY Zenon, <1>a, <2>1, <2>2 DEF Op
  <2>12. bumped \in Fence
    BY Zenon, <1>a, <2>4, <2>9, <2>11, BumpType
  <2>13. bumped.viol \in Nat /\ bumped.viol >= mem[op.m].viol /\ (v => bumped.viol > 0)
    BY ZenonT(40), <1>a, <2>4, <2>9, <2>11, BumpKeeps
  <2>14. rec \in Fence /\ rec.phase = phase
    BY ZenonT(40), <2>5, <2>10, <2>12, InPhaseType
  <2>15. SameCounts(rec, bumped)
    BY ZenonT(40), <2>5, <2>10, <2>12, InPhaseCounts
  <2>16. dirty[op.m] => v \/ mem[op.m].viol > 0
    BY Zenon, <1>c, <2>1, <2>2, <2>9 DEF RestartInv, Accounted
  <2>17. mem[op.m].viol \in Nat
    BY Zenon, <1>a, <2>9 DEF Fence
  <2>18. dirty[op.m] => rec.viol > 0
    <3>1. dirty[op.m] => bumped.viol > 0
      BY SMTT(30), <2>13, <2>16, <2>17
    <3> QED
      BY Zenon, <2>15, <3>1 DEF SameCounts
  <2>19. Recorded' = new
    <3>1. rec.phase # ""
      BY <2>10, <2>14, Zenon
    <3> QED
      BY Zenon, <1>c, <2>6, <2>8, <2>9, <2>14, <3>1, RecordedExcept
  <2>20. Charged
    BY Zenon, <1>c, <2>6, <2>7, <2>9, <2>18, <2>19, RestartWrite
  <2>21. OpRestart'
    BY Zenon, <2>7 DEF OpRestart
  <2> QED
    BY Zenon, <1>d, <2>20, <2>21
<1>17. ASSUME ReconcileDone \/ ResumeDone \/ ReconcileBegin \/ ResumeBegin PROVE RestartInv'
  <2>1. /\ pc \in {"idle", "w_next", "z_next"} /\ pc' \in {"idle", "w_next", "z_next"}
        /\ UNCHANGED <<disk, running, dirty>>
    BY Zenon, <1>17 DEF ReconcileDone, ResumeDone, ReconcileBegin, ResumeBegin, Reconciled, Stop, Finish
  <2>2. OpRestart'
    BY Zenon, <2>1 DEF OpRestart
  <2> QED
    BY Zenon, <1>d, <2>1, <2>2, RestartQuiet
<1>18. ASSUME NEW s \in Services, UnitStart(s) \/ UnexpectedRestart(s) PROVE RestartInv'
  <2>1. UNCHANGED <<status, mem, disk, pc, op>> /\ Started(s)
    BY Zenon, <1>18 DEF UnitStart, UnexpectedRestart
  <2>2. Records = Recorded /\ Recorded' = Recorded
    BY Zenon, <1>c, <2>1 DEF Records, Recorded
  <2>3. ASSUME NEW m \in Migrations, dirty'[m] PROVE Accounted(m)'
    <3>1. running' = running \cup {s} /\ (dirty[m] \/ m \in Holding(s))
      BY Zenon, <2>1, <2>3 DEF Started
    <3>2. CASE dirty[m]
      <4>1. Accounted(m)
        BY Zenon, <3>2 DEF RestartInv
      <4> QED
        BY Zenon, <2>1, <2>2, <3>1, <4>1 DEF Accounted
    <3>3. CASE m \in Holding(s)
      <4>1. /\ Recorded[m].active /\ Recorded[m].phase = "active" /\ s \in Recorded[m].services
            /\ ~(op.who = "request" /\ op.m = m /\ pc \notin {"v_poll", "v_commit"})
        BY Zenon, <2>2, <3>3 DEF Holding
      <4>2. ~(pc = "r_auth" /\ op.m = m)
        BY Zenon, <1>c, <4>1 DEF OpRestart
      <4> QED
        BY Zenon, <2>1, <2>2, <3>1, <4>1, <4>2 DEF Accounted
    <3> QED
      BY Zenon, <3>1, <3>2, <3>3
  <2>4. OpRestart'
    BY Zenon, <1>c, <2>1 DEF OpRestart
  <2> QED
    BY Zenon, <1>d, <2>3, <2>4
<1>19. ASSUME Validate \/ UNCHANGED vars PROVE RestartInv'
  <2>1. UNCHANGED <<mem, disk, dirty, running, pc, op>>
    BY Zenon, <1>19 DEF Validate, vars
  <2>2. Recorded' = Recorded
    BY Zenon, <2>1 DEF Recorded
  <2> QED
    BY Zenon, <1>5, <2>1, <2>2
<1>20. ASSUME Start PROVE RestartInv'
  <2>1. UNCHANGED <<disk, dirty, running, pc, op>> /\ status = "down"
    BY Zenon, <1>20 DEF Start
  <2>2. Recorded' = Recorded /\ pc = "idle"
    BY ZenonT(40), <2>1 DEF Recorded, LockInv, Stages
  <2>3. OpRestart'
    BY Zenon, <2>1, <2>2 DEF OpRestart
  <2> QED
    BY Zenon, <1>d, <2>1, <2>2, <2>3, RestartSame
<1>21. ASSUME Crash \/ Reboot \/ \E out \in Outcomes : Unavailable(out) PROVE RestartInv'
  BY Zenon, <1>21 DEF Crash, Reboot, Unavailable, CanFault
<1> QED
  BY ZenonT(40), <1>1, <1>2, <1>3, <1>4, <1>6, <1>7, <1>8, <1>9, <1>10, <1>11, <1>12, <1>13, <1>14, <1>15, <1>16, <1>17, <1>18, <1>19,
     <1>20, <1>21 DEF Next, Requests, HolderStep, HolderMove, Environment

\* On a host without crashes and failing writes, a fenced service that restarted
\* and was stopped again has been charged to its fence, however the restart falls
\* between the watchdog's check, stop and count, a verification or a release.
THEOREM RestartsCharged == Spec => []NoSilentRestart
<1> DEFINE Calm == budget.kinds \subseteq {"control"} /\ ~budget.retry
           Evid == "systemctl" \notin budget.kinds => EvidenceInv
           Rem == budget.kinds \cap {"persist", "reboot"} = {} => RememberInv
           Inv == Calm => RestartInv
<1>1. Init => Inv
  BY Zenon DEF Init, RestartInv, OpRestart, Activation, Reconciling
<1>2. TypeOK /\ LockInv /\ Evid /\ Rem /\ Rem' /\ Inv /\ [Next]_vars => Inv'
  <2> SUFFICES ASSUME TypeOK, LockInv, Evid, Rem, Rem', Inv, [Next]_vars, Calm' PROVE RestartInv'
    BY Zenon
  <2>1. budget'.kinds = budget.kinds /\ budget'.retry = budget.retry
    BY Zenon, SpendsNext, SpendType DEF TypeOK
  <2>2. /\ budget.kinds \subseteq {"control"} /\ ~budget.retry /\ "systemctl" \notin budget.kinds
        /\ budget.kinds \cap {"persist", "reboot"} = {}
    BY SMTT(30), <2>1
  <2> QED
    BY Zenon, <2>1, <2>2, RestartNext
<1>3. Rem /\ Inv => NoSilentRestart
  <2> SUFFICES ASSUME Rem, Inv, Calm, status = "serving", pc = "idle", NEW m \in Migrations,
                      dirty[m], mem[m].active, mem[m].services \cap running = {}
               PROVE  mem[m].viol > 0
    BY Zenon DEF NoSilentRestart
  <2>1. RestartInv /\ mem = Recorded
    BY Zenon DEF RememberInv
  <2> QED
    BY Zenon, <2>1, RestartCharged
<1>4. Spec => []Evid
  BY Zenon, EvidenceInvariant
<1>5. Spec => []Rem
  BY Zenon, RememberInvariant
<1> QED
  BY <1>1, <1>2, <1>3, <1>4, <1>5, TypeCorrect, LockInvariant, PTL DEF Spec

=============================================================================
