------------------------------ MODULE FileSwap ------------------------------
(***************************************************************************)
(* applyFileTree and recoverFileSwap (internal/migration/files.go): how a  *)
(* downloaded and verified tree replaces the target directory of a         *)
(* migration.  The tree is copied to an apply directory, a marker records  *)
(* the swap, the old target is renamed to a backup and the apply directory *)
(* to the target; the marker then names the new tree and the backup is     *)
(* removed.  Every rename, removal and marker write may fail, the agent    *)
(* may crash between any two, and between attempts somebody else may       *)
(* change the target.                                                      *)
(*                                                                         *)
(* Abstracted: a tree is known by the digest of its manifest (Versions);   *)
(* paths, permissions, digests and times are left out.  The apply and      *)
(* backup directories of a swap carry a token made from the migration and  *)
(* the digest, so there is one of each per key <<migration, version>>.     *)
(***************************************************************************)
EXTENDS Naturals

CONSTANTS
  Migrations,
  Versions,      \* digests of the source trees
  Absent,        \* no directory
  Empty,         \* an empty directory
  Foreign,       \* a directory somebody else has written to
  Partial,       \* a directory half copied or half removed
  Unset,
  MaxFailures, MaxKills, MaxForeign, MaxRequests

VARIABLES
  target,        \* the content of the target directory
  apply,         \* the content of each apply directory
  backup,        \* the content of each backup directory
  marker,        \* the ownership marker of the target
  step, op,        \* the sync at work and its locals
  want,          \* the sync the backend asks for, again and again until it succeeds
  done,          \* the sync that has just succeeded
  failures, kills, changes, requests

swapVars == <<target, apply, backup, marker, step, op, want, done, failures, kills, changes, requests>>

Keys == Migrations \X Versions
Trees == Versions \cup {Empty, Foreign}
Contents == Trees \cup {Partial, Absent}

\* fileSyncMarker; "none" stands for a file that is not there
Markers == [mig: Migrations \cup {Unset}, state: {"none", "swapping", "active"},
            active: Versions \cup {Empty, Unset}, pending: Versions \cup {Unset}]
NoMarker == [mig |-> Unset, state |-> "none", active |-> Unset, pending |-> Unset]

\* key: the directories of the swap at work; exists: targetExists
Ops == [key: Keys \cup {Unset}, rec: Markers, exists: BOOLEAN]
NoOp == [key |-> Unset, rec |-> NoMarker, exists |-> FALSE]

Recovering == {"recover", "r_backup", "r_apply", "r_mark", "s_apply", "s_backup", "s_mark"}
Steps == {"idle", "inspect", "copy", "verify", "c_apply", "mark", "old", "new", "active", "u_backup"} \cup Recovering

ASSUME FileSwapAssumption ==
  /\ Unset \notin Versions \cup Migrations \cup Keys \cup {Empty, Absent, Foreign, Partial}
  /\ Absent \notin Trees /\ Partial \notin Trees \cup {Absent} /\ Foreign \notin Versions \cup {Empty}
  /\ MaxFailures \in Nat /\ MaxKills \in Nat /\ MaxForeign \in Nat /\ MaxRequests \in Nat

SwapInit ==
  /\ target \in {Absent, Empty, Foreign}
  /\ apply = [k \in Keys |-> Absent] /\ backup = [k \in Keys |-> Absent]
  /\ marker = NoMarker
  /\ step = "idle" /\ op = NoOp /\ want = Unset /\ done = Unset
  /\ failures = 0 /\ kills = 0 /\ changes = 0 /\ requests = 0

-----------------------------------------------------------------------------
(* Common steps *)

Failure(ok) ==
  /\ ok \/ failures < MaxFailures
  /\ failures' = IF ok THEN failures ELSE failures + 1

Environment == <<kills, changes, requests>>

\* the attempt ends; a failed sync stays wanted
Fail == step' = "idle" /\ op' = NoOp /\ UNCHANGED <<want, done>>
Succeed == step' = "idle" /\ op' = NoOp /\ want' = Unset /\ done' = op.key
Goto(p) == step' = p /\ UNCHANGED <<op, want, done>>

\* the directories recovery works on are those the marker names, not those of
\* the sync at work
Swap == IF step \in Recovering THEN <<op.rec.mig, op.rec.pending>> ELSE op.key

\* a marker written by atomicJSONFile is there in full or not at all
Write(rec, ok) ==
  /\ Failure(ok)
  /\ marker' = IF ok THEN rec ELSE marker
  /\ UNCHANGED <<target, apply, backup>>

Settled(rec, active) == [rec EXCEPT !.state = "active", !.active = active, !.pending = Unset]

\* the steps that remove a directory: which one, where they go on, and whether
\* an error of theirs ends the attempt
RemovesApply == {"r_apply", "s_apply", "c_apply"}
RemovesBackup == {"r_backup", "s_backup", "u_backup"}
AfterRemoval(p) ==
  CASE p = "r_backup" -> "r_apply" [] p = "r_apply" -> "r_mark"
    [] p = "s_apply" -> "s_backup" [] p = "s_backup" -> "s_mark"
    [] OTHER -> "idle"
Strict == {"r_backup", "u_backup"}

\* safeRemoveSwapPath: files go one by one, then the directory
RemoveFiles ==
  /\ step \in RemovesApply \cup RemovesBackup
  /\ IF step \in RemovesApply
     THEN apply[Swap] \notin {Absent, Partial} /\ apply' = [apply EXCEPT ![Swap] = Partial] /\ UNCHANGED backup
     ELSE backup[Swap] \notin {Absent, Partial} /\ backup' = [backup EXCEPT ![Swap] = Partial] /\ UNCHANGED apply
  /\ Goto(step)
  /\ UNCHANGED <<target, marker, failures, Environment>>

RemoveDone(ok) ==
  /\ step \in RemovesApply \cup RemovesBackup
  /\ Failure(ok)
  /\ IF step \in RemovesApply
     THEN /\ apply[Swap] \in {Absent, Partial} /\ UNCHANGED backup
          /\ apply' = IF ok THEN [apply EXCEPT ![Swap] = Absent] ELSE apply
     ELSE /\ backup[Swap] \in {Absent, Partial} /\ UNCHANGED apply
          /\ backup' = IF ok THEN [backup EXCEPT ![Swap] = Absent] ELSE backup
  /\ IF step = "c_apply" \/ (step \in Strict /\ ~ok) THEN Fail
     ELSE IF step = "u_backup" THEN Succeed ELSE Goto(AfterRemoval(step))
  /\ UNCHANGED <<target, marker, Environment>>

-----------------------------------------------------------------------------
(* recoverFileSwap *)

\* filesSync reaches applyFileTree: the marker is read, and must be this
\* migration's
Begin ==
  /\ step = "idle" /\ want # Unset
  /\ marker.state = "none" \/ marker.mig = want[1]
  /\ step' = IF marker.state = "swapping" THEN "recover" ELSE "inspect"
  /\ op' = [key |-> want, rec |-> marker, exists |-> FALSE]
  /\ UNCHANGED <<target, apply, backup, marker, want, done, failures, Environment>>

\* variant of RecoverTarget: an unknown target is replaced by the new tree
RecoverTarget_Replaces ==
  /\ step = "recover" /\ target # Absent
  /\ IF target = op.rec.pending THEN Goto("r_backup") /\ UNCHANGED <<target, apply>>
     ELSE IF op.rec.active # Unset /\ target = op.rec.active THEN Goto("s_apply") /\ UNCHANGED <<target, apply>>
     ELSE IF apply[Swap] = Absent THEN Fail /\ UNCHANGED <<target, apply>>
     ELSE target' = apply[Swap] /\ apply' = [apply EXCEPT ![Swap] = Absent] /\ Goto("recover")
  /\ UNCHANGED <<backup, marker, failures, Environment>>

\* the target is compared with the two trees of the swap
RecoverTarget ==
  /\ step = "recover" /\ target # Absent
  /\ IF target = op.rec.pending THEN Goto("r_backup")
     ELSE IF op.rec.active # Unset /\ target = op.rec.active THEN Goto("s_apply")
     ELSE Fail
  /\ UNCHANGED <<target, apply, backup, marker, failures, Environment>>

\* variant of RecoverRename: an unfinished swap can only be undone
RecoverRename_OnlyBackup(ok) ==
  /\ step = "recover" /\ target = Absent
  /\ Failure(ok)
  /\ IF ~ok \/ backup[Swap] = Absent
     THEN Fail /\ UNCHANGED <<target, backup>>
     ELSE /\ target' = backup[Swap] /\ backup' = [backup EXCEPT ![Swap] = Absent]
          /\ Goto("s_mark")
  /\ UNCHANGED <<apply, marker, Environment>>

\* no target: the swap is finished, or else undone
RecoverRename(ok) ==
  /\ step = "recover" /\ target = Absent
  /\ Failure(ok)
  /\ IF ~ok \/ (apply[Swap] = Absent /\ backup[Swap] = Absent)
     THEN Fail /\ UNCHANGED <<target, apply, backup>>
     ELSE IF apply[Swap] # Absent
     THEN /\ target' = apply[Swap] /\ apply' = [apply EXCEPT ![Swap] = Absent]
          /\ Goto("recover") /\ UNCHANGED backup
     ELSE /\ target' = backup[Swap] /\ backup' = [backup EXCEPT ![Swap] = Absent]
          /\ Goto("s_mark") /\ UNCHANGED apply
  /\ UNCHANGED <<marker, Environment>>

RecoverMark(ok) ==
  LET rec == Settled(op.rec, IF step = "r_mark" THEN op.rec.pending ELSE op.rec.active) IN
  /\ step \in {"r_mark", "s_mark"}
  /\ Write(rec, ok)
  /\ IF ok THEN step' = "inspect" /\ op' = [op EXCEPT !.rec = rec] /\ UNCHANGED <<want, done>> ELSE Fail
  /\ UNCHANGED Environment

-----------------------------------------------------------------------------
(* applyFileTree *)

Owned == op.rec.state # "none"

\* a target that is there must be the tree this migration put there, or empty
\* if it has put none; one that is gone must not have been put there
InLineage ==
  target = IF Owned THEN (IF op.rec.active = Unset THEN Absent ELSE op.rec.active)
           ELSE IF target = Absent THEN Absent ELSE Empty

\* neither the apply nor the backup directory of this swap may exist
Inspect(ok) ==
  /\ step = "inspect"
  /\ Failure(ok)
  /\ IF ~InLineage THEN ok /\ Fail
     ELSE IF target # Absent /\ Owned /\ op.rec.active = op.key[2] THEN ok /\ Succeed
     ELSE IF ~ok \/ apply[op.key] # Absent \/ backup[op.key] # Absent THEN Fail
     ELSE step' = "copy" /\ op' = [op EXCEPT !.exists = (target # Absent)] /\ UNCHANGED <<want, done>>
  /\ UNCHANGED <<target, apply, backup, marker, Environment>>

\* copyManifestTree, and the check of what it has copied
Copy(ok) ==
  /\ step = "copy"
  /\ Failure(ok)
  /\ apply' = [apply EXCEPT ![op.key] = Partial]
  /\ Goto(IF ok THEN "verify" ELSE "c_apply")
  /\ UNCHANGED <<target, backup, marker, Environment>>

VerifyCopy(ok) ==
  /\ step = "verify"
  /\ Failure(ok)
  /\ apply' = IF ok THEN [apply EXCEPT ![op.key] = op.key[2]] ELSE apply
  /\ Goto(IF ok THEN "mark" ELSE "c_apply")
  /\ UNCHANGED <<target, backup, marker, Environment>>

MarkSwapping(ok) ==
  LET rec == [mig |-> op.key[1], state |-> "swapping", pending |-> op.key[2],
              active |-> IF Owned THEN op.rec.active ELSE IF op.exists THEN Empty ELSE Unset] IN
  /\ step = "mark"
  /\ Write(rec, ok)
  /\ step' = IF ok THEN "old" ELSE "c_apply"
  /\ op' = [op EXCEPT !.rec = rec]
  /\ UNCHANGED <<want, done, Environment>>

\* variant of RenameOld: the old tree is removed at once
RenameOld_Removes(ok) ==
  /\ step = "old" /\ (op.exists \/ ok)
  /\ Failure(ok)
  /\ IF ok /\ op.exists THEN target' = Absent ELSE UNCHANGED target
  /\ IF ok THEN Goto("new") ELSE Fail
  /\ UNCHANGED <<apply, backup, marker, Environment>>

RenameOld(ok) ==
  /\ step = "old" /\ (op.exists \/ ok)
  /\ Failure(ok)
  /\ IF ok /\ op.exists
     THEN backup' = [backup EXCEPT ![op.key] = target] /\ target' = Absent
     ELSE UNCHANGED <<backup, target>>
  /\ IF ok THEN Goto("new") ELSE Fail
  /\ UNCHANGED <<apply, marker, Environment>>

RenameNew ==
  /\ step = "new"
  /\ target' = apply[op.key] /\ apply' = [apply EXCEPT ![op.key] = Absent]
  /\ Goto("active")
  /\ UNCHANGED <<backup, marker, failures, Environment>>

\* the old tree is renamed back, if that works
RenameNewFails(back) ==
  /\ step = "new"
  /\ failures' = failures + (IF back THEN 1 ELSE 2) /\ failures' <= MaxFailures
  /\ IF op.exists /\ back
     THEN target' = backup[op.key] /\ backup' = [backup EXCEPT ![op.key] = Absent]
     ELSE UNCHANGED <<target, backup>>
  /\ Fail
  /\ UNCHANGED <<apply, marker, Environment>>

MarkActive(ok) ==
  /\ step = "active"
  /\ Write(Settled(op.rec, op.key[2]), ok)
  /\ IF ~ok THEN Fail ELSE IF op.exists THEN Goto("u_backup") ELSE Succeed
  /\ UNCHANGED Environment

-----------------------------------------------------------------------------
(* The environment *)

\* the backend asks for a sync, the first or another one
Request(k) ==
  /\ step = "idle" /\ want # k /\ requests < MaxRequests
  /\ want' = k /\ done' = Unset /\ requests' = requests + 1
  /\ UNCHANGED <<target, apply, backup, marker, step, op, failures, kills, changes>>

ChangeTarget(content) ==
  /\ step = "idle" /\ target # content /\ changes < MaxForeign
  /\ target' = content /\ changes' = changes + 1
  /\ UNCHANGED <<apply, backup, marker, step, op, want, done, failures, kills, requests>>

Killed ==
  /\ step # "idle" /\ kills < MaxKills
  /\ step' = "idle" /\ op' = NoOp /\ kills' = kills + 1
  /\ UNCHANGED <<target, apply, backup, marker, want, done, failures, changes, requests>>

Sync ==
  \/ Begin \/ RecoverTarget \/ RemoveFiles \/ RenameNew
  \/ \E ok \in BOOLEAN :
       \/ RemoveDone(ok) \/ RecoverRename(ok) \/ RecoverMark(ok) \/ Inspect(ok) \/ Copy(ok) \/ VerifyCopy(ok)
       \/ MarkSwapping(ok) \/ RenameOld(ok) \/ RenameNewFails(ok) \/ MarkActive(ok)

SwapNext ==
  \/ Sync \/ Killed
  \/ \E k \in Keys : Request(k)
  \/ \E content \in {Foreign, Absent} : ChangeTarget(content)

SwapSpec == SwapInit /\ [][SwapNext]_swapVars

\* the backend has a failed step tried again, and an attempt comes to its end
SwapLiveSpec == SwapSpec /\ WF_swapVars(Sync)

-----------------------------------------------------------------------------
(* Properties *)

SwapTypeOK ==
  /\ target \in Contents /\ apply \in [Keys -> Contents] /\ backup \in [Keys -> Contents]
  /\ marker \in Markers /\ step \in Steps /\ op \in Ops
  /\ want \in Keys \cup {Unset} /\ done \in Keys \cup {Unset}
  /\ failures \in Nat /\ kills \in Nat /\ changes \in Nat /\ requests \in Nat

\* At every moment, whatever has failed and wherever the agent has crashed, the
\* tree the marker calls active is in the target, or, during a swap, in the
\* backup while the new tree is complete in the apply directory or the target;
\* unless somebody else has changed the target.
TreeKept ==
  LET k == <<marker.mig, marker.pending>> IN
  changes = 0 =>
    /\ marker.state = "active" => target = marker.active
    /\ marker.state = "swapping" =>
         \/ target \in {marker.pending, marker.active}
         \/ /\ target = Absent /\ apply[k] = marker.pending
            /\ marker.active = Unset \/ backup[k] = marker.active

\* What somebody else has written to the target is neither replaced nor removed
\* by a sync (applyFileTree: "changed outside the migration lineage").
ForeignKept ==
  [][target = Foreign /\ changes' = changes => target' = Foreign]_swapVars

\* A sync that succeeds, as a replay too, leaves the tree it was asked for in
\* the target, and the marker says so.
SyncedWhenDone ==
  [][done' # done /\ done' # Unset =>
       target' = done'[2] /\ marker'.state = "active" /\ marker'.active = done'[2] /\ marker'.mig = done'[1]]_swapVars

\* an apply or backup directory that no swap on record accounts for
Littered(k) ==
  /\ apply[k] # Absent \/ backup[k] # Absent
  /\ ~(marker.state = "swapping" /\ marker.mig = k[1] /\ marker.pending = k[2])

\* the target is another migration's, or not what the marker says
Taken(m) ==
  \/ marker.state = "none" /\ target \notin {Absent, Empty}
  \/ marker.state # "none" /\ marker.mig # m
  \/ marker.state = "active" /\ target # marker.active
  \/ marker.state = "swapping" /\ target \notin {Absent, marker.pending, marker.active}
  \/ /\ marker.state = "swapping" /\ target = Absent
     /\ apply[<<marker.mig, marker.pending>>] = Absent /\ backup[<<marker.mig, marker.pending>>] = Absent

\* A sync that is tried again and again succeeds, unless the target was changed
\* or is taken, or a directory of an earlier attempt at the same tree is left.
SyncEnds ==
  \A k \in Keys : []<>(want # k) \/ <>[](Taken(k[1]) \/ Littered(k))
=============================================================================
