---------------------- MODULE LogicalReplicationProofs ----------------------
(***************************************************************************)
(* Proofs about LogicalReplication, for any number of slots, writes,       *)
(* mishaps and captures.                                                   *)
(*                                                                         *)
(* A finalization works with the final state it was given while newer ones *)
(* are captured, and its marker remembers an older one.  The argument is   *)
(* that these states are ordered, so that what lies between two equal ones *)
(* is equal to them, and that a target that is not catching up with a      *)
(* newer state stays what the verdict on record says.                      *)
(***************************************************************************)
EXTENDS LogicalReplication, TLAPS

Verdicts == {"cleanup-pending", "finalized"}
\* the steps of a finalization before its verdict is on record, and those after it
Before == {"enable", "catch_up", "disable", "stop", "sequences", "verify", "pending"}
Recovering == {"recover_verify", "recover_disable", "recover_stop", "recover_drop", "recover_done"}
After == {"detach", "drop", "done", "verify_again"} \cup Recovering

\* Which primitive is at work in which phase, and what exists by then.
PlanInv ==
  /\ jobS.op = "prepare" => phase = "prepare" /\ mS # None /\ art # None /\ mS.schema = art
  /\ jobS.op = "finalize" => phase \in {"finalize", "clean"} /\ mS # None
  /\ jobS.op = "clean" => phase = "clean" /\ mS # None
  /\ jobT.op = "restore" => phase = "restore"
  /\ jobT.op = "start" => phase = "start" /\ mS # None /\ mT # None
  /\ jobT.op = "finalize" => phase = "finalize" /\ mT # None /\ jobT.fin # None
  /\ phase \in {"restore", "start", "finalize"} => art # None
  /\ final # None \/ verified # None => phase \in {"finalize", "clean"} /\ mS # None
  /\ mT # None /\ (mT.st \in Verdicts \/ mT.final # None) => phase \in {"finalize", "clean"}
  /\ mT # None /\ mT.st \in Verdicts => mT.final # None

\* The subscription: what is left of it, and how far its tables are.
SubInv ==
  /\ ~sub.made => sub = NoSub
  /\ phase \in {"prepare", "restore"} => ~sub.made
  /\ jobT.op = "start" /\ jobT.at \in {"slot", "create", "commit"} => ~sub.made
  /\ jobT.op = "start" /\ jobT.at = "replicating" => sub.ready
  /\ phase = "finalize" /\ sub.made => sub.ready
  /\ jobT.op = "finalize" /\ jobT.at \in Before => sub.made
  /\ sub.ready => tgt.rows >= recv

\* A final state was the state of the source at a position it has reached.
CapturedIn(f, l, s, v) ==
  /\ f.at \in 1..Len(l) /\ f.schema = v /\ f.man.schema <= s /\ f.man.foreign = FALSE
  /\ f.man.seen = Entries(l, "seen", f.at) /\ f.man.seq = Entries(l, "sequence", f.at)
Captured(f) == CapturedIn(f, log, schema, mS.schema)
Positioned(f) == f.at <= f.lsn /\ f.lsn <= LSN

\* f was captured before g, as far as a digest tells.
NotAfter(a, b) == a.schema <= b.schema /\ a.seen \subseteq b.seen /\ a.seq \subseteq b.seq /\ a.foreign = b.foreign
Older(f, g) == f.schema = g.schema /\ f.lsn <= g.lsn /\ NotAfter(f.man, g.man)

FinalInv ==
  /\ \A f \in {final, verified} : f # None => Captured(f) /\ Positioned(f)
  /\ jobT.op = "finalize" => Captured(jobT.fin) /\ Positioned(jobT.fin)
  /\ jobS.op = "finalize" /\ jobS.at \in {"lsn", "artifact"} => Captured(jobS.fin)
  /\ jobS.op = "finalize" /\ jobS.at = "artifact" => Positioned(jobS.fin)
  /\ tgt.seq \subseteq Entries(log, "sequence", LSN)

\* The order in which final states were captured.
OrderInv ==
  /\ mT # None /\ mT.final # None => final # None /\ Older(mT.final, final)
  /\ jobT.op = "finalize" => final # None /\ jobT.fin.at <= final.at /\ Older(jobT.fin, final)
  /\ jobT.op = "finalize" /\ mT.final # None => Older(mT.final, jobT.fin)
  /\ verified # None => final # None /\ verified.at <= final.at
  /\ verified # None /\ jobT.op = "finalize" => verified.at <= jobT.fin.at
  /\ final # None /\ jobS.op = "finalize" /\ jobS.at \in {"lsn", "artifact"} =>
       final.at <= jobS.fin.at /\ NotAfter(final.man, jobS.fin.man)
  /\ final # None /\ jobS.op = "finalize" /\ jobS.at = "artifact" => Older(final, jobS.fin)

\* The target is what a final state says and stays so: nothing applies changes to it.
Kept(f) ==
  /\ ~worker /\ ~sub.enabled /\ tgt.rows >= f.lsn
  /\ ~tgt.foreign => TargetManifest = f.man

\* What a finalization has achieved at each of its steps.
StepInv ==
  jobT.op = "finalize" =>
    /\ jobT.at \in Before => ~(mT.st \in Verdicts /\ mT.final = FinalDigest(jobT.fin))
    /\ jobT.at \in {"disable", "stop", "sequences", "verify"} => tgt.rows >= jobT.fin.lsn
    /\ jobT.at \in {"stop", "sequences", "verify"} => ~sub.enabled
    /\ jobT.at \in {"sequences", "verify"} => ~worker
    /\ jobT.at \in {"pending"} \cup After => Kept(jobT.fin)
    /\ jobT.at \in After => mT.final = FinalDigest(jobT.fin)
    /\ jobT.at \in {"detach", "drop", "done"} \cup Recovering => mT.st = "cleanup-pending"
    /\ jobT.at = "verify_again" => mT.st = "finalized"

\* A verdict about the last final state still describes the target.
VerdictInv ==
  mT # None /\ mT.st \in Verdicts /\ mT.final = FinalDigest(final) => Kept(mT.final)

VerifiedInv ==
  verified # None /\ ~tgt.foreign => tgt.rows >= verified.at /\ verified.man.seq \subseteq tgt.seq

DriftInv == said = "drifted" => tgt.foreign /\ phase \in {"finalize", "clean"}

-----------------------------------------------------------------------------
(* What the manifests see *)

\* The longer the prefix, the more entries.
LEMMA EntriesGrow ==
  ASSUME NEW p \in Nat, NEW q \in Nat, p <= q, NEW kind, NEW l
  PROVE  /\ Entries(l, kind, p) \in SUBSET Nat /\ Entries(l, kind, p) \subseteq 1..q
         /\ Entries(l, kind, p) \subseteq Entries(l, kind, q)
BY DEF Entries

\* What is committed later does not change the entries of a prefix.
LEMMA EntriesStay ==
  ASSUME NEW l \in Seq(Kinds), NEW p \in 0..Len(l), NEW kind, NEW e \in Kinds
  PROVE  Entries(Append(l, e), kind, p) = Entries(l, kind, p)
<1>1. \A i \in 1..p : Append(l, e)[i] = l[i]
  OBVIOUS
<1>2. {i \in 1..p : Append(l, e)[i] = kind} = {i \in 1..p : l[i] = kind}
  BY Zenon, <1>1
<1> QED
  BY Zenon, <1>2 DEF Entries

-----------------------------------------------------------------------------
(* The records: what a changed field leaves alone *)

LEMMA ContentsRecord ==
  ASSUME NEW c \in Contents
  PROVE  /\ c.schema \in 0..2 /\ c.rows \in Nat /\ c.seq \in SUBSET Nat /\ c.foreign \in BOOLEAN
         /\ \A n \in Nat : LET d == [c EXCEPT !.rows = n] IN
              d \in Contents /\ d.rows = n /\ d.schema = c.schema /\ d.seq = c.seq /\ d.foreign = c.foreign
         /\ \A n \in SUBSET Nat : LET d == [c EXCEPT !.seq = n] IN
              d \in Contents /\ d.rows = c.rows /\ d.schema = c.schema /\ d.seq = n /\ d.foreign = c.foreign
         /\ \A s \in 0..2 : LET d == [c EXCEPT !.schema = s] IN
              d \in Contents /\ d.rows = c.rows /\ d.schema = s /\ d.seq = c.seq /\ d.foreign = c.foreign
         /\ LET d == [c EXCEPT !.foreign = TRUE] IN
              d \in Contents /\ d.rows = c.rows /\ d.schema = c.schema /\ d.seq = c.seq /\ d.foreign
BY Zenon DEF Contents

\* The numbers and the target of a well-typed state.
LEMMA TypeFacts ==
  ASSUME TypeOK
  PROVE  LSN \in Nat /\ LSN >= 1 /\ recv \in Nat /\ tgt \in Contents /\ tgt.rows <= LSN
<1>1. LSN \in 1..MaxWrites + 1 /\ recv \in 0..LSN /\ tgt \in Contents /\ tgt.rows <= LSN
  BY Zenon DEF TypeOK
<1>2. LSN \in Nat /\ LSN >= 1
  BY <1>1, LogicalReplicationAssumption
<1>3. recv \in Nat
  BY <1>1, <1>2
<1> QED
  BY Zenon, <1>1, <1>2, <1>3

LEMMA EmptyRecord ==
  /\ EmptyTarget \in Contents /\ EmptyTarget.rows = 0 /\ EmptyTarget.seq = {} /\ EmptyTarget.schema = 0
  /\ NoSub \in Subscription /\ ~NoSub.made /\ ~NoSub.enabled /\ ~NoSub.slot /\ ~NoSub.ready
  /\ NewSub \in Subscription /\ NewSub.made /\ NewSub.slot /\ ~NewSub.ready
  /\ Idle.op = "idle"
BY DEF EmptyTarget, Contents, NoSub, NewSub, Subscription, Idle

LEMMA SubscriptionRecord ==
  ASSUME NEW s \in Subscription, NEW b \in BOOLEAN
  PROVE  /\ s.made \in BOOLEAN /\ s.enabled \in BOOLEAN /\ s.slot \in BOOLEAN /\ s.ready \in BOOLEAN
         /\ LET r == [s EXCEPT !.enabled = b] IN
              r \in Subscription /\ r.made = s.made /\ r.enabled = b /\ r.slot = s.slot /\ r.ready = s.ready
         /\ LET r == [s EXCEPT !.slot = b] IN
              r \in Subscription /\ r.made = s.made /\ r.enabled = s.enabled /\ r.slot = b /\ r.ready = s.ready
         /\ LET r == [s EXCEPT !.ready = b] IN
              r \in Subscription /\ r.made = s.made /\ r.enabled = s.enabled /\ r.slot = s.slot /\ r.ready = b
         /\ LET r == [s EXCEPT !.own = ~@] IN
              r \in Subscription /\ r.made = s.made /\ r.enabled = s.enabled /\ r.slot = s.slot /\ r.ready = s.ready
BY Zenon DEF Subscription

LEMMA NotNone ==
  None \notin SourceMarker /\ None \notin TargetMarker /\ None \notin FinalState /\ None \notin Versions
BY Zenon, LogicalReplicationAssumption

LEMMA SourceMarkerRecord ==
  ASSUME NEW m \in SourceMarker
  PROVE  m.schema \in Versions /\ m # None
BY Zenon, NotNone DEF SourceMarker

LEMMA MarkSource ==
  ASSUME NEW m \in SourceMarker, NEW st \in {"final-state-captured", "source-cleaned"}
  PROVE  [m EXCEPT !.st = st] \in SourceMarker /\ [m EXCEPT !.st = st].schema = m.schema
BY Zenon DEF SourceMarker

LEMMA NewSourceMarker ==
  ASSUME NEW s \in Versions, NEW p \in 0..2, NEW st \in {"preparing", "publication-ready"}
  PROVE  [st |-> st, schema |-> s, pub |-> p] \in SourceMarker
BY Zenon DEF SourceMarker

TargetStates == {"schema-restored", "subscription-created", "replicating", "cleanup-pending", "finalized", "cleaned"}

LEMMA TargetMarkerRecord ==
  ASSUME NEW m \in TargetMarker
  PROVE  m # None /\ m.schema \in Versions /\ m.st \in TargetStates /\ m.final \in FinalState \cup {None}
BY Zenon, NotNone DEF TargetMarker, TargetStates

LEMMA MarkState ==
  ASSUME NEW m \in TargetMarker, NEW st \in TargetStates
  PROVE  LET n == [m EXCEPT !.st = st] IN n \in TargetMarker /\ n.st = st /\ n.final = m.final /\ n.schema = m.schema
BY Zenon DEF TargetMarker, TargetStates

LEMMA MarkDefinition ==
  ASSUME NEW m \in TargetMarker, NEW p \in 0..2
  PROVE  LET n == [m EXCEPT !.st = "subscription-created", !.pub = p, !.sub = TRUE] IN
           n \in TargetMarker /\ n.st = "subscription-created" /\ n.final = m.final /\ n.schema = m.schema
BY Zenon DEF TargetMarker, TargetStates

LEMMA MarkPending ==
  ASSUME NEW m \in TargetMarker, NEW f \in FinalState
  PROVE  LET n == [m EXCEPT !.st = "cleanup-pending", !.final = f] IN
           n \in TargetMarker /\ n.st = "cleanup-pending" /\ n.final = f /\ n.schema = m.schema
BY Zenon DEF TargetMarker, TargetStates

LEMMA FinalRecord ==
  ASSUME NEW f \in FinalState
  PROVE  /\ f # None /\ f.schema \in Versions /\ f.man \in Manifests /\ f.lsn \in Nat /\ f.at \in Nat
         /\ f.man.schema \in 0..2 /\ f.man.seen \in SUBSET Nat /\ f.man.seq \in SUBSET Nat /\ f.man.foreign \in BOOLEAN
         /\ FinalDigest(f) \in FinalState /\ FinalDigest(f) # None
         /\ FinalDigest(f).schema = f.schema /\ FinalDigest(f).man = f.man /\ FinalDigest(f).lsn = f.lsn
<1>1. f # None
  BY Zenon, LogicalReplicationAssumption
<1>2. [f EXCEPT !.at = 0] \in FinalState
  BY Zenon DEF FinalState
<1> QED
  BY Zenon, <1>1, <1>2, LogicalReplicationAssumption DEF FinalState, Manifests, FinalDigest

\* Two final states with the same schema, manifest and position have the same digest.
LEMMA DigestEqual ==
  ASSUME NEW f \in FinalState, NEW g \in FinalState, f.schema = g.schema, f.man = g.man, f.lsn = g.lsn
  PROVE  FinalDigest(f) = FinalDigest(g)
<1>1. f # None /\ g # None
  BY Zenon, LogicalReplicationAssumption
<1>2. [f EXCEPT !.at = 0] = [g EXCEPT !.at = 0]
  BY Zenon DEF FinalState
<1> QED
  BY Zenon, <1>1, <1>2 DEF FinalDigest

LEMMA ManifestEqual ==
  ASSUME NEW a \in Manifests, NEW b \in Manifests, a.schema = b.schema, a.seen = b.seen, a.seq = b.seq,
         a.foreign = b.foreign
  PROVE  a = b
BY DEF Manifests

Steps == {"restore", "start", "finalize"}

\* The primitive at work on the target: its record, and what a step leaves of it.
LEMMA TargetJobRecord ==
  ASSUME TypeOK
  PROVE  /\ jobT = Idle \/ jobT.op \in Steps
         /\ \A op \in Steps : jobT.op = op =>
              /\ jobT # Idle /\ jobT.at \in TargetSteps(op) /\ jobT.fin \in FinalState \cup {None}
              /\ jobT.row \in Subscription /\ jobT.lsn \in Nat
              /\ \A at \in TargetSteps(op) : LET j == [jobT EXCEPT !.at = at] IN
                   j \in TargetJob(op) /\ j.op = op /\ j.at = at /\ j.fin = jobT.fin /\ j.row = jobT.row
<1>1. jobT \in TargetJob("restore") \/ jobT \in TargetJob("start") \/ jobT \in TargetJob("finalize") \/ jobT = Idle
  BY Zenon DEF TypeOK
<1>2. ASSUME NEW op \in Steps, NEW j \in TargetJob(op)
      PROVE  /\ j.op = op /\ j # Idle /\ j.at \in TargetSteps(op) /\ j.fin \in FinalState \cup {None}
             /\ j.row \in Subscription /\ j.lsn \in Nat
             /\ \A at \in TargetSteps(op) : LET k == [j EXCEPT !.at = at] IN
                  k \in TargetJob(op) /\ k.op = op /\ k.at = at /\ k.fin = j.fin /\ k.row = j.row
  BY Zenon, EmptyRecord DEF TargetJob, Steps
<1> QED
  BY <1>1, <1>2, EmptyRecord DEF Steps

LEMMA PollRecord ==
  ASSUME TypeOK, jobT.op = "start", NEW n \in Nat
  PROVE  LET j == [jobT EXCEPT !.at = "poll", !.lsn = n] IN
           j \in TargetJob("start") /\ j.op = "start" /\ j.at = "poll"
<1>1. jobT \in TargetJob("start")
  BY Zenon, EmptyRecord DEF TypeOK, TargetJob
<1> QED
  BY Zenon, <1>1 DEF TargetJob, TargetSteps

\* What is inspected is a manifest.
LEMMA ManifestTypes ==
  ASSUME TypeOK
  PROVE  /\ SourceManifest \in Manifests
         /\ SourceManifest.schema = schema /\ SourceManifest.foreign = FALSE
         /\ SourceManifest.seen = Entries(log, "seen", LSN) /\ SourceManifest.seq = Entries(log, "sequence", LSN)
         /\ TargetManifest \in Manifests
         /\ TargetManifest.schema = tgt.schema /\ TargetManifest.foreign = tgt.foreign
         /\ TargetManifest.seen = Entries(log, "seen", tgt.rows) /\ TargetManifest.seq = tgt.seq
<1>1. LSN \in Nat /\ schema \in 0..2 /\ tgt \in Contents
  BY DEF TypeOK, Versions
<1>2. /\ tgt.rows \in Nat /\ tgt.schema \in 0..2 /\ tgt.seq \in SUBSET Nat /\ tgt.foreign \in BOOLEAN
  BY Zenon, <1>1, ContentsRecord
<1>3. \A p \in {LSN, tgt.rows} : Entries(log, "seen", p) \in SUBSET Nat /\ Entries(log, "sequence", p) \in SUBSET Nat
  BY <1>1, <1>2, EntriesGrow
<1> QED
  BY Zenon, <1>1, <1>2, <1>3 DEF SourceManifest, TargetManifest, Manifest, Manifests

LEMMA GoesOnTarget ==
  ASSUME TypeOK, NEW op \in Steps, NEW at \in TargetSteps(op), jobT.op = op, GoesOnT(at)
  PROVE  /\ jobT' \in TargetJob(op) /\ jobT'.op = op /\ jobT'.at = at
         /\ jobT'.fin = jobT.fin /\ jobT'.row = jobT.row
BY Zenon, TargetJobRecord DEF GoesOnT

LEMMA BeginsTarget ==
  ASSUME TypeOK, NEW op \in Steps, NEW at \in TargetSteps(op), BeginsT(op, at)
  PROVE  /\ jobT = Idle /\ jobT' \in TargetJob(op) /\ jobT'.op = op /\ jobT'.at = at
         /\ jobT'.fin = final /\ jobT'.row = sub
BY Zenon DEF BeginsT, TargetJob, TypeOK

LEMMA FinalStateType ==
  ASSUME NEW s \in Versions, NEW m \in Manifests, NEW n \in Nat
  PROVE  [schema |-> s, man |-> m, lsn |-> 0, at |-> n] \in FinalState
BY Zenon DEF FinalState

\* The primitive at work on the source.
LEMMA SourceJobRecord ==
  ASSUME TypeOK
  PROVE  /\ jobS = Idle \/ jobS.op \in {"prepare", "finalize", "clean"}
         /\ jobS.op = "prepare" => jobS # Idle /\ jobS.at \in {"create", "ready"}
         /\ jobS.op = "clean" => jobS # Idle /\ jobS.at \in {"slot", "publication", "mark"}
         /\ jobS.op = "finalize" => jobS # Idle /\ jobS.at \in {"inspect", "lsn", "artifact"}
         /\ jobS.op = "finalize" /\ jobS.at \in {"lsn", "artifact"} => jobS.fin \in FinalState
         /\ jobS.op = "prepare" => LET j == [jobS EXCEPT !.at = "ready"] IN
              j \in SourceJob /\ j.op = "prepare" /\ j.at = "ready"
         /\ jobS.op = "clean" => \A at \in {"publication", "mark"} : LET j == [jobS EXCEPT !.at = at] IN
              j \in SourceJob /\ j.op = "clean" /\ j.at = at
         /\ jobS.op = "finalize" /\ jobS.at = "lsn" =>
              LET j == [jobS EXCEPT !.at = "artifact", !.fin.lsn = LSN] IN
              /\ j \in SourceJob /\ j.op = "finalize" /\ j.at = "artifact"
              /\ j.fin = [jobS.fin EXCEPT !.lsn = LSN]
<1>0. LSN \in Nat
  BY DEF TypeOK
<1>1. jobS \in SourceJob \cup {Idle}
  BY Zenon DEF TypeOK
<1> USE <1>0, <1>1, EmptyRecord DEF SourceJob
<1>2. jobS.op = "finalize" /\ jobS.at \in {"lsn", "artifact"} =>
        jobS \in [op: {"finalize"}, at: {"lsn", "artifact"}, fin: FinalState]
  BY Zenon
<1>3. \A f \in FinalState : [f EXCEPT !.lsn = LSN] \in FinalState
  BY Zenon DEF FinalState
<1>4. CASE jobS.op = "finalize" /\ jobS.at = "lsn"
  BY Zenon, <1>2, <1>3, <1>4
<1>5. CASE ~(jobS.op = "finalize" /\ jobS.at = "lsn")
  BY Zenon, <1>2, <1>5
<1> QED
  BY Zenon, <1>4, <1>5

-----------------------------------------------------------------------------
(* Types *)

IInv ==
  /\ TypeOK /\ ObjectsOwned /\ PlanInv /\ SubInv /\ FinalInv
  /\ OrderInv /\ StepInv /\ VerdictInv /\ VerifiedInv /\ DriftInv

SourceJobType == jobS \in SourceJob \cup {Idle}
TargetJobType == jobT \in TargetJob("restore") \cup TargetJob("start") \cup TargetJob("finalize") \cup {Idle}

LEMMA TargetJobTyped ==
  ASSUME TypeOK, TargetPrimitives
  PROVE  TargetJobType'
<1> USE GoesOnTarget, BeginsTarget DEF TargetJobType, OnTarget, Steps, TargetSteps, EndsT, Succeeds, Refuses, Verifies
<1>1. CASE ResetTarget
  BY Zenon, <1>1 DEF ResetTarget, TypeOK
<1>2. CASE RestoreSchema
  BY Zenon, <1>2 DEF RestoreSchema
<1>3. CASE RestoreLoad
  BY Zenon, <1>3 DEF RestoreLoad
<1>4. CASE RestoreMark
  BY Zenon, <1>4 DEF RestoreMark
<1>5. CASE StartSubscription
  BY Zenon, <1>5 DEF StartSubscription
<1>6. CASE StartSlot
  BY Zenon, <1>6 DEF StartSlot
<1>7. CASE StartCreate
  BY Zenon, <1>7 DEF StartCreate
<1>8. CASE StartCommit
  BY Zenon, <1>8 DEF StartCommit
<1>9. CASE StartMark
  BY Zenon, <1>9 DEF StartMark
<1>10. CASE StartDefinition
  BY Zenon, <1>10 DEF StartDefinition
<1>0. LSN \in Nat
  BY DEF TypeOK
<1>11. CASE WaitReads
  BY Zenon, <1>11, PollRecord, <1>0 DEF WaitReads
<1>12. CASE WaitApply
  BY Zenon, <1>12 DEF WaitApply
<1>13. CASE StartReplicating
  BY Zenon, <1>13 DEF StartReplicating
<1>14. CASE GiveUp
  BY Zenon, <1>14 DEF GiveUp
<1>15. CASE FinalizeTarget
  BY Zenon, <1>15 DEF FinalizeTarget, FinalizeFrom
<1>16. CASE FinalizeEnable
  BY Zenon, <1>16 DEF FinalizeEnable
<1>17. CASE WaitFinalLSN
  BY Zenon, <1>17 DEF WaitFinalLSN
<1>18. CASE FinalizeDisable
  BY Zenon, <1>18 DEF FinalizeDisable
<1>19. CASE FinalizeStop
  BY Zenon, <1>19 DEF FinalizeStop
<1>20. CASE FinalizeSequences
  BY Zenon, <1>20 DEF FinalizeSequences
<1>21. CASE FinalizeVerify
  BY Zenon, <1>21 DEF FinalizeVerify
<1>22. CASE FinalizePending
  BY Zenon, <1>22 DEF FinalizePending
<1>23. CASE FinalizeDetach
  BY Zenon, <1>23 DEF FinalizeDetach
<1>24. CASE FinalizeDrop
  BY Zenon, <1>24 DEF FinalizeDrop
<1>25. CASE FinalizeDone
  BY Zenon, <1>25 DEF FinalizeDone
<1>26. CASE RecoverVerify
  BY Zenon, <1>26 DEF RecoverVerify
<1>27. CASE RecoverDisable
  BY Zenon, <1>27 DEF RecoverDisable
<1>28. CASE RecoverDetach
  BY Zenon, <1>28 DEF RecoverDetach
<1>29. CASE RecoverDrop
  BY Zenon, <1>29 DEF RecoverDrop
<1>30. CASE RecoverDone
  BY Zenon, <1>30 DEF RecoverDone
<1>31. CASE VerifyAgain
  BY Zenon, <1>31 DEF VerifyAgain
<1>32. CASE CleanupTarget
  BY Zenon, <1>32 DEF CleanupTarget
<1> QED
  BY ZenonT(40), <1>1, <1>2, <1>3, <1>4, <1>5, <1>6, <1>7, <1>8, <1>9, <1>10, <1>11, <1>12, <1>13, <1>14, <1>15, <1>16, <1>17, <1>18, <1>19, <1>20, <1>21, <1>22, <1>23, <1>24, <1>25, <1>26, <1>27, <1>28, <1>29, <1>30, <1>31, <1>32 DEF TargetPrimitives

LEMMA SourceJobTyped ==
  ASSUME TypeOK, PlanInv, SourcePrimitives
  PROVE  SourceJobType'
<1> USE SourceJobRecord DEF SourceJobType, OnSource, GoesOn, Begins
<1>1. CASE PostgresLogicalSchemaDump
  BY Zenon, <1>1 DEF PostgresLogicalSchemaDump, SourceJob, TypeOK
<1>2. CASE PrepareSource
  BY Zenon, <1>2 DEF PrepareSource, SourceJob, TypeOK
<1>3. CASE PrepareCreate
  BY Zenon, <1>3 DEF PrepareCreate, SourceJob, TypeOK
<1>4. CASE PrepareReady
  BY Zenon, <1>4 DEF PrepareReady, SourceJob, TypeOK
<1>5. CASE FinalizeSource
  BY Zenon, <1>5 DEF FinalizeSource, SourceJob, TypeOK
<1>6. CASE CaptureManifest
  <2>1. mS \in SourceMarker
    BY Zenon, <1>6 DEF CaptureManifest, PlanInv, TypeOK
  <2>2. [schema |-> mS.schema, man |-> SourceManifest, lsn |-> 0, at |-> LSN] \in FinalState
    <3>1. LSN \in Nat
      BY DEF TypeOK
    <3>2. mS.schema \in Versions /\ SourceManifest \in Manifests
      BY Zenon, <2>1, SourceMarkerRecord, ManifestTypes
    <3> QED
      BY Zenon, <3>1, <3>2, FinalStateType
  <2> QED
    BY Zenon, <1>6, <2>2 DEF CaptureManifest, SourceJob
<1>7. CASE CaptureLSN
  BY Zenon, <1>7 DEF CaptureLSN, SourceJob, TypeOK
<1>8. CASE CaptureState
  BY Zenon, <1>8 DEF CaptureState, SourceJob, TypeOK
<1>9. CASE CleanupSource
  BY Zenon, <1>9 DEF CleanupSource, SourceJob, TypeOK
<1>10. CASE CleanupSlot
  BY Zenon, <1>10 DEF CleanupSlot, SourceJob, TypeOK
<1>11. CASE CleanupPublication
  BY Zenon, <1>11 DEF CleanupPublication, SourceJob, TypeOK
<1>12. CASE CleanupMark
  BY Zenon, <1>12 DEF CleanupMark, SourceJob, TypeOK
<1> QED
  BY Zenon, <1>1, <1>2, <1>3, <1>4, <1>5, <1>6, <1>7, <1>8, <1>9, <1>10, <1>11, <1>12 DEF SourcePrimitives

\* The conjuncts of TypeOK, by what changes them together.
SourceType ==
  /\ phase \in {"prepare", "restore", "start", "finalize", "clean"}
  /\ log \in Seq(Kinds) /\ LSN \in 1..MaxWrites + 1
  /\ schema \in Versions /\ pub \in 0..2 /\ slot \in BOOLEAN
  /\ others \in 0..MaxSlots /\ (IF slot THEN 1 ELSE 0) + others <= MaxSlots
  /\ worker \in BOOLEAN /\ (worker => slot)
  /\ mishaps \in 0..MaxMishaps /\ captures \in 0..MaxCaptures
TargetType ==
  /\ tgt \in Contents /\ tgt.rows <= LSN /\ tgt.seq \subseteq 1..LSN
  /\ sub \in Subscription /\ recv \in 0..LSN
RecordType ==
  /\ mS \in SourceMarker \cup {None} /\ mT \in TargetMarker \cup {None}
  /\ art \in Versions \cup {None} /\ final \in FinalState \cup {None}
  /\ final # None => final.at \in 1..final.lsn /\ final.lsn <= LSN
  /\ said \in {"nothing", "ok", "refused", "drifted", "without_ownership", "not_owned"}
  /\ verified \in FinalState \cup {None}

LEMMA TypeParts ==
  TypeOK <=> SourceType /\ TargetType /\ RecordType /\ SourceJobType /\ TargetJobType
BY Zenon DEF TypeOK, SourceType, TargetType, RecordType, SourceJobType, TargetJobType

LEMMA NextPhaseType ==
  ASSUME phase \in {"prepare", "restore", "start", "finalize", "clean"}, Learns
  PROVE  /\ phase' \in {"prepare", "restore", "start", "finalize", "clean"}
         /\ phase' = phase \/ <<phase, phase'>> \in {<<"prepare", "restore">>, <<"restore", "start">>,
                                                   <<"start", "finalize">>, <<"finalize", "clean">>}
<1>1. ASSUME phase # "clean", phase' = NextPhase(phase)
      PROVE  <<phase, phase'>> \in {<<"prepare", "restore">>, <<"restore", "start">>,
                                   <<"start", "finalize">>, <<"finalize", "clean">>}
  <2> DEFINE k == CHOOSE i \in 1..4 : Phases[i] = phase
  <2>1. /\ Phases[1] = "prepare" /\ Phases[2] = "restore" /\ Phases[3] = "start"
        /\ Phases[4] = "finalize" /\ Phases[5] = "clean"
    BY Zenon DEF Phases
  <2>2. \E i \in 1..4 : Phases[i] = phase
    BY <1>1, <2>1
  <2>3. k \in 1..4 /\ Phases[k] = phase
    BY Zenon, <2>2
  <2>4. phase' = Phases[k + 1]
    BY Zenon, <1>1 DEF NextPhase
  <2> HIDE DEF k
  <2>5. k = 1 \/ k = 2 \/ k = 3 \/ k = 4
    BY <2>3
  <2> QED
    BY <2>1, <2>3, <2>4, <2>5
<1> QED
  BY Zenon, <1>1 DEF Learns

LEMMA SourceTyped ==
  ASSUME TypeOK, Next
  PROVE  SourceType'
<1> USE TypeParts, LogicalReplicationAssumption DEF SourceType, LSN, Versions
<1>1. CASE \E kind \in Kinds : Write(kind)
  BY <1>1 DEF Write, source, target, records, history, counts
<1>2. CASE Interference
  <2>1. UNCHANGED <<phase, log, pub, worker, captures>> /\ mishaps' \in 0..MaxMishaps /\ schema' \in Versions
    BY SMTT(30), <1>2 DEF Interference, Mishap
  <2>2. \/ UNCHANGED <<slot, others>>
        \/ slot /\ ~worker /\ slot' = FALSE /\ UNCHANGED others
        \/ FreeSlot /\ others' = others + 1 /\ UNCHANGED slot
    BY Zenon, <1>2 DEF Interference
  <2>3. others' \in 0..MaxSlots /\ ((IF slot THEN 1 ELSE 0) + others <= MaxSlots)'
    BY SMTT(30), <2>2 DEF FreeSlot
  <2>4. slot' \in BOOLEAN /\ (worker' => slot')
    BY Zenon, <2>1, <2>2
  <2> QED
    BY Zenon, <2>1, <2>3, <2>4
<1>3. CASE WorkerStarts
  BY Zenon, <1>3 DEF WorkerStarts, source, target, records, history, counts
<1>4. CASE WorkerStops
  <2>1. mishaps' \in 0..MaxMishaps /\ worker' = FALSE /\ UNCHANGED <<phase, source, captures>>
    BY <1>4 DEF WorkerStops, Mishap
  <2> QED
    BY Zenon, <2>1 DEF source
<1>5. CASE Interrupt
  BY SMTT(30), <1>5 DEF Interrupt, Mishap, source, target, records, history, counts
<1>6. CASE
     \/ Abort \/ FinalizeSource
  BY <1>6 DEF Abort, FinalizeSource, source, target, records, history, counts
<1>7. CASE
     \/ PrepareCreate \/ CleanupPublication
  BY SMTT(30), <1>7 DEF PrepareCreate, CleanupPublication, source, target, records, history, counts
<1>8. CASE
     \/ PrepareReady \/ RestoreSchema \/ RestoreMark \/ StartReplicating \/ FinalizeDone
     \/ RecoverDone \/ VerifyAgain
  <2>1. (phase' = phase \/ Learns) /\ UNCHANGED <<source, worker, counts>>
    BY Zenon, <1>8 DEF PrepareReady, RestoreSchema, RestoreMark, StartReplicating, FinalizeDone,
       RecoverDone, VerifyAgain, GoesOnT, Verifies, Succeeds, Refuses, source, target, records,
       history, counts
  <2> QED
    BY ZenonT(40), <2>1, NextPhaseType DEF source, counts
<1>9. CASE
     \/ StartSlot \/ CleanupSlot
  <2>1. UNCHANGED <<phase, log, schema, pub, others, worker, counts>>
    BY Zenon, <1>9 DEF StartSlot, CleanupSlot, GoesOnT, Refuses, source, target, records, history, counts
  <2>2. slot' = slot \/ (slot' = FALSE /\ ~worker)
    BY Zenon, <1>9 DEF StartSlot, CleanupSlot
  <2>3. ((IF slot THEN 1 ELSE 0) + others <= MaxSlots)'
    BY <2>1, <2>2
  <2>4. slot' \in BOOLEAN /\ (worker' => slot')
    BY Zenon, <2>1, <2>2
  <2> QED
    BY Zenon, <2>1, <2>3, <2>4 DEF counts
<1>10. CASE StartCreate
  <2>1. UNCHANGED <<phase, log, schema, pub, others, worker, counts>>
    BY Zenon, <1>10 DEF StartCreate, GoesOnT, Refuses, source, target, records, history, counts
  <2>2. slot' = slot \/ (slot' = TRUE /\ FreeSlot)
    BY Zenon, <1>10 DEF StartCreate
  <2>3. ((IF slot THEN 1 ELSE 0) + others <= MaxSlots)'
    BY SMTT(30), <2>1, <2>2 DEF FreeSlot
  <2>4. slot' \in BOOLEAN /\ (worker' => slot')
    BY Zenon, <2>1, <2>2
  <2> QED
    BY Zenon, <2>1, <2>3, <2>4 DEF counts
<1>11. CASE
     \/ Copy \/ Apply \/ PostgresLogicalSchemaDump \/ PrepareSource \/ CaptureManifest
     \/ CaptureLSN \/ CaptureState \/ CleanupSource \/ CleanupMark \/ ResetTarget \/ RestoreLoad
  <2>1. UNCHANGED <<phase, source, worker, counts>>
    BY Zenon, <1>11 DEF Copy, Apply, PostgresLogicalSchemaDump, PrepareSource, CaptureManifest,
       CaptureLSN, CaptureState, CleanupSource, CleanupMark, ResetTarget, RestoreLoad, GoesOnT,
       Refuses, source, target, records, history, counts
  <2> QED
    BY Zenon, <2>1 DEF source, counts
<1>12. CASE
     \/ StartSubscription \/ StartCommit \/ StartMark \/ StartDefinition \/ WaitReads
     \/ WaitApply \/ GiveUp \/ FinalizeTarget \/ FinalizeEnable \/ WaitFinalLSN
     \/ FinalizeDisable
  <2>1. UNCHANGED <<phase, source, worker, counts>>
    BY Zenon, <1>12 DEF StartSubscription, StartCommit, StartMark, StartDefinition, WaitReads, WaitApply,
       GiveUp, FinalizeTarget, FinalizeEnable, WaitFinalLSN, FinalizeDisable, GoesOnT, Refuses,
       source, target, records, history, counts
  <2> QED
    BY Zenon, <2>1 DEF source, counts
<1>13. CASE
     \/ FinalizeStop \/ FinalizeSequences \/ FinalizeVerify \/ FinalizePending \/ FinalizeDetach
     \/ FinalizeDrop \/ RecoverVerify \/ RecoverDisable \/ RecoverDetach \/ RecoverDrop
     \/ CleanupTarget
  <2>1. UNCHANGED <<phase, source, worker, counts>>
    BY Zenon, <1>13 DEF FinalizeStop, FinalizeSequences, FinalizeVerify, FinalizePending, FinalizeDetach,
       FinalizeDrop, RecoverVerify, RecoverDisable, RecoverDetach, RecoverDrop, CleanupTarget,
       GoesOnT, Refuses, source, target, records, history, counts
  <2> QED
    BY Zenon, <2>1 DEF source, counts
<1> QED
  BY Zenon, <1>1, <1>2, <1>3, <1>4, <1>5, <1>6, <1>7, <1>8, <1>9, <1>10, <1>11, <1>12, <1>13 DEF Next,
     Environment, SourcePrimitives, TargetPrimitives

LEMMA TargetTyped ==
  ASSUME IInv, Next
  PROVE  TargetType'
<1>0. TargetType /\ LSN \in Nat /\ log \in Seq(Kinds) /\ MaxWrites \in Nat /\ LSN <= MaxWrites + 1
  BY TypeParts, LogicalReplicationAssumption DEF IInv, TypeOK
<1>b. tgt \in Contents /\ tgt.rows \in Nat /\ tgt.seq \in SUBSET Nat /\ sub \in Subscription
  BY Zenon, <1>0, ContentsRecord DEF TargetType
<1> USE <1>0 DEF TargetType
<1>1. CASE \E kind \in Kinds : Write(kind)
  <2>1. LSN' = LSN + 1 /\ UNCHANGED <<tgt, sub, recv>>
    BY <1>1 DEF Write, LSN, target
  <2>2. 1..LSN \subseteq 1..LSN' /\ LSN <= LSN'
    BY <2>1
  <2> QED
    BY <2>1, <2>2, <1>b
<1>2. CASE Interference
  <2>1. /\ UNCHANGED <<LSN, recv>>
        /\ tgt' = tgt \/ tgt' = [tgt EXCEPT !.foreign = TRUE]
        /\ sub' = sub \/ sub' = [sub EXCEPT !.own = ~@]
    BY Zenon, <1>2 DEF Interference, LSN
  <2>2. sub' \in Subscription
    BY Zenon, <2>1 DEF Subscription
  <2>3. tgt' \in Contents /\ tgt'.rows = tgt.rows /\ tgt'.seq = tgt.seq
    BY Zenon, <2>1, <1>b DEF Contents
  <2> QED
    BY Zenon, <2>1, <2>2, <2>3
<1>3. CASE Copy
  <2>1. UNCHANGED <<LSN, recv>> /\ tgt' = [tgt EXCEPT !.rows = LSN] /\ sub' = [sub EXCEPT !.ready = TRUE]
    BY Zenon, <1>3 DEF Copy, LSN, source
  <2>2. sub' \in Subscription
    BY Zenon, <2>1 DEF Subscription
  <2>3. tgt' \in Contents /\ tgt'.rows = LSN /\ tgt'.seq = tgt.seq
    BY Zenon, <2>1, <1>b DEF Contents
  <2> QED
    BY <2>1, <2>2, <2>3
<1>4. CASE Apply
  <2>1. /\ UNCHANGED <<LSN, sub>> /\ recv' = recv + 1 /\ recv' <= LSN
        /\ tgt' = tgt \/ tgt' = [tgt EXCEPT !.rows = recv']
    BY <1>4 DEF Apply, LSN, source
  <2>2. tgt' \in Contents /\ tgt'.rows <= LSN /\ tgt'.seq = tgt.seq
    BY <2>1, <1>b DEF Contents
  <2> QED
    BY <2>1, <2>2
<1>5. CASE ResetTarget
  <2>1. UNCHANGED <<LSN, sub, recv>> /\ tgt' = EmptyTarget
    BY Zenon, <1>5 DEF ResetTarget, LSN, source
  <2> QED
    BY <2>1, EmptyRecord
<1>6. CASE RestoreLoad
  <2>1. UNCHANGED <<LSN, sub, recv>> /\ tgt' = [tgt EXCEPT !.schema = art] /\ art \in 0..2
    BY <1>6 DEF RestoreLoad, OnTarget, IInv, PlanInv, TypeOK, Versions, LSN, source
  <2>2. tgt' \in Contents /\ tgt'.rows = tgt.rows /\ tgt'.seq = tgt.seq
    BY ZenonT(40), <2>1, <1>b DEF Contents
  <2> QED
    BY Zenon, <2>1, <2>2
<1>7. CASE StartCreate
  <2>1. UNCHANGED <<LSN, tgt, sub>> /\ (recv' = recv \/ recv' = LSN)
    BY Zenon, <1>7 DEF StartCreate, LSN
  <2> QED
    BY <2>1
<1>8. CASE
     \/ StartCommit \/ FinalizeDrop \/ RecoverDrop
  <2>1. UNCHANGED <<LSN, tgt, recv>> /\ (sub' = NewSub \/ sub' = NoSub)
    BY Zenon, <1>8 DEF StartCommit, FinalizeDrop, RecoverDrop, LSN, source
  <2> QED
    BY Zenon, <2>1, EmptyRecord
<1>9. CASE
     \/ FinalizeEnable \/ FinalizeDisable \/ FinalizeDetach \/ RecoverDisable \/ RecoverDetach
  <2>1. /\ UNCHANGED <<LSN, tgt, recv>>
        /\ \/ sub' = sub \/ sub' = [sub EXCEPT !.enabled = TRUE]
           \/ sub' = [sub EXCEPT !.enabled = FALSE] \/ sub' = [sub EXCEPT !.slot = FALSE]
    BY Zenon, <1>9 DEF FinalizeEnable, FinalizeDisable, FinalizeDetach, RecoverDisable, RecoverDetach,
       LSN, source
  <2>2. sub' \in Subscription
    BY Zenon, <2>1 DEF Subscription
  <2> QED
    BY Zenon, <2>1, <2>2
<1>10. CASE FinalizeSequences
  <2>1. UNCHANGED <<LSN, sub, recv>> /\ tgt' = [tgt EXCEPT !.seq = jobT.fin.man.seq]
    BY Zenon, <1>10 DEF FinalizeSequences, LSN, source
  <2>2. jobT.fin \in FinalState
    BY Zenon, <1>10, TargetJobRecord DEF FinalizeSequences, OnTarget, IInv, PlanInv, Steps
  <2>3. jobT.fin.at \in 1..LSN /\ jobT.fin.man.seq = Entries(log, "sequence", jobT.fin.at)
    BY Zenon, <1>10 DEF FinalizeSequences, OnTarget, IInv, FinalInv, Captured, CapturedIn, LSN
  <2>4. jobT.fin.man.seq \in SUBSET Nat /\ jobT.fin.man.seq \subseteq 1..LSN
    BY <2>2, <2>3, FinalRecord, EntriesGrow
  <2>5. tgt' \in Contents /\ tgt'.rows = tgt.rows /\ tgt'.seq = jobT.fin.man.seq
    BY Zenon, <2>1, <2>4, <1>b DEF Contents
  <2> QED
    BY Zenon, <2>1, <2>4, <2>5
<1>11. CASE
     \/ WorkerStarts \/ WorkerStops \/ Interrupt \/ Abort \/ PostgresLogicalSchemaDump
     \/ PrepareSource \/ PrepareCreate \/ PrepareReady \/ FinalizeSource \/ CaptureManifest
     \/ CaptureLSN \/ CaptureState
  <2>1. UNCHANGED <<LSN, tgt, sub, recv>>
    BY Zenon, <1>11 DEF WorkerStarts, WorkerStops, Interrupt, Abort, PostgresLogicalSchemaDump,
       PrepareSource, PrepareCreate, PrepareReady, FinalizeSource, CaptureManifest, CaptureLSN,
       CaptureState, LSN, source, target, records, history, counts
  <2> QED
    BY Zenon, <2>1
<1>12. CASE
     \/ CleanupSource \/ CleanupSlot \/ CleanupPublication \/ CleanupMark \/ RestoreSchema
     \/ RestoreMark \/ StartSubscription \/ StartSlot \/ StartMark \/ StartDefinition
     \/ WaitReads \/ WaitApply
  <2>1. UNCHANGED <<LSN, tgt, sub, recv>>
    BY Zenon, <1>12 DEF CleanupSource, CleanupSlot, CleanupPublication, CleanupMark, RestoreSchema,
       RestoreMark, StartSubscription, StartSlot, StartMark, StartDefinition, WaitReads,
       WaitApply, LSN, source, target, records, history, counts
  <2> QED
    BY Zenon, <2>1
<1>13. CASE
     \/ StartReplicating \/ GiveUp \/ FinalizeTarget \/ WaitFinalLSN \/ FinalizeStop
     \/ FinalizeVerify \/ FinalizePending \/ FinalizeDone \/ RecoverVerify \/ RecoverDone
     \/ VerifyAgain \/ CleanupTarget
  <2>1. UNCHANGED <<LSN, tgt, sub, recv>>
    BY Zenon, <1>13 DEF StartReplicating, GiveUp, FinalizeTarget, WaitFinalLSN, FinalizeStop,
       FinalizeVerify, FinalizePending, FinalizeDone, RecoverVerify, RecoverDone, VerifyAgain,
       CleanupTarget, LSN, source, target, records, history, counts
  <2> QED
    BY Zenon, <2>1
<1> QED
  BY ZenonT(40), <1>1, <1>2, <1>3, <1>4, <1>5, <1>6, <1>7, <1>8, <1>9, <1>10, <1>11, <1>12, <1>13 DEF Next,
     Environment, SourcePrimitives, TargetPrimitives

LEMMA RecordTyped ==
  ASSUME IInv, Next
  PROVE  RecordType'
<1>0. TypeOK /\ RecordType /\ PlanInv /\ LSN \in Nat /\ pub \in 0..2
  BY TypeParts DEF IInv, TypeOK
<1>a. mS # None => mS \in SourceMarker
  BY Zenon, <1>0 DEF RecordType
<1>b. mT # None => mT \in TargetMarker
  BY Zenon, <1>0 DEF RecordType
<1> USE <1>0 DEF RecordType
<1>1. CASE \E kind \in Kinds : Write(kind)
  <2>1. LSN' = LSN + 1 /\ UNCHANGED <<records, history>>
    BY <1>1 DEF Write, LSN
  <2>2. final # None => final.lsn \in Nat
    BY Zenon, FinalRecord
  <2> QED
    BY <2>1, <2>2 DEF records, history
<1>2. CASE
     \/ Interrupt \/ CleanupTarget \/ WaitApply \/ GiveUp \/ RestoreSchema \/ StartSubscription
     \/ StartSlot \/ StartCreate \/ FinalizeTarget \/ WaitFinalLSN \/ FinalizeVerify
     \/ RecoverVerify
  <2>1. UNCHANGED <<LSN, mS, art, final, verified>>
    BY Zenon, <1>2 DEF Interrupt, CleanupTarget, WaitApply, GiveUp, RestoreSchema, StartSubscription,
       StartSlot, StartCreate, FinalizeTarget, WaitFinalLSN, FinalizeVerify, RecoverVerify, LSN,
       source, records, history
  <2>2. said' \in {"nothing", "ok", "refused", "drifted", "without_ownership", "not_owned"}
    BY Zenon, <1>2 DEF Interrupt, CleanupTarget, WaitApply, GiveUp, RestoreSchema, StartSubscription,
       StartSlot, StartCreate, FinalizeTarget, WaitFinalLSN, FinalizeVerify, RecoverVerify, EndsT,
       Refuses, Succeeds, GoesOnT, BeginsT
  <2>3. mT' = mT \/ (mT # None /\ mT' = [mT EXCEPT !.st = "cleaned"])
    BY Zenon, <1>2 DEF Interrupt, CleanupTarget, WaitApply, GiveUp, RestoreSchema, StartSubscription,
       StartSlot, StartCreate, FinalizeTarget, WaitFinalLSN, FinalizeVerify, RecoverVerify,
       records
  <2>4. mT' \in TargetMarker \cup {None}
    BY ZenonT(40), <2>3, <1>b DEF TargetMarker
  <2> QED
    BY Zenon, <2>1, <2>2, <2>4
<1>3. CASE PostgresLogicalSchemaDump
  <2>1. UNCHANGED <<LSN, mS, mT, final, history>> /\ art' \in Versions
    BY Zenon, <1>3 DEF PostgresLogicalSchemaDump, LSN, source, TypeOK
  <2> QED
    BY Zenon, <2>1 DEF history
<1>4. CASE
     \/ PrepareSource \/ PrepareReady \/ CleanupMark \/ CaptureState
  <2>1. UNCHANGED <<LSN, mT, art, history>>
    BY Zenon, <1>4 DEF PrepareSource, PrepareReady, CleanupMark, CaptureState, LSN, source
  <2>2. mS' \in SourceMarker \cup {None}
    <3>1. CASE PrepareSource
      <4>1. mS' = mS \/ (art \in Versions /\ mS' = [st |-> "preparing", schema |-> art, pub |-> 0])
        BY Zenon, <3>1 DEF PrepareSource, TypeOK
      <4> QED
        BY <4>1 DEF SourceMarker
    <3>2. CASE PrepareReady
      <4>1. mS' = mS \/ (art \in Versions /\ mS' = [st |-> "publication-ready", schema |-> art, pub |-> pub])
        BY Zenon, <3>2 DEF PrepareReady, OnSource, PlanInv
      <4> QED
        BY <4>1 DEF SourceMarker
    <3>3. CASE CleanupMark \/ CaptureState
      <4>1. /\ mS \in SourceMarker
            /\ mS' = [mS EXCEPT !.st = "source-cleaned"] \/ mS' = [mS EXCEPT !.st = "final-state-captured"]
        BY Zenon, <3>3, <1>a DEF CleanupMark, CaptureState, OnSource, PlanInv
      <4> QED
        BY Zenon, <4>1 DEF SourceMarker
    <3> QED
      BY Zenon, <1>4, <3>1, <3>2, <3>3
  <2>3. final' = final \/ (CaptureState /\ final' = jobS.fin)
    BY Zenon, <1>4 DEF PrepareSource, PrepareReady, CleanupMark, CaptureState
  <2>4. CaptureState => jobS.fin \in FinalState /\ jobS.fin.at \in 1..jobS.fin.lsn /\ jobS.fin.lsn <= LSN
    <3>1. SUFFICES ASSUME CaptureState
                   PROVE  jobS.fin \in FinalState /\ jobS.fin.at \in 1..jobS.fin.lsn /\ jobS.fin.lsn <= LSN
      BY Zenon
    <3>2. jobS.op = "finalize" /\ jobS.at = "artifact"
      BY Zenon, <3>1 DEF CaptureState, OnSource
    <3>3. jobS.fin \in FinalState
      BY Zenon, <3>2, SourceJobRecord
    <3>4. jobS.fin.at \in 1..LSN /\ jobS.fin.at <= jobS.fin.lsn /\ jobS.fin.lsn <= LSN
      BY Zenon, <3>2 DEF IInv, FinalInv, Captured, CapturedIn, Positioned, LSN
    <3> QED
      BY <3>3, <3>4, FinalRecord
  <2> QED
    BY Zenon, <2>1, <2>2, <2>3, <2>4 DEF history
<1>5. CASE RestoreMark
  <2>1. UNCHANGED <<LSN, mS, art, final, verified>> /\ said' = "ok"
    BY Zenon, <1>5 DEF RestoreMark, LSN, source, Succeeds, EndsT
  <2>2. art \in Versions /\ mT' = [st |-> "schema-restored", schema |-> art, pub |-> 0, sub |-> FALSE, final |-> None]
    BY Zenon, <1>5 DEF RestoreMark, OnTarget, PlanInv
  <2>3. mT' \in TargetMarker
    BY <2>2 DEF TargetMarker
  <2> QED
    BY Zenon, <2>1, <2>3
<1>6. CASE
     \/ StartMark \/ StartDefinition \/ StartReplicating \/ FinalizePending \/ FinalizeDone
     \/ RecoverDone \/ VerifyAgain
  <2>1. UNCHANGED <<LSN, mS, art, final>>
    BY Zenon, <1>6 DEF StartMark, StartDefinition, StartReplicating, FinalizePending, FinalizeDone,
       RecoverDone, VerifyAgain, LSN, source, records
  <2>2. said' \in {"nothing", "ok", "refused", "drifted", "without_ownership", "not_owned"}
    BY Zenon, <1>6 DEF StartMark, StartDefinition, StartReplicating, FinalizePending, FinalizeDone,
       RecoverDone, VerifyAgain, EndsT, Refuses, Succeeds, GoesOnT, BeginsT, Verifies
  <2>3. mT \in TargetMarker
    BY Zenon, <1>6, <1>b DEF StartMark, StartDefinition, StartReplicating, FinalizePending, FinalizeDone,
       RecoverDone, VerifyAgain, OnTarget, PlanInv
  <2>4. jobT.op = "finalize" => jobT.fin \in FinalState
    BY Zenon, TargetJobRecord DEF PlanInv, Steps
  <2>5. verified' = verified \/ (jobT.op = "finalize" /\ verified' = jobT.fin)
    BY Zenon, <1>6 DEF StartMark, StartDefinition, StartReplicating, FinalizePending, FinalizeDone,
       RecoverDone, VerifyAgain, Verifies, OnTarget, history
  <2>6. \/ mT' = mT
        \/ \E st \in {"subscription-created", "replicating", "finalized"} : mT' = [mT EXCEPT !.st = st]
        \/ mT' = [mT EXCEPT !.st = "subscription-created", !.pub = pub, !.sub = TRUE]
        \/ jobT.op = "finalize" /\ mT' = [mT EXCEPT !.st = "cleanup-pending", !.final = FinalDigest(jobT.fin)]
    BY Zenon, <1>6 DEF StartMark, StartDefinition, StartReplicating, FinalizePending, FinalizeDone,
       RecoverDone, VerifyAgain, OnTarget, records
  <2>7. jobT.op = "finalize" => FinalDigest(jobT.fin) \in FinalState
    BY Zenon, <2>4, FinalRecord
  <2>8. mT' \in TargetMarker
    BY Zenon, <2>3, <2>6, <2>7 DEF TargetMarker
  <2> QED
    BY Zenon, <2>1, <2>2, <2>4, <2>5, <2>8
<1>7. CASE
     \/ Interference \/ WorkerStarts \/ WorkerStops \/ Copy \/ Apply \/ Abort \/ PrepareCreate
     \/ FinalizeSource \/ CaptureManifest \/ CaptureLSN \/ CleanupSource \/ CleanupSlot
     \/ CleanupPublication
  <2>1. UNCHANGED <<LSN, records, history>>
    BY Zenon, <1>7 DEF Interference, WorkerStarts, WorkerStops, Copy, Apply, Abort, PrepareCreate,
       FinalizeSource, CaptureManifest, CaptureLSN, CleanupSource, CleanupSlot,
       CleanupPublication, LSN, GoesOnT, source, target, records, history, counts
  <2> QED
    BY Zenon, <2>1 DEF records, history
<1>8. CASE
     \/ ResetTarget \/ RestoreLoad \/ StartCommit \/ WaitReads \/ FinalizeEnable
     \/ FinalizeDisable \/ FinalizeStop \/ FinalizeSequences \/ FinalizeDetach \/ FinalizeDrop
     \/ RecoverDisable \/ RecoverDetach \/ RecoverDrop
  <2>1. UNCHANGED <<LSN, records, history>>
    BY Zenon, <1>8 DEF ResetTarget, RestoreLoad, StartCommit, WaitReads, FinalizeEnable, FinalizeDisable,
       FinalizeStop, FinalizeSequences, FinalizeDetach, FinalizeDrop, RecoverDisable,
       RecoverDetach, RecoverDrop, LSN, GoesOnT, source, target, records, history, counts
  <2> QED
    BY Zenon, <2>1 DEF records, history
<1> QED
  BY Zenon, <1>1, <1>2, <1>3, <1>4, <1>5, <1>6, <1>7, <1>8 DEF Next, Environment, SourcePrimitives,
     TargetPrimitives

LEMMA TypeNext == ASSUME IInv, Next PROVE TypeOK'
<1>1. TypeOK /\ PlanInv
  BY Zenon DEF IInv
<1>2. SourceType' /\ TargetType' /\ RecordType'
  BY Zenon, <1>1, SourceTyped, TargetTyped, RecordTyped
<1>3. SourceJobType' /\ TargetJobType'
  <2>1. CASE SourcePrimitives
    <3>1. jobT' = jobT
      BY Zenon, <2>1 DEF SourcePrimitives, PostgresLogicalSchemaDump, PrepareSource, PrepareCreate, PrepareReady,
         FinalizeSource, CaptureManifest, CaptureLSN, CaptureState, CleanupSource, CleanupSlot,
         CleanupPublication, CleanupMark
    <3> QED
      BY Zenon, <1>1, <2>1, <3>1, SourceJobTyped, TypeParts DEF TargetJobType
  <2>2. CASE TargetPrimitives
    <3>1. jobS' = jobS
      BY Zenon, <2>2 DEF TargetPrimitives, ResetTarget, RestoreSchema, RestoreLoad, RestoreMark, StartSubscription,
         StartSlot, StartCreate, StartCommit, StartMark, StartDefinition, WaitReads, WaitApply,
         StartReplicating, GiveUp, FinalizeTarget, FinalizeEnable, WaitFinalLSN, FinalizeDisable,
         FinalizeStop, FinalizeSequences, FinalizeVerify, FinalizePending, FinalizeDetach, FinalizeDrop,
         FinalizeDone, RecoverVerify, RecoverDisable, RecoverDetach, RecoverDrop, RecoverDone,
         VerifyAgain, CleanupTarget
    <3> QED
      BY Zenon, <1>1, <2>2, <3>1, TargetJobTyped, TypeParts DEF SourceJobType
  <2>3. CASE Environment
    <3>1. jobS' \in {jobS, Idle} /\ jobT' \in {jobT, Idle}
      BY Zenon, <2>3 DEF Environment, Write, Interference, WorkerStarts, WorkerStops, Copy, Apply, Interrupt, EndsT, Abort
    <3> QED
      BY Zenon, <1>1, <3>1, TypeParts DEF SourceJobType, TargetJobType
  <2> QED
    BY Zenon, <2>1, <2>2, <2>3 DEF Next
<1> QED
  BY Zenon, <1>2, <1>3 DEF TypeOK, SourceType, TargetType, RecordType, SourceJobType, TargetJobType

-----------------------------------------------------------------------------
(* The plan and the objects *)

\* The steps of the target's primitives that record nothing.
Quiet ==
  \/ RestoreLoad \/ StartSlot \/ StartCreate \/ StartCommit \/ WaitReads \/ WaitApply \/ GiveUp
  \/ FinalizeEnable \/ WaitFinalLSN \/ FinalizeDisable \/ FinalizeStop \/ FinalizeSequences
  \/ FinalizeVerify \/ FinalizeDetach \/ FinalizeDrop \/ RecoverVerify \/ RecoverDisable
  \/ RecoverDetach \/ RecoverDrop
Proceeds == \E op \in Steps : \E at \in TargetSteps(op) : jobT.op = op /\ GoesOnT(at)

\* A quiet step ends the primitive or goes on with what it was given.
LEMMA QuietStep ==
  ASSUME TypeOK, Quiet
  PROVE  /\ UNCHANGED <<phase, log, schema, pub, others, jobS, mS, mT, art, final, verified>>
         /\ \/ jobT' = Idle
            \/ /\ jobT.op \in Steps /\ jobT'.op = jobT.op /\ jobT'.fin = jobT.fin /\ jobT'.row = jobT.row
<1>1. UNCHANGED <<phase, log, schema, pub, others, jobS, mS, mT, art, final, verified>>
  BY Zenon DEF Quiet, RestoreLoad, StartSlot, StartCreate, StartCommit, WaitReads, WaitApply, GiveUp,
     FinalizeEnable, WaitFinalLSN, FinalizeDisable, FinalizeStop, FinalizeSequences, FinalizeVerify,
     FinalizeDetach, FinalizeDrop, RecoverVerify, RecoverDisable, RecoverDetach, RecoverDrop,
     GoesOnT, Refuses, source, target, records, history, counts
<1>2. Proceeds \/ jobT' = Idle \/ WaitReads
  BY Zenon DEF Quiet, RestoreLoad, StartSlot, StartCreate, StartCommit, WaitApply, GiveUp,
     FinalizeEnable, WaitFinalLSN, FinalizeDisable, FinalizeStop, FinalizeSequences, FinalizeVerify,
     FinalizeDetach, FinalizeDrop, RecoverVerify, RecoverDisable, RecoverDetach, RecoverDrop,
     Refuses, EndsT, OnTarget, Proceeds, Steps, TargetSteps
<1>3. CASE WaitReads
  <2>1. jobT.op = "start" /\ jobT' = [jobT EXCEPT !.at = "poll", !.lsn = LSN] /\ LSN \in Nat
    BY <1>3 DEF WaitReads, OnTarget, TypeOK
  <2>2. jobT \in TargetJob("start")
    BY Zenon, <2>1, EmptyRecord DEF TypeOK, TargetJob
  <2>3. jobT'.op = jobT.op /\ jobT'.fin = jobT.fin /\ jobT'.row = jobT.row
    BY Zenon, <2>1, <2>2 DEF TargetJob
  <2> QED
    BY Zenon, <1>1, <2>1, <2>3 DEF Steps
<1>4. CASE Proceeds
  BY Zenon, <1>1, <1>4, GoesOnTarget DEF Proceeds
<1> QED
  BY Zenon, <1>1, <1>2, <1>3, <1>4

LEMMA PlanNext == ASSUME IInv, Next, TypeOK' PROVE PlanInv'
<1>0. /\ TypeOK /\ PlanInv /\ phase \in {"prepare", "restore", "start", "finalize", "clean"}
      /\ schema \in Versions /\ None \notin Versions /\ pub \in 0..2
      /\ Idle.op = "idle" /\ (jobT = Idle \/ jobT.op \in Steps)
      /\ (jobS = Idle \/ jobS.op \in {"prepare", "finalize", "clean"})
      /\ (mS # None => mS \in SourceMarker) /\ (mT # None => mT \in TargetMarker)
  <2>1. TypeOK /\ PlanInv
    BY Zenon DEF IInv
  <2>2. /\ Idle.op = "idle" /\ (jobT = Idle \/ jobT.op \in Steps)
        /\ (jobS = Idle \/ jobS.op \in {"prepare", "finalize", "clean"})
    BY Zenon, <2>1, EmptyRecord, TargetJobRecord, SourceJobRecord
  <2> QED
    BY Zenon, <2>1, <2>2, NotNone DEF TypeOK
<1>1. CASE Interrupt
  <2>1. UNCHANGED <<phase, records, verified>>
    BY Zenon, <1>1 DEF Interrupt, source, target, records, history, counts
  <2>2. jobS' \in {jobS, Idle} /\ jobT' \in {jobT, Idle}
    BY Zenon, <1>1, <1>0 DEF Interrupt, EndsT, PlanInv
  <2> QED
    BY Zenon, <2>1, <2>2, <1>0 DEF records, PlanInv
<1>2. CASE Abort
  <2>1. UNCHANGED <<jobS, jobT, records, verified>>
    BY Zenon, <1>2 DEF Abort, source, target, records, history, counts
  <2>2. phase' = "clean" /\ jobS = Idle /\ jobT = Idle
    BY Zenon, <1>2, <1>0 DEF Abort, PlanInv
  <2> QED
    BY Zenon, <2>1, <2>2, <1>0 DEF records, PlanInv
<1>3. CASE PostgresLogicalSchemaDump
  <2>1. UNCHANGED <<phase, jobS, jobT, mS, mT, final, verified>>
    BY Zenon, <1>3 DEF PostgresLogicalSchemaDump, source, target, records, history, counts
  <2>2. art' = schema /\ jobS = Idle
    BY Zenon, <1>3, <1>0 DEF PostgresLogicalSchemaDump, PlanInv
  <2> QED
    BY Zenon, <2>1, <2>2, <1>0 DEF PlanInv
<1>4. CASE PrepareSource
  <2>1. UNCHANGED <<phase, jobT, mT, final, verified, art>>
    BY Zenon, <1>4 DEF PrepareSource, source, target, records, history, counts
  <2>2. phase = "prepare" /\ art = schema /\ jobS' \in {[op |-> "prepare", at |-> "create"], [op |-> "prepare", at |-> "ready"]}
    BY Zenon, <1>4, <1>0 DEF PrepareSource, Begins, PlanInv
  <2>3. (mS # None /\ mS.schema = art /\ mS' = mS) \/ mS' = [st |-> "preparing", schema |-> art, pub |-> 0]
    BY Zenon, <1>4, <1>0 DEF PrepareSource, PlanInv
  <2>4. mS' # None /\ mS'.schema = art
    <3>1. 0 \in 0..2 /\ art \in Versions
      BY <1>0, <2>2
    <3>2. mS' = [st |-> "preparing", schema |-> art, pub |-> 0] => mS' \in SourceMarker
      BY <3>1, NewSourceMarker, Zenon
    <3> QED
      BY <2>3, <3>2, NotNone
  <2> QED
    BY <2>1, <2>2, <2>4, <1>0 DEF PlanInv
<1>5. CASE PrepareCreate
  <2>1. UNCHANGED <<phase, records, jobT, verified>>
    BY Zenon, <1>5 DEF PrepareCreate, source, target, records, history, counts
  <2>2. jobS'.op = "prepare" /\ jobS.op = "prepare"
    BY Zenon, <1>5, SourceJobRecord, <1>0 DEF PrepareCreate, OnSource, GoesOn, PlanInv
  <2> QED
    BY Zenon, <2>1, <2>2, <1>0 DEF records, PlanInv
<1>6. CASE PrepareReady
  <2>1. UNCHANGED <<jobT, mT, art, final, verified>>
    BY Zenon, <1>6 DEF PrepareReady, source, target, records, history, counts
  <2>2. jobS' = Idle /\ jobS.op = "prepare" /\ (phase' = phase \/ Learns)
    BY Zenon, <1>6, <1>0 DEF PrepareReady, OnSource, PlanInv
  <2>3. mS' # None
    <3>1. mS' = mS \/ mS' = [st |-> "publication-ready", schema |-> art, pub |-> pub]
      BY Zenon, <1>6, <1>0 DEF PrepareReady, PlanInv
    <3>2. mS # None /\ art \in Versions
      BY Zenon, <1>0, <2>2 DEF PlanInv, TypeOK
    <3> QED
      <4>1. mS' = [st |-> "publication-ready", schema |-> art, pub |-> pub] => mS' \in SourceMarker
        BY <1>0, <3>2, NewSourceMarker, Zenon
      <4> QED
        BY Zenon, <3>1, <3>2, <4>1, NotNone
  <2> QED
    BY Zenon, <2>1, <2>2, <2>3, NextPhaseType, <1>0 DEF Steps, PlanInv
<1>7. CASE
     \/ FinalizeSource \/ CleanupSource
  <2>1. UNCHANGED <<phase, records, jobT, verified>>
    BY Zenon, <1>7 DEF FinalizeSource, CleanupSource, source, target, records, history, counts
  <2>2. mS # None /\ ((phase = "finalize" /\ jobS'.op = "finalize") \/ (phase = "clean" /\ jobS'.op = "clean"))
    BY SMTT(30), <1>7, <1>0 DEF FinalizeSource, CleanupSource, Begins, PlanInv
  <2> QED
    BY Zenon, <2>1, <2>2, <1>0 DEF records, PlanInv
<1>8. CASE
     \/ CaptureManifest \/ CaptureLSN \/ CleanupSlot \/ CleanupPublication
  <2>1. UNCHANGED <<phase, records, jobT, verified>>
    BY Zenon, <1>8 DEF CaptureManifest, CaptureLSN, CleanupSlot, CleanupPublication, source, target,
       records, history, counts
  <2>2. jobS' = Idle \/ (jobS.op \in {"finalize", "clean"} /\ jobS'.op = jobS.op)
    <3>1. CASE CaptureManifest
      BY Zenon, <3>1, <1>0 DEF CaptureManifest, OnSource, PlanInv
    <3>2. CASE CaptureLSN
      BY Zenon, <3>2, SourceJobRecord, <1>0 DEF CaptureLSN, OnSource, PlanInv
    <3>3. CASE CleanupSlot \/ CleanupPublication
      <4>1. jobS.op = "clean" /\ (jobS' = Idle \/ GoesOn("publication") \/ GoesOn("mark"))
        BY Zenon, <3>3 DEF CleanupSlot, CleanupPublication, OnSource
      <4> QED
        <5>1. \A at \in {"publication", "mark"} : [jobS EXCEPT !.at = at].op = "clean"
          BY Zenon, <1>0, <4>1, SourceJobRecord
        <5> QED
          BY <4>1, <5>1, Zenon DEF GoesOn
    <3> QED
      BY Zenon, <1>8, <3>1, <3>2, <3>3, <1>0 DEF PlanInv
  <2> QED
    BY Zenon, <2>1, <2>2, <1>0 DEF records, PlanInv
<1>9. CASE
     \/ CaptureState \/ CleanupMark
  <2>1. UNCHANGED <<phase, mT, art, jobT, verified>>
    BY Zenon, <1>9 DEF CaptureState, CleanupMark, source, target, records, history, counts
  <2>2. jobS' = Idle /\ jobS.op \in {"finalize", "clean"} /\ phase \in {"finalize", "clean"} /\ mS # None
    BY Zenon, <1>9, <1>0 DEF CaptureState, CleanupMark, OnSource, PlanInv
  <2>3. mS' # None
    <3>1. mS' = [mS EXCEPT !.st = "final-state-captured"] \/ mS' = [mS EXCEPT !.st = "source-cleaned"]
      BY Zenon, <1>9, <1>0 DEF CaptureState, CleanupMark, PlanInv
    <3>2. mS' \in SourceMarker
      BY <1>0, <2>2, <3>1, MarkSource, Zenon
    <3> QED
      BY Zenon, <3>2, NotNone
  <2> QED
    BY Zenon, <2>1, <2>2, <2>3, <1>0 DEF PlanInv
<1>10. CASE RestoreSchema
  <2>1. UNCHANGED <<records, jobS, verified>>
    BY Zenon, <1>10 DEF RestoreSchema, source, target, records, history, counts
  <2>2. phase = "restore" /\ (jobT' = Idle \/ jobT'.op = "restore") /\ (phase' = phase \/ (Learns /\ jobT' = Idle))
    BY Zenon, <1>10, BeginsTarget, <1>0 DEF RestoreSchema, Succeeds, EndsT, Refuses, Steps, TargetSteps,
       PlanInv
  <2> QED
    BY Zenon, <2>1, <2>2, NextPhaseType, <1>0 DEF records, PlanInv
<1>11. CASE StartSubscription
  <2>1. UNCHANGED <<phase, records, jobS, verified>>
    BY Zenon, <1>11 DEF StartSubscription, Refuses, source, target, records, history, counts
  <2>2. jobT' = Idle \/ (phase = "start" /\ mT # None /\ pub # 0 /\ jobT'.op = "start")
    BY Zenon, <1>11, BeginsTarget, <1>0 DEF StartSubscription, PublicationMatches, EndsT, Refuses, Steps,
       TargetSteps, PlanInv
  <2>3. pub # 0 => mS # None
    BY Zenon, <1>0, <1>0 DEF IInv, ObjectsOwned, PlanInv
  <2> QED
    BY Zenon, <2>1, <2>2, <2>3, <1>0 DEF records, PlanInv
<1>12. CASE FinalizeTarget
  <2>1. UNCHANGED <<phase, records, jobS, verified>>
    BY Zenon, <1>12 DEF FinalizeTarget, Refuses, source, target, records, history, counts
  <2>2. FinalizeFrom \in TargetSteps("finalize") \cup {"refused"} /\ (FinalizeFrom # "refused" => mT # None)
    BY Zenon, <1>0, <1>0 DEF FinalizeFrom, TargetSteps, PlanInv
  <2>3. jobT' = Idle \/ (phase = "finalize" /\ mT # None /\ final # None /\ jobT'.op = "finalize" /\ jobT'.fin = final)
    BY Zenon, <1>12, <2>2, BeginsTarget, <1>0 DEF FinalizeTarget, EndsT, Refuses, Steps, PlanInv
  <2> QED
    BY Zenon, <2>1, <2>3, <1>0 DEF records, PlanInv
<1>13. CASE RestoreMark
  <2>1. UNCHANGED <<mS, art, final, jobS, verified>>
    BY Zenon, <1>13 DEF RestoreMark, source, target, records, history, counts
  <2>2. phase = "restore" /\ jobT' = Idle /\ (phase' = phase \/ Learns)
    BY Zenon, <1>13, <1>0 DEF RestoreMark, OnTarget, Succeeds, EndsT, PlanInv
  <2>3. mT'.st = "schema-restored" /\ mT'.final = None
    BY Zenon, <1>13, <1>0 DEF RestoreMark, PlanInv
  <2> QED
    BY Zenon, <2>1, <2>2, <2>3, NextPhaseType, <1>0 DEF Verdicts, PlanInv
<1>14. CASE
     \/ StartMark \/ StartDefinition
  <2>1. UNCHANGED <<phase, mS, art, final, jobS, verified>>
    BY Zenon, <1>14 DEF StartMark, StartDefinition, GoesOnT, Refuses, source, target, records, history,
       counts
  <2>2. phase = "start" /\ jobT.op = "start" /\ mT \in TargetMarker /\ (jobT' = Idle \/ jobT'.op = "start")
    BY Zenon, <1>14, GoesOnTarget, <1>0 DEF StartMark, StartDefinition, OnTarget, Refuses, EndsT, Steps,
       TargetSteps, PlanInv
  <2>3. mT' = mT \/ mT' = [mT EXCEPT !.st = "subscription-created"] \/ mT' = [mT EXCEPT !.st = "subscription-created", !.pub = pub, !.sub = TRUE]
    BY Zenon, <1>14, <1>0 DEF StartMark, StartDefinition, PlanInv
  <2>4. mT' # None /\ mT'.final = mT.final /\ (mT'.st = mT.st \/ mT'.st = "subscription-created")
    <3>1. pub \in 0..2
      BY Zenon, <1>0, <1>0 DEF TypeOK, PlanInv
    <3>2. mT' \in TargetMarker /\ mT'.final = mT.final /\ (mT'.st = mT.st \/ mT'.st = "subscription-created")
      <4>1. CASE mT' = mT
        BY Zenon, <2>2, <4>1
      <4>2. CASE mT' = [mT EXCEPT !.st = "subscription-created"]
        BY <2>2, <4>2, MarkState, Zenon DEF TargetStates
      <4>3. CASE mT' = [mT EXCEPT !.st = "subscription-created", !.pub = pub, !.sub = TRUE]
        BY <2>2, <3>1, <4>3, MarkDefinition, Zenon
      <4> QED
        BY Zenon, <2>3, <4>1, <4>2, <4>3
    <3> QED
      BY Zenon, <3>2, NotNone
  <2>5. mT.final = None /\ mT.st \notin Verdicts
    BY Zenon, <2>2, NotNone, <1>0 DEF PlanInv
  <2>6. mT'.final = None /\ mT'.st \notin Verdicts
    BY Zenon, <2>4, <2>5, <1>0 DEF Verdicts, PlanInv
  <2> QED
    BY Zenon, <2>1, <2>2, <2>4, <2>6, <1>0 DEF PlanInv
<1>15. CASE StartReplicating
  <2>1. UNCHANGED <<mS, art, final, jobS, verified>>
    BY Zenon, <1>15 DEF StartReplicating, source, target, records, history, counts
  <2>2. phase = "start" /\ mT \in TargetMarker /\ jobT' = Idle /\ (phase' = phase \/ Learns)
    BY Zenon, <1>15, <1>0 DEF StartReplicating, OnTarget, Succeeds, EndsT, PlanInv
  <2>3. mT'.final = mT.final /\ mT'.st = "replicating"
    BY Zenon, <1>15, <2>2 DEF StartReplicating, TargetMarker
  <2>4. mT.final = None
    BY Zenon, <2>2, NotNone, <1>0 DEF PlanInv
  <2>5. mT'.final = None /\ mT'.st \notin Verdicts
    BY Zenon, <2>3, <2>4, <1>0 DEF Verdicts, PlanInv
  <2> QED
    BY Zenon, <2>1, <2>2, <2>5, NextPhaseType, <1>0 DEF PlanInv
<1>16. CASE FinalizePending
  <2>1. UNCHANGED <<phase, mS, art, final, jobS, verified>>
    BY Zenon, <1>16 DEF FinalizePending, GoesOnT, source, target, records, history, counts
  <2>2. phase = "finalize" /\ mT \in TargetMarker /\ jobT.fin # None /\ jobT'.op = "finalize" /\ jobT'.fin = jobT.fin
    BY Zenon, <1>16, GoesOnTarget, <1>0 DEF FinalizePending, OnTarget, Steps, TargetSteps, PlanInv
  <2>3. jobT.fin \in FinalState
    BY Zenon, <1>16, <2>2, TargetJobRecord, <1>0 DEF FinalizePending, OnTarget, Steps, PlanInv
  <2>4. mT' # None /\ mT'.final # None
    <3>1. FinalDigest(jobT.fin) \in FinalState /\ FinalDigest(jobT.fin) # None
      BY Zenon, <2>3, FinalRecord, <1>0 DEF PlanInv
    <3>2. mT' = [mT EXCEPT !.st = "cleanup-pending", !.final = FinalDigest(jobT.fin)]
      BY Zenon, <1>16, <1>0 DEF FinalizePending, PlanInv
    <3>3. mT' \in TargetMarker /\ mT'.final = FinalDigest(jobT.fin)
      BY <2>2, <3>1, <3>2, MarkPending, Zenon
    <3> QED
      BY Zenon, <3>1, <3>3, NotNone
  <2> QED
    BY Zenon, <2>1, <2>2, <2>4, <1>0 DEF PlanInv
<1>17. CASE
     \/ FinalizeDone \/ RecoverDone \/ VerifyAgain
  <2>1. UNCHANGED <<mS, art, final, jobS>>
    BY Zenon, <1>17 DEF FinalizeDone, RecoverDone, VerifyAgain, source, target, records, history, counts
  <2>2. phase = "finalize" /\ jobT' = Idle /\ (phase' = phase \/ Learns)
    BY Zenon, <1>17, <1>0 DEF FinalizeDone, RecoverDone, VerifyAgain, OnTarget, Verifies, Succeeds,
       EndsT, PlanInv
  <2>3. mT \in TargetMarker /\ (mT' = mT \/ mT' = [mT EXCEPT !.st = "finalized"])
    BY Zenon, <1>17, <1>0 DEF FinalizeDone, RecoverDone, VerifyAgain, OnTarget, records, PlanInv
  <2>4. mT'.final = mT.final
    BY Zenon, <2>3 DEF TargetMarker
  <2>5. jobT.at \in After
    BY Zenon, <1>17, <1>0 DEF FinalizeDone, RecoverDone, VerifyAgain, OnTarget, After, Recovering,
       PlanInv
  <2>6. mT.final # None /\ mS # None
    <3>1. jobT.op = "finalize" /\ jobT.fin \in FinalState
      BY Zenon, <1>17, TargetJobRecord, <1>0 DEF FinalizeDone, RecoverDone, VerifyAgain, OnTarget, Steps,
         PlanInv
    <3>2. mT.final = FinalDigest(jobT.fin) /\ final # None
      BY Zenon, <2>5, <3>1, <1>0 DEF IInv, StepInv, OrderInv, PlanInv
    <3> QED
      BY Zenon, <3>1, <3>2, FinalRecord, <1>0 DEF PlanInv
  <2> QED
    BY Zenon, <2>1, <2>2, <2>4, <2>6, NextPhaseType, <1>0 DEF PlanInv
<1>18. CASE CleanupTarget
  <2>1. UNCHANGED <<phase, mS, art, final, jobS, verified>>
    BY Zenon, <1>18 DEF CleanupTarget, source, target, records, history, counts
  <2>2. phase = "clean" /\ jobT' = Idle
    BY Zenon, <1>18, <1>0 DEF CleanupTarget, EndsT, PlanInv
  <2>3. mT' = mT \/ (mT # None /\ mT' = [mT EXCEPT !.st = "cleaned"])
    BY Zenon, <1>18, <1>0 DEF CleanupTarget, PlanInv
  <2>4. mT' # None /\ mT'.st \in Verdicts => mT' = mT
    <3>1. ASSUME mT \in TargetMarker, mT' = [mT EXCEPT !.st = "cleaned"]
          PROVE  mT'.st = "cleaned"
      BY <3>1, MarkState, Zenon DEF TargetStates
    <3> QED
      BY Zenon, <1>0, <2>3, <3>1 DEF Verdicts
  <2> QED
    BY Zenon, <2>1, <2>2, <2>4, <1>0 DEF PlanInv
<1>19. CASE
     \/ RestoreLoad \/ StartSlot \/ StartCreate \/ StartCommit \/ WaitReads \/ WaitApply
     \/ GiveUp \/ FinalizeEnable \/ WaitFinalLSN \/ FinalizeDisable \/ FinalizeStop
     \/ FinalizeSequences \/ FinalizeVerify \/ FinalizeDetach \/ FinalizeDrop \/ RecoverVerify
     \/ RecoverDisable \/ RecoverDetach \/ RecoverDrop
  <2>1. Quiet
    BY Zenon, <1>19, <1>0 DEF Quiet, PlanInv
  <2> QED
    BY Zenon, <2>1, QuietStep, <1>0 DEF Steps, PlanInv
<1>20. CASE
     \/ (\E kind \in Kinds : Write(kind)) \/ Interference \/ WorkerStarts \/ WorkerStops \/ Copy
     \/ Apply \/ ResetTarget
  <2>1. UNCHANGED <<phase, records, jobS, jobT, verified>>
    BY Zenon, <1>20 DEF Write, Interference, WorkerStarts, WorkerStops, Copy, Apply, ResetTarget, source,
       target, records, history, counts
  <2> QED
    BY Zenon, <2>1, <1>0, <1>0 DEF records, PlanInv
<1> QED
  BY Zenon, <1>1, <1>2, <1>3, <1>4, <1>5, <1>6, <1>7, <1>8, <1>9, <1>10, <1>11, <1>12, <1>13, <1>14,
     <1>15, <1>16, <1>17, <1>18, <1>19, <1>20 DEF Next, Environment, SourcePrimitives,
     TargetPrimitives

\* A marker that is there stays.
LEMMA MarkersStay ==
  ASSUME IInv, Next
  PROVE  (mS # None => mS' # None) /\ (mT # None => mT' # None)
<1>0. /\ TypeOK /\ PlanInv /\ pub \in 0..2
      /\ (mS # None => mS \in SourceMarker) /\ (mT # None => mT \in TargetMarker)
  BY Zenon DEF IInv, TypeOK
<1>1. CASE PrepareSource
  <2>1. UNCHANGED <<mT>>
    BY Zenon, <1>1 DEF PrepareSource, source, target, records, history, counts
  <2>2. (mS = None \/ mS' = mS)
    BY Zenon, <1>1 DEF PrepareSource
  <2> QED
    BY Zenon, <2>1, <2>2
<1>2. CASE PrepareReady
  <2>1. UNCHANGED <<mT>>
    BY Zenon, <1>2 DEF PrepareReady, source, target, records, history, counts
  <2>2. art \in Versions
    BY Zenon, <1>2, <1>0 DEF PrepareReady, OnSource, PlanInv, TypeOK
  <2>3. mS' = mS \/ mS' = [st |-> "publication-ready", schema |-> art, pub |-> pub]
    BY Zenon, <1>2 DEF PrepareReady
  <2>4. mS' = [st |-> "publication-ready", schema |-> art, pub |-> pub] => mS' \in SourceMarker
    BY <1>0, <2>2, NewSourceMarker, Zenon
  <2> QED
    BY Zenon, <2>1, <2>3, <2>4, NotNone
<1>3. CASE
     \/ CaptureState \/ CleanupMark
  <2>1. UNCHANGED <<mT>>
    BY Zenon, <1>3 DEF CaptureState, CleanupMark, source, target, records, history, counts
  <2>2. mS' = [mS EXCEPT !.st = "final-state-captured"] \/ mS' = [mS EXCEPT !.st = "source-cleaned"]
    BY Zenon, <1>3 DEF CaptureState, CleanupMark
  <2>3. ASSUME mS \in SourceMarker
        PROVE  mS' \in SourceMarker
    BY <2>2, <2>3, MarkSource, Zenon
  <2> QED
    BY Zenon, <1>0, <2>1, <2>3, NotNone
<1>4. CASE RestoreMark
  <2>1. UNCHANGED <<mS>>
    BY Zenon, <1>4 DEF RestoreMark, source, target, records, history, counts
  <2>2. art \in Versions /\ 0 \in 0..2
    BY SMTT(30), <1>4, <1>0 DEF RestoreMark, OnTarget, PlanInv, TypeOK
  <2>3. mT' = [st |-> "schema-restored", schema |-> art, pub |-> 0, sub |-> FALSE, final |-> None]
    BY Zenon, <1>4 DEF RestoreMark
  <2>4. mT' \in TargetMarker
    BY <2>2, <2>3, Zenon DEF TargetMarker
  <2> QED
    BY Zenon, <2>1, <2>4, NotNone
<1>5. CASE
     \/ StartMark \/ StartReplicating \/ FinalizeDone \/ RecoverDone \/ CleanupTarget
  <2>1. UNCHANGED <<mS>>
    BY Zenon, <1>5 DEF StartMark, StartReplicating, FinalizeDone, RecoverDone, CleanupTarget, source,
       target, records, history, counts
  <2>2. mT' = mT \/ \E st \in TargetStates : mT' = [mT EXCEPT !.st = st]
    BY Zenon, <1>5 DEF StartMark, StartReplicating, FinalizeDone, RecoverDone, CleanupTarget,
       TargetStates
  <2>3. ASSUME mT \in TargetMarker
        PROVE  mT' \in TargetMarker
    BY <2>2, <2>3, MarkState, Zenon
  <2> QED
    BY Zenon, <1>0, <2>1, <2>3, NotNone
<1>6. CASE StartDefinition
  <2>1. UNCHANGED <<mS>>
    BY Zenon, <1>6 DEF StartDefinition, source, target, records, history, counts
  <2>2. mT' = mT \/ mT' = [mT EXCEPT !.st = "subscription-created", !.pub = pub, !.sub = TRUE]
    BY Zenon, <1>6 DEF StartDefinition
  <2>3. ASSUME mT \in TargetMarker
        PROVE  mT' \in TargetMarker
    BY <1>0, <2>2, <2>3, MarkDefinition, Zenon
  <2> QED
    BY Zenon, <1>0, <2>1, <2>3, NotNone
<1>7. CASE FinalizePending
  <2>1. UNCHANGED <<mS>>
    BY Zenon, <1>7 DEF FinalizePending, source, target, records, history, counts
  <2>2. jobT.op = "finalize" /\ mT' = [mT EXCEPT !.st = "cleanup-pending", !.final = FinalDigest(jobT.fin)]
    BY Zenon, <1>7 DEF FinalizePending, OnTarget
  <2>3. mT \in TargetMarker /\ FinalDigest(jobT.fin) \in FinalState
    BY Zenon, <1>0, <2>2, TargetJobRecord, FinalRecord DEF PlanInv, Steps
  <2>4. mT' \in TargetMarker
    BY <2>2, <2>3, MarkPending, Zenon
  <2> QED
    BY Zenon, <2>1, <2>4, NotNone
<1>8. CASE
     \/ (\E kind \in Kinds : Write(kind)) \/ Interference \/ WorkerStarts \/ WorkerStops \/ Copy
     \/ Apply \/ Interrupt \/ Abort \/ PostgresLogicalSchemaDump \/ PrepareCreate
     \/ FinalizeSource \/ CaptureManifest \/ CaptureLSN \/ CleanupSource
  <2>1. UNCHANGED <<mS, mT>>
    BY Zenon, <1>8 DEF Write, Interference, WorkerStarts, WorkerStops, Copy, Apply, Interrupt, Abort,
       PostgresLogicalSchemaDump, PrepareCreate, FinalizeSource, CaptureManifest, CaptureLSN,
       CleanupSource, source, target, records, history, counts
  <2> QED
    BY Zenon, <2>1
<1>9. CASE
     \/ CleanupSlot \/ CleanupPublication \/ ResetTarget \/ RestoreSchema \/ RestoreLoad
     \/ StartSubscription \/ StartSlot \/ StartCreate \/ StartCommit \/ WaitReads \/ WaitApply
     \/ GiveUp \/ FinalizeTarget \/ FinalizeEnable
  <2>1. UNCHANGED <<mS, mT>>
    BY Zenon, <1>9 DEF CleanupSlot, CleanupPublication, ResetTarget, RestoreSchema, RestoreLoad,
       StartSubscription, StartSlot, StartCreate, StartCommit, WaitReads, WaitApply, GiveUp,
       FinalizeTarget, FinalizeEnable, source, target, records, history, counts
  <2> QED
    BY Zenon, <2>1
<1>10. CASE
     \/ WaitFinalLSN \/ FinalizeDisable \/ FinalizeStop \/ FinalizeSequences \/ FinalizeVerify
     \/ FinalizeDetach \/ FinalizeDrop \/ RecoverVerify \/ RecoverDisable \/ RecoverDetach
     \/ RecoverDrop \/ VerifyAgain
  <2>1. UNCHANGED <<mS, mT>>
    BY Zenon, <1>10 DEF WaitFinalLSN, FinalizeDisable, FinalizeStop, FinalizeSequences, FinalizeVerify,
       FinalizeDetach, FinalizeDrop, RecoverVerify, RecoverDisable, RecoverDetach, RecoverDrop,
       VerifyAgain, source, target, records, history, counts
  <2> QED
    BY Zenon, <2>1
<1> QED
  BY Zenon, <1>1, <1>2, <1>3, <1>4, <1>5, <1>6, <1>7, <1>8, <1>9, <1>10 DEF Next, Environment,
     SourcePrimitives, TargetPrimitives

LEMMA ObjectsNext == ASSUME IInv, Next PROVE ObjectsOwned'
<1>0. /\ TypeOK /\ PlanInv /\ ObjectsOwned
      /\ (mS # None => mS' # None) /\ (mT # None => mT' # None)
  BY Zenon, MarkersStay DEF IInv
<1>1. CASE Interference
  <2>1. UNCHANGED <<pub, mS, mT>>
    BY Zenon, <1>1 DEF Interference, source, target, records, history, counts
  <2>2. (slot' = slot \/ slot' = FALSE) /\ (sub' = sub \/ (sub.made /\ sub' = [sub EXCEPT !.own = ~@]))
    BY Zenon, <1>1 DEF Interference
  <2>3. sub'.made => sub.made
    BY Zenon, <2>2
  <2> QED
    BY <1>0, <2>1, <2>2, <2>3 DEF ObjectsOwned
<1>2. CASE Copy
  <2>1. UNCHANGED <<pub, slot, mS, mT>>
    BY Zenon, <1>2 DEF Copy, source, target, records, history, counts
  <2>2. sub.made
    BY Zenon, <1>2 DEF Copy
  <2> QED
    BY Zenon, <1>0, <2>1, <2>2 DEF ObjectsOwned
<1>3. CASE PrepareCreate
  <2>1. UNCHANGED <<slot, sub, mS, mT>>
    BY Zenon, <1>3 DEF PrepareCreate, source, target, records, history, counts
  <2>2. mS # None
    BY Zenon, <1>3, <1>0 DEF PrepareCreate, OnSource, PlanInv
  <2> QED
    BY Zenon, <1>0, <2>1, <2>2 DEF ObjectsOwned
<1>4. CASE
     \/ CleanupSlot \/ CleanupPublication \/ StartSlot
  <2>1. UNCHANGED <<sub, mT, mS>>
    BY Zenon, <1>4 DEF CleanupSlot, CleanupPublication, StartSlot, source, target, records, history,
       counts
  <2>2. (slot' = slot \/ slot' = FALSE) /\ (pub' = pub \/ pub' = 0)
    BY Zenon, <1>4 DEF CleanupSlot, CleanupPublication, StartSlot
  <2> QED
    BY <1>0, <2>1, <2>2 DEF ObjectsOwned
<1>5. CASE StartCreate
  <2>1. UNCHANGED <<sub, pub, mT, mS>>
    BY Zenon, <1>5 DEF StartCreate, source, target, records, history, counts
  <2>2. mS # None
    BY Zenon, <1>5, <1>0 DEF StartCreate, OnTarget, PlanInv
  <2> QED
    BY Zenon, <1>0, <2>1, <2>2 DEF ObjectsOwned
<1>6. CASE StartCommit
  <2>1. UNCHANGED <<slot, pub, mT, mS>>
    BY Zenon, <1>6 DEF StartCommit, source, target, records, history, counts
  <2>2. mT # None
    BY Zenon, <1>6, <1>0 DEF StartCommit, OnTarget, PlanInv
  <2> QED
    BY Zenon, <1>0, <2>1, <2>2 DEF ObjectsOwned
<1>7. CASE
     \/ FinalizeEnable \/ FinalizeDisable \/ FinalizeDetach \/ FinalizeDrop \/ RecoverDisable
     \/ RecoverDetach \/ RecoverDrop
  <2>1. UNCHANGED <<slot, pub, mT, mS>>
    BY Zenon, <1>7 DEF FinalizeEnable, FinalizeDisable, FinalizeDetach, FinalizeDrop, RecoverDisable,
       RecoverDetach, RecoverDrop, source, target, records, history, counts
  <2>2. mT # None
    BY Zenon, <1>7, <1>0 DEF FinalizeEnable, FinalizeDisable, FinalizeDetach, FinalizeDrop,
       RecoverDisable, RecoverDetach, RecoverDrop, OnTarget, PlanInv
  <2> QED
    BY Zenon, <1>0, <2>1, <2>2 DEF ObjectsOwned
<1>8. CASE
     \/ PrepareSource \/ PrepareReady \/ CaptureState \/ CleanupMark \/ RestoreMark \/ StartMark
     \/ StartDefinition \/ StartReplicating \/ FinalizePending \/ FinalizeDone \/ RecoverDone
     \/ CleanupTarget
  <2>1. UNCHANGED <<slot, pub, sub>>
    BY Zenon, <1>8 DEF PrepareSource, PrepareReady, CaptureState, CleanupMark, RestoreMark, StartMark,
       StartDefinition, StartReplicating, FinalizePending, FinalizeDone, RecoverDone,
       CleanupTarget, source, target, records, history, counts
  <2> QED
    BY Zenon, <1>0, <2>1 DEF ObjectsOwned
<1>9. CASE
     \/ (\E kind \in Kinds : Write(kind)) \/ WorkerStarts \/ WorkerStops \/ Apply \/ Interrupt
     \/ Abort \/ PostgresLogicalSchemaDump \/ FinalizeSource \/ CaptureManifest \/ CaptureLSN
     \/ CleanupSource \/ ResetTarget \/ RestoreSchema
  <2>1. UNCHANGED <<slot, pub, sub, mS, mT>>
    BY Zenon, <1>9 DEF Write, WorkerStarts, WorkerStops, Apply, Interrupt, Abort,
       PostgresLogicalSchemaDump, FinalizeSource, CaptureManifest, CaptureLSN, CleanupSource,
       ResetTarget, RestoreSchema, source, target, records, history, counts
  <2> QED
    BY Zenon, <2>1, <1>0 DEF ObjectsOwned
<1>10. CASE
     \/ RestoreLoad \/ StartSubscription \/ WaitReads \/ WaitApply \/ GiveUp \/ FinalizeTarget
     \/ WaitFinalLSN \/ FinalizeStop \/ FinalizeSequences \/ FinalizeVerify \/ RecoverVerify
     \/ VerifyAgain
  <2>1. UNCHANGED <<slot, pub, sub, mS, mT>>
    BY Zenon, <1>10 DEF RestoreLoad, StartSubscription, WaitReads, WaitApply, GiveUp, FinalizeTarget,
       WaitFinalLSN, FinalizeStop, FinalizeSequences, FinalizeVerify, RecoverVerify, VerifyAgain,
       source, target, records, history, counts
  <2> QED
    BY Zenon, <2>1, <1>0 DEF ObjectsOwned
<1> QED
  BY Zenon, <1>1, <1>2, <1>3, <1>4, <1>5, <1>6, <1>7, <1>8, <1>9, <1>10 DEF Next, Environment,
     SourcePrimitives, TargetPrimitives

LEMMA SubNext == ASSUME IInv, Next PROVE SubInv'
<1>0. /\ TypeOK /\ PlanInv /\ SubInv /\ sub \in Subscription /\ tgt \in Contents /\ recv \in Nat /\ LSN \in Nat
      /\ recv <= LSN /\ phase \in {"prepare", "restore", "start", "finalize", "clean"}
  BY DEF IInv, TypeOK
<1>a. /\ Idle.op = "idle" /\ (jobT = Idle \/ jobT.op \in Steps)
      /\ ~NoSub.made /\ ~NoSub.ready /\ NewSub.made /\ ~NewSub.ready
  BY Zenon, <1>0, EmptyRecord, TargetJobRecord
<1>b. sub \in Subscription /\ tgt \in Contents
  BY Zenon, <1>0
<1>c. tgt.rows \in Nat
  BY Zenon, <1>b DEF Contents
<1>1. CASE Interference
  <2>1. UNCHANGED <<phase, recv, jobT>>
    BY Zenon, <1>1 DEF Interference, source, target, records, history, counts
  <2>2. (tgt' = tgt \/ tgt' = [tgt EXCEPT !.foreign = TRUE]) /\ (sub' = sub \/ (sub.made /\ sub' = [sub EXCEPT !.own = ~@]))
    BY Zenon, <1>1 DEF Interference
  <2>3. tgt'.rows = tgt.rows
    BY Zenon, <1>b, <2>2 DEF Contents
  <2>4. sub' = sub \/ (sub.made /\ sub'.made /\ sub'.ready = sub.ready)
    BY Zenon, <1>b, <2>2 DEF Subscription
  <2> QED
    BY Zenon, <1>0, <2>1, <2>3, <2>4 DEF SubInv
<1>2. CASE Copy
  <2>1. UNCHANGED <<phase, recv, jobT>>
    BY Zenon, <1>2 DEF Copy, source, target, records, history, counts
  <2>2. sub.made /\ sub' = [sub EXCEPT !.ready = TRUE] /\ tgt' = [tgt EXCEPT !.rows = LSN]
    BY Zenon, <1>2 DEF Copy
  <2>3. sub'.made /\ sub'.ready /\ tgt'.rows = LSN
    BY SMTT(30), <1>0, <2>2, ContentsRecord, SubscriptionRecord
  <2> QED
    BY Zenon, <1>0, <2>1, <2>2, <2>3 DEF SubInv
<1>3. CASE Apply
  <2>1. UNCHANGED <<phase, sub, jobT>>
    BY Zenon, <1>3 DEF Apply, source, target, records, history, counts
  <2>2. recv' = recv + 1 /\ tgt' = IF sub.ready /\ recv' > tgt.rows THEN [tgt EXCEPT !.rows = recv'] ELSE tgt
    BY Zenon, <1>3 DEF Apply
  <2>3. recv' \in Nat /\ (sub.ready => tgt'.rows >= recv')
    BY SMTT(30), <1>0, <1>c, <1>b, <2>2, ContentsRecord
  <2> QED
    BY Zenon, <1>0, <2>1, <2>3 DEF SubInv
<1>4. CASE Interrupt
  <2>1. UNCHANGED <<phase, sub, tgt, recv>>
    BY Zenon, <1>4 DEF Interrupt, source, target, records, history, counts
  <2>2. jobT' = jobT \/ jobT' = Idle
    BY Zenon, <1>4 DEF Interrupt, EndsT
  <2> QED
    BY Zenon, <1>0, <1>a, <2>1, <2>2 DEF SubInv
<1>5. CASE Abort
  <2>1. UNCHANGED <<jobT, sub, tgt, recv>>
    BY Zenon, <1>5 DEF Abort, source, target, records, history, counts
  <2>2. phase' = "clean"
    BY Zenon, <1>5 DEF Abort
  <2> QED
    BY Zenon, <1>0, <2>1, <2>2 DEF SubInv
<1>6. CASE PrepareReady
  <2>1. UNCHANGED <<jobT, sub, tgt, recv>>
    BY Zenon, <1>6 DEF PrepareReady, source, target, records, history, counts
  <2>2. phase = "prepare" /\ (phase' = phase \/ Learns)
    BY Zenon, <1>6, <1>0 DEF PrepareReady, OnSource, PlanInv
  <2> QED
    BY Zenon, <1>0, <2>1, <2>2, NextPhaseType DEF SubInv
<1>7. CASE ResetTarget
  <2>1. UNCHANGED <<phase, sub, recv, jobT>>
    BY Zenon, <1>7 DEF ResetTarget, source, target, records, history, counts
  <2>2. ~sub.made
    BY Zenon, <1>7, <1>0 DEF ResetTarget, SubInv
  <2>3. ~sub.ready
    BY Zenon, <1>0, <1>a, <2>2 DEF SubInv
  <2> QED
    BY Zenon, <1>0, <2>1, <2>3 DEF SubInv
<1>8. CASE
     \/ RestoreSchema \/ RestoreMark
  <2>1. UNCHANGED <<sub, tgt, recv>>
    BY Zenon, <1>8 DEF RestoreSchema, RestoreMark, source, target, records, history, counts
  <2>2. phase = "restore" /\ (jobT' = Idle \/ jobT'.op = "restore") /\ (phase' = phase \/ (Learns /\ jobT' = Idle))
    BY Zenon, <1>8, BeginsTarget, <1>0 DEF RestoreSchema, RestoreMark, OnTarget, Succeeds, EndsT,
       Refuses, Steps, TargetSteps, PlanInv
  <2> QED
    BY Zenon, <1>0, <1>a, <2>1, <2>2, NextPhaseType DEF SubInv
<1>9. CASE RestoreLoad
  <2>1. UNCHANGED <<phase, sub, recv>>
    BY Zenon, <1>9 DEF RestoreLoad, GoesOnT, source, target, records, history, counts
  <2>2. jobT.op = "restore" /\ GoesOnT("mark") /\ tgt' = [tgt EXCEPT !.schema = art]
    BY Zenon, <1>9 DEF RestoreLoad, OnTarget
  <2>3. jobT'.op = "restore"
    BY Zenon, <1>0, <2>2, GoesOnTarget DEF Steps, TargetSteps
  <2>4. tgt'.rows = tgt.rows
    BY Zenon, <1>0, <2>2 DEF Contents
  <2> QED
    BY Zenon, <1>0, <2>1, <2>3, <2>4 DEF SubInv
<1>10. CASE StartSubscription
  <2>1. UNCHANGED <<phase, sub, tgt, recv>>
    BY Zenon, <1>10 DEF StartSubscription, Refuses, source, target, records, history, counts
  <2>2. jobT' = Idle \/ (jobT'.op = "start" /\ jobT'.at = IF sub.made THEN "definition" ELSE "slot")
    BY Zenon, <1>10, BeginsTarget, <1>0 DEF StartSubscription, EndsT, Refuses, Steps, TargetSteps
  <2> QED
    BY Zenon, <1>0, <1>a, <2>1, <2>2 DEF SubInv
<1>11. CASE StartSlot
  <2>1. UNCHANGED <<phase, sub, tgt, recv>>
    BY Zenon, <1>11 DEF StartSlot, Refuses, GoesOnT, source, target, records, history, counts
  <2>2. jobT.op = "start" /\ jobT.at = "slot" /\ (jobT' = Idle \/ (jobT'.op = "start" /\ jobT'.at = "create"))
    BY Zenon, <1>11, GoesOnTarget, <1>0 DEF StartSlot, OnTarget, EndsT, Refuses, Steps, TargetSteps
  <2> QED
    BY Zenon, <1>0, <1>a, <2>1, <2>2 DEF SubInv
<1>12. CASE StartCreate
  <2>1. UNCHANGED <<phase, sub, tgt>>
    BY Zenon, <1>12 DEF StartCreate, Refuses, GoesOnT, source, target, records, history, counts
  <2>2. jobT.op = "start" /\ jobT.at = "create" /\ (jobT' = Idle \/ (jobT'.op = "start" /\ jobT'.at = "commit"))
    BY Zenon, <1>12, GoesOnTarget, <1>0 DEF StartCreate, OnTarget, EndsT, Refuses, Steps, TargetSteps
  <2>3. ~sub.made /\ ~sub.ready
    BY Zenon, <1>0, <1>a, <2>2 DEF SubInv
  <2> QED
    BY Zenon, <1>0, <1>a, <2>1, <2>2, <2>3 DEF SubInv
<1>13. CASE StartCommit
  <2>1. UNCHANGED <<phase, tgt, recv>>
    BY Zenon, <1>13 DEF StartCommit, GoesOnT, source, target, records, history, counts
  <2>2. jobT.op = "start" /\ jobT'.op = "start" /\ jobT'.at = "mark" /\ sub' = NewSub
    BY Zenon, <1>13, GoesOnTarget, <1>0 DEF StartCommit, OnTarget, Steps, TargetSteps
  <2>3. phase = "start"
    BY Zenon, <1>0, <2>2 DEF PlanInv
  <2> QED
    BY Zenon, <1>0, <1>a, <2>1, <2>2, <2>3 DEF SubInv
<1>14. CASE
     \/ StartMark \/ StartDefinition
  <2>1. UNCHANGED <<phase, sub, tgt, recv>>
    BY Zenon, <1>14 DEF StartMark, StartDefinition, GoesOnT, Refuses, source, target, records, history,
       counts
  <2>2. jobT' = Idle \/ (jobT'.op = "start" /\ jobT'.at \in {"definition", "wait"})
    BY Zenon, <1>14, GoesOnTarget, <1>0 DEF StartMark, StartDefinition, OnTarget, EndsT, Refuses, Steps,
       TargetSteps
  <2> QED
    BY Zenon, <1>0, <1>a, <2>1, <2>2 DEF SubInv
<1>15. CASE WaitReads
  <2>1. UNCHANGED <<phase, sub, tgt, recv>>
    BY Zenon, <1>15 DEF WaitReads, source, target, records, history, counts
  <2>2. jobT'.op = "start" /\ jobT'.at = "poll"
    <3>1. jobT.op = "start" /\ jobT' = [jobT EXCEPT !.at = "poll", !.lsn = LSN]
      BY Zenon, <1>15 DEF WaitReads, OnTarget
    <3>2. LSN \in Nat /\ TypeOK
      BY Zenon, <1>0
    <3> QED
      BY <3>1, <3>2, PollRecord, Zenon
  <2> QED
    BY Zenon, <1>0, <2>1, <2>2 DEF SubInv
<1>16. CASE WaitApply
  <2>1. UNCHANGED <<phase, sub, tgt, recv>>
    BY Zenon, <1>16 DEF WaitApply, GoesOnT, Refuses, source, target, records, history, counts
  <2>2. \/ jobT' = Idle
        \/ jobT'.op = "start" /\ jobT'.at = "wait"
        \/ jobT'.op = "start" /\ jobT'.at = "replicating" /\ sub.ready
    BY Zenon, <1>16, GoesOnTarget, <1>0 DEF WaitApply, OnTarget, EndsT, Refuses, Steps, TargetSteps
  <2> QED
    BY Zenon, <1>0, <1>a, <2>1, <2>2 DEF SubInv
<1>17. CASE StartReplicating
  <2>1. UNCHANGED <<sub, tgt, recv>>
    BY Zenon, <1>17 DEF StartReplicating, source, target, records, history, counts
  <2>2. phase = "start" /\ sub.ready /\ jobT' = Idle /\ (phase' = phase \/ Learns)
    BY Zenon, <1>17, <1>0 DEF StartReplicating, OnTarget, Succeeds, EndsT, PlanInv, SubInv
  <2> QED
    BY Zenon, <1>0, <1>a, <2>1, <2>2, NextPhaseType DEF SubInv
<1>18. CASE GiveUp
  <2>1. UNCHANGED <<phase, sub, tgt, recv>>
    BY Zenon, <1>18 DEF GiveUp, Refuses, source, target, records, history, counts
  <2>2. jobT' = Idle
    BY Zenon, <1>18 DEF GiveUp, EndsT, Refuses
  <2> QED
    BY Zenon, <1>0, <1>a, <2>1, <2>2 DEF SubInv
<1>19. CASE FinalizeTarget
  <2>1. UNCHANGED <<phase, sub, tgt, recv>>
    BY Zenon, <1>19 DEF FinalizeTarget, Refuses, source, target, records, history, counts
  <2>2. FinalizeFrom \in {"refused", "verify_again", "recover_verify"} \/ (FinalizeFrom = "enable" /\ sub.made)
    BY Zenon DEF FinalizeFrom, SubscriptionMatches
  <2>3. jobT' = Idle \/ (jobT'.op = "finalize" /\ (jobT'.at \in {"verify_again", "recover_verify"} \/ sub.made))
    BY Zenon, <1>19, <2>2, BeginsTarget, <1>0 DEF FinalizeTarget, EndsT, Refuses, Steps, TargetSteps
  <2> QED
    BY Zenon, <1>0, <1>a, <2>1, <2>3 DEF SubInv, Before
<1>20. CASE
     \/ FinalizeEnable \/ FinalizeDisable
  <2>1. UNCHANGED <<phase, tgt, recv>>
    BY Zenon, <1>20 DEF FinalizeEnable, FinalizeDisable, GoesOnT, source, target, records, history,
       counts
  <2>2. jobT.op = "finalize" /\ jobT.at \in Before /\ jobT'.op = "finalize" /\ jobT'.at \in Before
    BY Zenon, <1>20, GoesOnTarget, <1>0 DEF FinalizeEnable, FinalizeDisable, OnTarget, Steps,
       TargetSteps, Before
  <2>3. sub' \in {sub, [sub EXCEPT !.enabled = TRUE], [sub EXCEPT !.enabled = FALSE]}
    BY Zenon, <1>20 DEF FinalizeEnable, FinalizeDisable
  <2>4. sub.made
    BY Zenon, <1>0, <2>2 DEF SubInv
  <2>5. sub'.made /\ sub'.ready = sub.ready
    BY Zenon, <1>b, <2>3, <2>4 DEF Subscription
  <2>6. phase = "finalize"
    BY Zenon, <1>0, <2>2 DEF PlanInv
  <2> QED
    BY Zenon, <1>0, <2>1, <2>2, <2>4, <2>5, <2>6 DEF SubInv
<1>21. CASE
     \/ WaitFinalLSN \/ FinalizeStop \/ FinalizeVerify
  <2>1. UNCHANGED <<phase, sub, tgt, recv>>
    BY Zenon, <1>21 DEF WaitFinalLSN, FinalizeStop, FinalizeVerify, GoesOnT, Refuses, source, target,
       records, history, counts
  <2>2. jobT.op = "finalize" /\ jobT.at \in Before /\ (jobT' = Idle \/ (jobT'.op = "finalize" /\ jobT'.at \in Before))
    BY Zenon, <1>21, GoesOnTarget, <1>0 DEF WaitFinalLSN, FinalizeStop, FinalizeVerify, OnTarget, EndsT,
       Refuses, Steps, TargetSteps, Before
  <2> QED
    BY Zenon, <1>0, <1>a, <2>1, <2>2 DEF SubInv
<1>22. CASE FinalizeSequences
  <2>1. UNCHANGED <<phase, sub, recv>>
    BY Zenon, <1>22 DEF FinalizeSequences, GoesOnT, source, target, records, history, counts
  <2>2. jobT.op = "finalize" /\ jobT.at \in Before /\ jobT'.op = "finalize" /\ jobT'.at \in Before
    BY Zenon, <1>22, GoesOnTarget, <1>0 DEF FinalizeSequences, OnTarget, Steps, TargetSteps, Before
  <2>3. tgt'.rows = tgt.rows
    BY Zenon, <1>22, <1>0 DEF FinalizeSequences, Contents
  <2> QED
    BY Zenon, <1>0, <2>1, <2>2, <2>3 DEF SubInv
<1>23. CASE
     \/ FinalizePending \/ RecoverVerify
  <2>1. UNCHANGED <<phase, sub, tgt, recv>>
    BY Zenon, <1>23 DEF FinalizePending, RecoverVerify, GoesOnT, source, target, records, history, counts
  <2>2. jobT' = Idle \/ (jobT'.op = "finalize" /\ jobT'.at \in After)
    BY Zenon, <1>23, GoesOnTarget, <1>0 DEF FinalizePending, RecoverVerify, OnTarget, EndsT, Steps,
       TargetSteps, After, Recovering
  <2> QED
    BY Zenon, <1>0, <1>a, <2>1, <2>2 DEF SubInv, Before, After, Recovering
<1>24. CASE
     \/ FinalizeDetach \/ FinalizeDrop \/ RecoverDisable \/ RecoverDetach \/ RecoverDrop
  <2>1. UNCHANGED <<phase, tgt, recv>>
    BY Zenon, <1>24 DEF FinalizeDetach, FinalizeDrop, RecoverDisable, RecoverDetach, RecoverDrop,
       GoesOnT, source, target, records, history, counts
  <2>2. jobT.op = "finalize" /\ jobT'.op = "finalize" /\ jobT'.at \in After
    BY Zenon, <1>24, GoesOnTarget, <1>0 DEF FinalizeDetach, FinalizeDrop, RecoverDisable, RecoverDetach,
       RecoverDrop, OnTarget, Steps, TargetSteps, After, Recovering
  <2>3. sub' = NoSub \/ sub' = sub \/ sub' = [sub EXCEPT !.enabled = FALSE] \/ sub' = [sub EXCEPT !.slot = FALSE]
    BY Zenon, <1>24 DEF FinalizeDetach, FinalizeDrop, RecoverDisable, RecoverDetach, RecoverDrop
  <2>4. sub' = NoSub \/ sub' = sub \/ (sub'.made /\ sub.made /\ sub'.ready = sub.ready)
    <3>1. sub.made \/ sub = NoSub
      BY Zenon, <1>0 DEF SubInv
    <3>2. CASE sub = NoSub
      BY Zenon, <2>3, <3>2 DEF NoSub
    <3>3. CASE sub.made
      BY Zenon, <1>b, <2>3, <3>3 DEF Subscription
    <3> QED
      BY Zenon, <3>1, <3>2, <3>3
  <2>5. phase = "finalize"
    BY Zenon, <1>0, <2>2 DEF PlanInv
  <2> QED
    BY Zenon, <1>0, <1>a, <2>1, <2>2, <2>4, <2>5 DEF SubInv, Before, After, Recovering
<1>25. CASE
     \/ FinalizeDone \/ RecoverDone \/ VerifyAgain
  <2>1. UNCHANGED <<sub, tgt, recv>>
    BY Zenon, <1>25 DEF FinalizeDone, RecoverDone, VerifyAgain, source, target, records, history, counts
  <2>2. phase = "finalize" /\ jobT' = Idle /\ (phase' = phase \/ Learns)
    BY Zenon, <1>25, <1>0 DEF FinalizeDone, RecoverDone, VerifyAgain, OnTarget, Verifies, Succeeds,
       EndsT, PlanInv
  <2> QED
    BY Zenon, <1>0, <1>a, <2>1, <2>2, NextPhaseType DEF SubInv
<1>26. CASE CleanupTarget
  <2>1. UNCHANGED <<phase, sub, tgt, recv>>
    BY Zenon, <1>26 DEF CleanupTarget, source, target, records, history, counts
  <2>2. jobT' = Idle
    BY Zenon, <1>26 DEF CleanupTarget, EndsT
  <2> QED
    BY Zenon, <1>0, <1>a, <2>1, <2>2 DEF SubInv
<1>27. CASE
     \/ (\E kind \in Kinds : Write(kind)) \/ WorkerStarts \/ WorkerStops
     \/ PostgresLogicalSchemaDump \/ PrepareSource \/ PrepareCreate \/ FinalizeSource
     \/ CaptureManifest \/ CaptureLSN \/ CaptureState \/ CleanupSource \/ CleanupSlot
     \/ CleanupPublication \/ CleanupMark
  <2>1. UNCHANGED <<phase, sub, tgt, recv, jobT>>
    BY Zenon, <1>27 DEF Write, WorkerStarts, WorkerStops, PostgresLogicalSchemaDump, PrepareSource,
       PrepareCreate, FinalizeSource, CaptureManifest, CaptureLSN, CaptureState, CleanupSource,
       CleanupSlot, CleanupPublication, CleanupMark, source, target, records, history, counts
  <2> QED
    BY Zenon, <2>1, <1>0 DEF SubInv
<1> QED
  BY ZenonT(40), <1>1, <1>2, <1>3, <1>4, <1>5, <1>6, <1>7, <1>8, <1>9, <1>10, <1>11, <1>12, <1>13, <1>14,
     <1>15, <1>16, <1>17, <1>18, <1>19, <1>20, <1>21, <1>22, <1>23, <1>24, <1>25, <1>26, <1>27 DEF
     Next, Environment, SourcePrimitives, TargetPrimitives

-----------------------------------------------------------------------------
(* Which steps change what *)

LEMMA FinalMoves == ASSUME Next PROVE UNCHANGED final \/ CaptureState
<1>1. CASE CaptureState
  <2> QED
    BY Zenon, <1>1
<1>2. CASE
     \/ (\E kind \in Kinds : Write(kind)) \/ Interference \/ WorkerStarts \/ WorkerStops \/ Copy
     \/ Apply \/ Interrupt \/ Abort \/ PostgresLogicalSchemaDump \/ PrepareSource
     \/ PrepareCreate \/ PrepareReady \/ FinalizeSource
  <2>1. UNCHANGED <<final>>
    BY Zenon, <1>2 DEF Write, Interference, WorkerStarts, WorkerStops, Copy, Apply, Interrupt, Abort,
       PostgresLogicalSchemaDump, PrepareSource, PrepareCreate, PrepareReady, FinalizeSource,
       source, target, records, history, counts
  <2> QED
    BY Zenon, <2>1
<1>3. CASE
     \/ CaptureManifest \/ CaptureLSN \/ CleanupSource \/ CleanupSlot \/ CleanupPublication
     \/ CleanupMark \/ ResetTarget \/ RestoreSchema \/ RestoreLoad \/ RestoreMark
     \/ StartSubscription \/ StartSlot \/ StartCreate
  <2>1. UNCHANGED <<final>>
    BY Zenon, <1>3 DEF CaptureManifest, CaptureLSN, CleanupSource, CleanupSlot, CleanupPublication,
       CleanupMark, ResetTarget, RestoreSchema, RestoreLoad, RestoreMark, StartSubscription,
       StartSlot, StartCreate, source, target, records, history, counts
  <2> QED
    BY Zenon, <2>1
<1>4. CASE
     \/ StartCommit \/ StartMark \/ StartDefinition \/ WaitReads \/ WaitApply \/ StartReplicating
     \/ GiveUp \/ FinalizeTarget \/ FinalizeEnable \/ WaitFinalLSN \/ FinalizeDisable
     \/ FinalizeStop \/ FinalizeSequences
  <2>1. UNCHANGED <<final>>
    BY Zenon, <1>4 DEF StartCommit, StartMark, StartDefinition, WaitReads, WaitApply, StartReplicating,
       GiveUp, FinalizeTarget, FinalizeEnable, WaitFinalLSN, FinalizeDisable, FinalizeStop,
       FinalizeSequences, source, target, records, history, counts
  <2> QED
    BY Zenon, <2>1
<1>5. CASE
     \/ FinalizeVerify \/ FinalizePending \/ FinalizeDetach \/ FinalizeDrop \/ FinalizeDone
     \/ RecoverVerify \/ RecoverDisable \/ RecoverDetach \/ RecoverDrop \/ RecoverDone
     \/ VerifyAgain \/ CleanupTarget
  <2>1. UNCHANGED <<final>>
    BY Zenon, <1>5 DEF FinalizeVerify, FinalizePending, FinalizeDetach, FinalizeDrop, FinalizeDone,
       RecoverVerify, RecoverDisable, RecoverDetach, RecoverDrop, RecoverDone, VerifyAgain,
       CleanupTarget, source, target, records, history, counts
  <2> QED
    BY Zenon, <2>1
<1> QED
  BY Zenon, <1>1, <1>2, <1>3, <1>4, <1>5 DEF Next, Environment, SourcePrimitives, TargetPrimitives

LEMMA VerifiedMoves == ASSUME Next PROVE UNCHANGED verified \/ FinalizeDone \/ RecoverDone \/ VerifyAgain
<1>1. CASE
     \/ FinalizeDone \/ RecoverDone \/ VerifyAgain
  <2> QED
    BY Zenon, <1>1
<1>2. CASE
     \/ (\E kind \in Kinds : Write(kind)) \/ Interference \/ WorkerStarts \/ WorkerStops \/ Copy
     \/ Apply \/ Interrupt \/ Abort \/ PostgresLogicalSchemaDump \/ PrepareSource
     \/ PrepareCreate \/ PrepareReady \/ FinalizeSource
  <2>1. UNCHANGED <<verified>>
    BY Zenon, <1>2 DEF Write, Interference, WorkerStarts, WorkerStops, Copy, Apply, Interrupt, Abort,
       PostgresLogicalSchemaDump, PrepareSource, PrepareCreate, PrepareReady, FinalizeSource,
       source, target, records, history, counts
  <2> QED
    BY Zenon, <2>1
<1>3. CASE
     \/ CaptureManifest \/ CaptureLSN \/ CaptureState \/ CleanupSource \/ CleanupSlot
     \/ CleanupPublication \/ CleanupMark \/ ResetTarget \/ RestoreSchema \/ RestoreLoad
     \/ RestoreMark \/ StartSubscription \/ StartSlot
  <2>1. UNCHANGED <<verified>>
    BY Zenon, <1>3 DEF CaptureManifest, CaptureLSN, CaptureState, CleanupSource, CleanupSlot,
       CleanupPublication, CleanupMark, ResetTarget, RestoreSchema, RestoreLoad, RestoreMark,
       StartSubscription, StartSlot, source, target, records, history, counts
  <2> QED
    BY Zenon, <2>1
<1>4. CASE
     \/ StartCreate \/ StartCommit \/ StartMark \/ StartDefinition \/ WaitReads \/ WaitApply
     \/ StartReplicating \/ GiveUp \/ FinalizeTarget \/ FinalizeEnable \/ WaitFinalLSN
     \/ FinalizeDisable \/ FinalizeStop
  <2>1. UNCHANGED <<verified>>
    BY Zenon, <1>4 DEF StartCreate, StartCommit, StartMark, StartDefinition, WaitReads, WaitApply,
       StartReplicating, GiveUp, FinalizeTarget, FinalizeEnable, WaitFinalLSN, FinalizeDisable,
       FinalizeStop, source, target, records, history, counts
  <2> QED
    BY Zenon, <2>1
<1>5. CASE
     \/ FinalizeSequences \/ FinalizeVerify \/ FinalizePending \/ FinalizeDetach \/ FinalizeDrop
     \/ RecoverVerify \/ RecoverDisable \/ RecoverDetach \/ RecoverDrop \/ CleanupTarget
  <2>1. UNCHANGED <<verified>>
    BY Zenon, <1>5 DEF FinalizeSequences, FinalizeVerify, FinalizePending, FinalizeDetach, FinalizeDrop,
       RecoverVerify, RecoverDisable, RecoverDetach, RecoverDrop, CleanupTarget, source, target,
       records, history, counts
  <2> QED
    BY Zenon, <2>1
<1> QED
  BY Zenon, <1>1, <1>2, <1>3, <1>4, <1>5 DEF Next, Environment, SourcePrimitives, TargetPrimitives

LEMMA TargetMoves ==
  ASSUME Next
  PROVE  UNCHANGED tgt \/ Interference \/ Copy \/ Apply \/ ResetTarget \/ RestoreLoad \/ FinalizeSequences
<1>1. CASE
     \/ Interference \/ Copy \/ Apply \/ ResetTarget \/ RestoreLoad \/ FinalizeSequences
  <2> QED
    BY Zenon, <1>1
<1>2. CASE
     \/ (\E kind \in Kinds : Write(kind)) \/ WorkerStarts \/ WorkerStops \/ Interrupt \/ Abort
     \/ PostgresLogicalSchemaDump \/ PrepareSource \/ PrepareCreate \/ PrepareReady
     \/ FinalizeSource \/ CaptureManifest \/ CaptureLSN
  <2>1. UNCHANGED <<tgt>>
    BY Zenon, <1>2 DEF Write, WorkerStarts, WorkerStops, Interrupt, Abort, PostgresLogicalSchemaDump,
       PrepareSource, PrepareCreate, PrepareReady, FinalizeSource, CaptureManifest, CaptureLSN,
       source, target, records, history, counts
  <2> QED
    BY Zenon, <2>1
<1>3. CASE
     \/ CaptureState \/ CleanupSource \/ CleanupSlot \/ CleanupPublication \/ CleanupMark
     \/ RestoreSchema \/ RestoreMark \/ StartSubscription \/ StartSlot \/ StartCreate
     \/ StartCommit \/ StartMark
  <2>1. UNCHANGED <<tgt>>
    BY Zenon, <1>3 DEF CaptureState, CleanupSource, CleanupSlot, CleanupPublication, CleanupMark,
       RestoreSchema, RestoreMark, StartSubscription, StartSlot, StartCreate, StartCommit,
       StartMark, source, target, records, history, counts
  <2> QED
    BY Zenon, <2>1
<1>4. CASE
     \/ StartDefinition \/ WaitReads \/ WaitApply \/ StartReplicating \/ GiveUp \/ FinalizeTarget
     \/ FinalizeEnable \/ WaitFinalLSN \/ FinalizeDisable \/ FinalizeStop \/ FinalizeVerify
     \/ FinalizePending
  <2>1. UNCHANGED <<tgt>>
    BY Zenon, <1>4 DEF StartDefinition, WaitReads, WaitApply, StartReplicating, GiveUp, FinalizeTarget,
       FinalizeEnable, WaitFinalLSN, FinalizeDisable, FinalizeStop, FinalizeVerify,
       FinalizePending, source, target, records, history, counts
  <2> QED
    BY Zenon, <2>1
<1>5. CASE
     \/ FinalizeDetach \/ FinalizeDrop \/ FinalizeDone \/ RecoverVerify \/ RecoverDisable
     \/ RecoverDetach \/ RecoverDrop \/ RecoverDone \/ VerifyAgain \/ CleanupTarget
  <2>1. UNCHANGED <<tgt>>
    BY Zenon, <1>5 DEF FinalizeDetach, FinalizeDrop, FinalizeDone, RecoverVerify, RecoverDisable,
       RecoverDetach, RecoverDrop, RecoverDone, VerifyAgain, CleanupTarget, source, target,
       records, history, counts
  <2> QED
    BY Zenon, <2>1
<1> QED
  BY Zenon, <1>1, <1>2, <1>3, <1>4, <1>5 DEF Next, Environment, SourcePrimitives, TargetPrimitives

LEMMA SubscriptionMoves ==
  ASSUME Next
  PROVE  \/ UNCHANGED sub \/ Interference \/ Copy \/ StartCommit \/ FinalizeEnable \/ FinalizeDisable
         \/ FinalizeDetach \/ FinalizeDrop \/ RecoverDisable \/ RecoverDetach \/ RecoverDrop
<1>1. CASE
     \/ Interference \/ Copy \/ StartCommit \/ FinalizeEnable \/ FinalizeDisable
     \/ FinalizeDetach \/ FinalizeDrop \/ RecoverDisable \/ RecoverDetach \/ RecoverDrop
  <2> QED
    BY Zenon, <1>1
<1>2. CASE
     \/ (\E kind \in Kinds : Write(kind)) \/ WorkerStarts \/ WorkerStops \/ Apply \/ Interrupt
     \/ Abort \/ PostgresLogicalSchemaDump \/ PrepareSource \/ PrepareCreate \/ PrepareReady
     \/ FinalizeSource \/ CaptureManifest \/ CaptureLSN \/ CaptureState
  <2>1. UNCHANGED <<sub>>
    BY Zenon, <1>2 DEF Write, WorkerStarts, WorkerStops, Apply, Interrupt, Abort,
       PostgresLogicalSchemaDump, PrepareSource, PrepareCreate, PrepareReady, FinalizeSource,
       CaptureManifest, CaptureLSN, CaptureState, source, target, records, history, counts
  <2> QED
    BY Zenon, <2>1
<1>3. CASE
     \/ CleanupSource \/ CleanupSlot \/ CleanupPublication \/ CleanupMark \/ ResetTarget
     \/ RestoreSchema \/ RestoreLoad \/ RestoreMark \/ StartSubscription \/ StartSlot
     \/ StartCreate \/ StartMark \/ StartDefinition \/ WaitReads
  <2>1. UNCHANGED <<sub>>
    BY Zenon, <1>3 DEF CleanupSource, CleanupSlot, CleanupPublication, CleanupMark, ResetTarget,
       RestoreSchema, RestoreLoad, RestoreMark, StartSubscription, StartSlot, StartCreate,
       StartMark, StartDefinition, WaitReads, source, target, records, history, counts
  <2> QED
    BY Zenon, <2>1
<1>4. CASE
     \/ WaitApply \/ StartReplicating \/ GiveUp \/ FinalizeTarget \/ WaitFinalLSN \/ FinalizeStop
     \/ FinalizeSequences \/ FinalizeVerify \/ FinalizePending \/ FinalizeDone \/ RecoverVerify
     \/ RecoverDone \/ VerifyAgain \/ CleanupTarget
  <2>1. UNCHANGED <<sub>>
    BY Zenon, <1>4 DEF WaitApply, StartReplicating, GiveUp, FinalizeTarget, WaitFinalLSN, FinalizeStop,
       FinalizeSequences, FinalizeVerify, FinalizePending, FinalizeDone, RecoverVerify,
       RecoverDone, VerifyAgain, CleanupTarget, source, target, records, history, counts
  <2> QED
    BY Zenon, <2>1
<1> QED
  BY Zenon, <1>1, <1>2, <1>3, <1>4 DEF Next, Environment, SourcePrimitives, TargetPrimitives

LEMMA SourceJobMoves ==
  ASSUME TypeOK, Next, jobS'.op = "finalize", jobS'.at \in {"lsn", "artifact"}
  PROVE  UNCHANGED jobS \/ CaptureManifest \/ CaptureLSN
<1>0. Idle.op = "idle"
  BY Zenon, EmptyRecord
<1>1. CASE
     \/ CaptureManifest \/ CaptureLSN
  <2> QED
    BY Zenon, <1>1
<1>2. CASE
     \/ PrepareSource \/ FinalizeSource \/ CleanupSource
  <2>1. jobS'.at \in {"create", "ready", "inspect", "slot", "publication"}
    BY <1>2 DEF PrepareSource, FinalizeSource, CleanupSource, Begins
  <2> QED
    BY Zenon, <2>1
<1>3. CASE
     \/ PrepareCreate \/ CleanupPublication \/ CleanupSlot
  <2>1. \/ jobS' = Idle
        \/ jobS.op = "prepare" /\ GoesOn("ready")
        \/ jobS.op = "clean" /\ GoesOn("publication")
        \/ jobS.op = "clean" /\ GoesOn("mark")
    BY Zenon, <1>3 DEF PrepareCreate, CleanupPublication, CleanupSlot, OnSource
  <2>2. jobS' = Idle \/ jobS'.at \in {"ready", "publication", "mark"}
    <3>1. CASE jobS.op = "prepare" /\ GoesOn("ready")
      BY <3>1, SourceJobRecord, Zenon DEF GoesOn
    <3>2. CASE jobS.op = "clean" /\ (GoesOn("publication") \/ GoesOn("mark"))
      BY <3>2, SourceJobRecord, Zenon DEF GoesOn
    <3> QED
      BY Zenon, <2>1, <3>1, <3>2
  <2> QED
    BY Zenon, <1>0, <2>2
<1>4. CASE
     \/ PrepareReady \/ CaptureState \/ CleanupMark
  <2>1. jobS' = Idle
    BY Zenon, <1>4 DEF PrepareReady, CaptureState, CleanupMark
  <2> QED
    BY Zenon, <1>0, <2>1
<1>5. CASE Interrupt
  <2>1. jobS' = Idle \/ jobS' = jobS
    BY Zenon, <1>5 DEF Interrupt
  <2> QED
    BY Zenon, <1>0, <2>1
<1>6. CASE
     \/ (\E kind \in Kinds : Write(kind)) \/ Interference \/ WorkerStarts \/ WorkerStops \/ Copy
     \/ Apply \/ Abort \/ PostgresLogicalSchemaDump \/ ResetTarget \/ RestoreSchema
     \/ RestoreLoad \/ RestoreMark \/ StartSubscription \/ StartSlot
  <2>1. UNCHANGED <<jobS>>
    BY Zenon, <1>6 DEF Write, Interference, WorkerStarts, WorkerStops, Copy, Apply, Abort,
       PostgresLogicalSchemaDump, ResetTarget, RestoreSchema, RestoreLoad, RestoreMark,
       StartSubscription, StartSlot, source, target, records, history, counts
  <2> QED
    BY Zenon, <2>1
<1>7. CASE
     \/ StartCreate \/ StartCommit \/ StartMark \/ StartDefinition \/ WaitReads \/ WaitApply
     \/ StartReplicating \/ GiveUp \/ FinalizeTarget \/ FinalizeEnable \/ WaitFinalLSN
     \/ FinalizeDisable \/ FinalizeStop \/ FinalizeSequences
  <2>1. UNCHANGED <<jobS>>
    BY Zenon, <1>7 DEF StartCreate, StartCommit, StartMark, StartDefinition, WaitReads, WaitApply,
       StartReplicating, GiveUp, FinalizeTarget, FinalizeEnable, WaitFinalLSN, FinalizeDisable,
       FinalizeStop, FinalizeSequences, source, target, records, history, counts
  <2> QED
    BY Zenon, <2>1
<1>8. CASE
     \/ FinalizeVerify \/ FinalizePending \/ FinalizeDetach \/ FinalizeDrop \/ FinalizeDone
     \/ RecoverVerify \/ RecoverDisable \/ RecoverDetach \/ RecoverDrop \/ RecoverDone
     \/ VerifyAgain \/ CleanupTarget
  <2>1. UNCHANGED <<jobS>>
    BY Zenon, <1>8 DEF FinalizeVerify, FinalizePending, FinalizeDetach, FinalizeDrop, FinalizeDone,
       RecoverVerify, RecoverDisable, RecoverDetach, RecoverDrop, RecoverDone, VerifyAgain,
       CleanupTarget, source, target, records, history, counts
  <2> QED
    BY Zenon, <2>1
<1> QED
  BY Zenon, <1>1, <1>2, <1>3, <1>4, <1>5, <1>6, <1>7, <1>8 DEF Next, Environment, SourcePrimitives,
     TargetPrimitives

\* A finalization of the target works with one final state from its beginning to its end.
LEMMA FinalizationMoves ==
  ASSUME TypeOK, Next, jobT'.op = "finalize"
  PROVE  \/ jobT.op = "finalize" /\ jobT'.fin = jobT.fin /\ jobT'.row = jobT.row
         \/ FinalizeTarget /\ jobT'.fin = final /\ jobT'.row = sub /\ jobT'.at = FinalizeFrom
<1>0. Idle.op = "idle"
  BY Zenon, EmptyRecord
<1>1. CASE
     \/ RestoreSchema \/ StartSubscription
  <2>1. jobT' = Idle \/ \E op \in {"restore", "start"} : \E at \in TargetSteps(op) : BeginsT(op, at)
    BY Zenon, <1>1 DEF RestoreSchema, StartSubscription, Succeeds, Refuses, EndsT, TargetSteps
  <2>2. jobT' = Idle \/ jobT'.op \in {"restore", "start"}
    BY Zenon, <2>1, BeginsTarget DEF Steps
  <2> QED
    BY Zenon, <1>0, <2>2
<1>2. CASE FinalizeTarget
  <2>1. FinalizeFrom = "refused" \/ FinalizeFrom \in TargetSteps("finalize")
    BY Zenon DEF FinalizeFrom, TargetSteps
  <2>2. jobT' = Idle \/ (FinalizeFrom # "refused" /\ BeginsT("finalize", FinalizeFrom))
    BY Zenon, <1>2 DEF FinalizeTarget, Refuses, EndsT
  <2>3. jobT' = Idle \/ (jobT'.fin = final /\ jobT'.row = sub /\ jobT'.at = FinalizeFrom)
    BY Zenon, <2>1, <2>2, BeginsTarget DEF Steps
  <2> QED
    BY Zenon, <1>2, <1>0, <2>3
<1>3. CASE
     \/ StartMark \/ StartDefinition \/ FinalizePending
  <2>1. jobT' = Idle \/ \E op \in Steps : \E at \in TargetSteps(op) : jobT.op = op /\ GoesOnT(at)
    BY Zenon, <1>3 DEF StartMark, StartDefinition, FinalizePending, OnTarget, Refuses, EndsT, Steps,
       TargetSteps
  <2>2. jobT' = Idle \/ (jobT'.op = jobT.op /\ jobT'.fin = jobT.fin /\ jobT'.row = jobT.row)
    BY Zenon, <2>1, GoesOnTarget
  <2> QED
    BY Zenon, <1>0, <2>2
<1>4. CASE
     \/ RestoreMark \/ StartReplicating \/ FinalizeDone \/ RecoverDone \/ VerifyAgain
     \/ CleanupTarget
  <2>1. jobT' = Idle
    BY Zenon, <1>4 DEF RestoreMark, StartReplicating, FinalizeDone, RecoverDone, VerifyAgain,
       CleanupTarget, Verifies, Succeeds, EndsT
  <2> QED
    BY Zenon, <1>0, <2>1
<1>5. CASE
     \/ RestoreLoad \/ StartSlot \/ StartCreate \/ StartCommit \/ WaitReads \/ WaitApply
     \/ GiveUp \/ FinalizeEnable \/ WaitFinalLSN \/ FinalizeDisable \/ FinalizeStop
     \/ FinalizeSequences \/ FinalizeVerify \/ FinalizeDetach \/ FinalizeDrop \/ RecoverVerify
     \/ RecoverDisable \/ RecoverDetach \/ RecoverDrop
  <2>1. Quiet
    BY Zenon, <1>5 DEF Quiet
  <2> QED
    BY Zenon, <1>0, <2>1, QuietStep
<1>6. CASE Interrupt
  <2>1. jobT' = Idle \/ jobT' = jobT
    BY Zenon, <1>6 DEF Interrupt, EndsT
  <2> QED
    BY Zenon, <1>0, <2>1
<1>7. CASE
     \/ (\E kind \in Kinds : Write(kind)) \/ Interference \/ WorkerStarts \/ WorkerStops \/ Copy
     \/ Apply \/ Abort \/ PostgresLogicalSchemaDump \/ PrepareSource \/ PrepareCreate
  <2>1. UNCHANGED <<jobT>>
    BY Zenon, <1>7 DEF Write, Interference, WorkerStarts, WorkerStops, Copy, Apply, Abort,
       PostgresLogicalSchemaDump, PrepareSource, PrepareCreate, source, target, records, history,
       counts
  <2> QED
    BY Zenon, <2>1
<1>8. CASE
     \/ PrepareReady \/ FinalizeSource \/ CaptureManifest \/ CaptureLSN \/ CaptureState
     \/ CleanupSource \/ CleanupSlot \/ CleanupPublication \/ CleanupMark \/ ResetTarget
  <2>1. UNCHANGED <<jobT>>
    BY Zenon, <1>8 DEF PrepareReady, FinalizeSource, CaptureManifest, CaptureLSN, CaptureState,
       CleanupSource, CleanupSlot, CleanupPublication, CleanupMark, ResetTarget, source, target,
       records, history, counts
  <2> QED
    BY ZenonT(40), <2>1
<1> QED
  BY Zenon, <1>1, <1>2, <1>3, <1>4, <1>5, <1>6, <1>7, <1>8 DEF Next, Environment, SourcePrimitives,
     TargetPrimitives

\* The source only gets more: its log, its schema; and the schema a marker was made for stays.
LEMMA SourceGrows ==
  ASSUME IInv, Next
  PROVE  /\ log' = log \/ \E kind \in Kinds : log' = Append(log, kind) /\ Write(kind)
         /\ schema' = schema \/ (schema = 1 /\ schema' = 2)
         /\ mS # None => mS'.schema = mS.schema
<1>0. TypeOK /\ PlanInv /\ (mS # None => mS \in SourceMarker)
  BY Zenon DEF IInv, TypeOK
<1>1. CASE \E kind \in Kinds : Write(kind)
  <2>1. UNCHANGED <<schema, mS>>
    BY Zenon, <1>1 DEF Write, source, target, records, history, counts
  <2>2. \E kind \in Kinds : log' = Append(log, kind) /\ Write(kind)
    BY Zenon, <1>1 DEF Write
  <2> QED
    BY Zenon, <2>1, <2>2
<1>2. CASE Interference
  <2>1. UNCHANGED <<log, mS>>
    BY Zenon, <1>2 DEF Interference, source, target, records, history, counts
  <2>2. schema' = schema \/ (schema = 1 /\ schema' = 2)
    BY Zenon, <1>2 DEF Interference
  <2> QED
    BY Zenon, <2>1, <2>2
<1>3. CASE PrepareSource
  <2>1. UNCHANGED <<log, schema>>
    BY Zenon, <1>3 DEF PrepareSource, source, target, records, history, counts
  <2>2. mS = None \/ mS' = mS
    BY Zenon, <1>3 DEF PrepareSource
  <2> QED
    BY Zenon, <2>1, <2>2
<1>4. CASE PrepareReady
  <2>1. UNCHANGED <<log, schema>>
    BY Zenon, <1>4 DEF PrepareReady, source, target, records, history, counts
  <2>2. jobS.op = "prepare" /\ (mS' = mS \/ mS' = [st |-> "publication-ready", schema |-> art, pub |-> pub])
    BY Zenon, <1>4 DEF PrepareReady, OnSource
  <2>3. mS.schema = art
    BY Zenon, <1>0, <2>2 DEF PlanInv
  <2> QED
    BY SMTT(30), <2>1, <2>2, <2>3
<1>5. CASE
     \/ CaptureState \/ CleanupMark
  <2>1. UNCHANGED <<log, schema>>
    BY Zenon, <1>5 DEF CaptureState, CleanupMark, source, target, records, history, counts
  <2>2. mS' = [mS EXCEPT !.st = "final-state-captured"] \/ mS' = [mS EXCEPT !.st = "source-cleaned"]
    BY Zenon, <1>5 DEF CaptureState, CleanupMark
  <2>3. mS # None => mS'.schema = mS.schema
    BY Zenon, <1>0, <2>2 DEF SourceMarker
  <2> QED
    BY Zenon, <2>1, <2>3
<1>6. CASE
     \/ WorkerStarts \/ WorkerStops \/ Copy \/ Apply \/ Interrupt \/ Abort
     \/ PostgresLogicalSchemaDump \/ PrepareCreate \/ FinalizeSource \/ CaptureManifest
     \/ CaptureLSN \/ CleanupSource
  <2>1. UNCHANGED <<log, schema, mS>>
    BY Zenon, <1>6 DEF WorkerStarts, WorkerStops, Copy, Apply, Interrupt, Abort,
       PostgresLogicalSchemaDump, PrepareCreate, FinalizeSource, CaptureManifest, CaptureLSN,
       CleanupSource, source, target, records, history, counts
  <2> QED
    BY Zenon, <2>1
<1>7. CASE
     \/ CleanupSlot \/ CleanupPublication \/ ResetTarget \/ RestoreSchema \/ RestoreLoad
     \/ RestoreMark \/ StartSubscription \/ StartSlot \/ StartCreate \/ StartCommit \/ StartMark
     \/ StartDefinition
  <2>1. UNCHANGED <<log, schema, mS>>
    BY Zenon, <1>7 DEF CleanupSlot, CleanupPublication, ResetTarget, RestoreSchema, RestoreLoad,
       RestoreMark, StartSubscription, StartSlot, StartCreate, StartCommit, StartMark,
       StartDefinition, source, target, records, history, counts
  <2> QED
    BY Zenon, <2>1
<1>8. CASE
     \/ WaitReads \/ WaitApply \/ StartReplicating \/ GiveUp \/ FinalizeTarget \/ FinalizeEnable
     \/ WaitFinalLSN \/ FinalizeDisable \/ FinalizeStop \/ FinalizeSequences \/ FinalizeVerify
     \/ FinalizePending
  <2>1. UNCHANGED <<log, schema, mS>>
    BY Zenon, <1>8 DEF WaitReads, WaitApply, StartReplicating, GiveUp, FinalizeTarget, FinalizeEnable,
       WaitFinalLSN, FinalizeDisable, FinalizeStop, FinalizeSequences, FinalizeVerify,
       FinalizePending, source, target, records, history, counts
  <2> QED
    BY Zenon, <2>1
<1>9. CASE
     \/ FinalizeDetach \/ FinalizeDrop \/ FinalizeDone \/ RecoverVerify \/ RecoverDisable
     \/ RecoverDetach \/ RecoverDrop \/ RecoverDone \/ VerifyAgain \/ CleanupTarget
  <2>1. UNCHANGED <<log, schema, mS>>
    BY Zenon, <1>9 DEF FinalizeDetach, FinalizeDrop, FinalizeDone, RecoverVerify, RecoverDisable,
       RecoverDetach, RecoverDrop, RecoverDone, VerifyAgain, CleanupTarget, source, target,
       records, history, counts
  <2> QED
    BY Zenon, <2>1
<1> QED
  BY Zenon, <1>1, <1>2, <1>3, <1>4, <1>5, <1>6, <1>7, <1>8, <1>9 DEF Next, Environment, SourcePrimitives,
     TargetPrimitives

LEMMA CapturedStays ==
  ASSUME IInv, Next, mS # None
  PROVE  \A f \in FinalState : Captured(f) =>
           /\ CapturedIn(f, log', schema', mS'.schema)
           /\ Positioned(f) => f.at <= f.lsn /\ f.lsn <= Len(log')
<1>0. log \in Seq(Kinds) /\ schema \in 1..2
  BY Zenon DEF IInv, TypeOK, Versions
<1>1. SUFFICES ASSUME NEW f \in FinalState, Captured(f)
      PROVE  /\ CapturedIn(f, log', schema', mS'.schema)
             /\ Positioned(f) => f.at <= f.lsn /\ f.lsn <= Len(log')
  BY Zenon
<1>2. f.at \in Nat /\ f.lsn \in Nat /\ f.man.schema \in 0..2
  BY Zenon, FinalRecord
<1>3. mS'.schema = mS.schema /\ (log' = log \/ \E kind \in Kinds : log' = Append(log, kind))
      /\ (schema' = schema \/ (schema = 1 /\ schema' = 2))
  BY Zenon, SourceGrows
<1>4. Len(log') >= Len(log) /\ Len(log) \in Nat /\ Len(log') \in Nat
  BY SMTT(30), <1>0, <1>3
<1>5. f.at \in 0..Len(log) /\ f.at \in 1..Len(log)
  BY SMTT(30), <1>1 DEF Captured, CapturedIn
<1>6. \A kind : Entries(log', kind, f.at) = Entries(log, kind, f.at)
  <2>1. CASE log' = log
    BY Zenon, <2>1
  <2>2. ASSUME NEW kind \in Kinds, log' = Append(log, kind)
        PROVE  \A k : Entries(log', k, f.at) = Entries(log, k, f.at)
    BY Zenon, <1>0, <1>5, <2>2, EntriesStay
  <2> QED
    BY Zenon, <1>3, <2>1, <2>2
<1>7. f.man.schema <= schema'
  BY <1>0, <1>1, <1>2, <1>3 DEF Captured, CapturedIn
<1>8. f.at \in 1..Len(log')
  BY <1>4, <1>5
<1>9. CapturedIn(f, log', schema', mS'.schema)
  BY Zenon, <1>1, <1>3, <1>6, <1>7, <1>8 DEF Captured, CapturedIn
<1>10. Positioned(f) => f.at <= f.lsn /\ f.lsn <= Len(log')
  BY <1>2, <1>4 DEF Positioned, LSN
<1> QED
  BY Zenon, <1>9, <1>10

-----------------------------------------------------------------------------
(* Final states *)

LEMMA FinalNext == ASSUME IInv, Next, TypeOK', PlanInv' PROVE FinalInv'
<1>0. /\ TypeOK /\ PlanInv /\ FinalInv /\ log \in Seq(Kinds) /\ LSN \in Nat /\ LSN >= 1 /\ tgt \in Contents
      /\ (final # None => final \in FinalState) /\ (verified # None => verified \in FinalState)
  <2>1. TypeOK /\ PlanInv /\ FinalInv
    BY Zenon DEF IInv
  <2>2. log \in Seq(Kinds) /\ LSN \in Nat /\ LSN >= 1 /\ tgt \in Contents
    <3>1. log \in Seq(Kinds)
      BY <2>1, Zenon DEF TypeOK
    <3> QED
      BY Zenon, <2>1, <3>1, TypeFacts
  <2>3. (final # None => final \in FinalState) /\ (verified # None => verified \in FinalState)
    BY Zenon, <2>1 DEF TypeOK
  <2> QED
    BY Zenon, <2>1, <2>2, <2>3
<1>a. jobT.op = "finalize" => jobT.fin \in FinalState
  BY Zenon, <1>0, TargetJobRecord DEF PlanInv, Steps
<1>b. jobS.op = "finalize" /\ jobS.at \in {"lsn", "artifact"} => jobS.fin \in FinalState
  BY Zenon, <1>0, SourceJobRecord
<1>c. \A f \in FinalState : mS # None /\ Captured(f) =>
           /\ CapturedIn(f, log', schema', mS'.schema)
           /\ Positioned(f) => f.at <= f.lsn /\ f.lsn <= Len(log')
  BY Zenon, CapturedStays
<1>d. log' = log \/ \E kind \in Kinds : log' = Append(log, kind)
  BY Zenon, SourceGrows
<1>2. final' # None => Captured(final)' /\ Positioned(final)'
  <2>1. CASE UNCHANGED final
    <3>1. final # None => mS # None /\ Captured(final) /\ Positioned(final)
      BY Zenon, <1>0 DEF FinalInv, PlanInv
    <3> QED
      BY Zenon, <1>0, <1>c, <2>1, <3>1 DEF Captured, Positioned, LSN
  <2>2. CASE CaptureState
    <3>1. final' = jobS.fin /\ jobS.op = "finalize" /\ jobS.at = "artifact"
      BY Zenon, <2>2 DEF CaptureState, OnSource
    <3>2. jobS.fin \in FinalState /\ mS # None /\ Captured(jobS.fin) /\ Positioned(jobS.fin)
      BY Zenon, <1>0, <1>b, <3>1 DEF FinalInv, PlanInv
    <3> QED
      BY Zenon, <1>c, <3>1, <3>2 DEF Captured, Positioned, LSN
  <2> QED
    BY Zenon, <2>1, <2>2, FinalMoves
<1>3. jobT.op = "finalize" =>
        /\ CapturedIn(jobT.fin, log', schema', mS'.schema)
        /\ jobT.fin.at <= jobT.fin.lsn /\ jobT.fin.lsn <= Len(log')
  <2>1. jobT.op = "finalize" => Captured(jobT.fin) /\ Positioned(jobT.fin) /\ final # None
    BY Zenon, <1>0 DEF FinalInv, IInv, OrderInv
  <2> QED
    BY Zenon, <1>0, <1>a, <1>c, <2>1 DEF PlanInv
<1>4. verified' # None => Captured(verified)' /\ Positioned(verified)'
  <2>1. CASE UNCHANGED verified
    <3>1. verified # None => mS # None /\ Captured(verified) /\ Positioned(verified)
      BY Zenon, <1>0 DEF FinalInv, PlanInv
    <3> QED
      BY Zenon, <1>0, <1>c, <2>1, <3>1 DEF Captured, Positioned, LSN
  <2>2. CASE FinalizeDone \/ RecoverDone \/ VerifyAgain
    <3>1. jobT.op = "finalize" /\ (verified' = jobT.fin \/ verified' = verified)
      BY Zenon, <2>2 DEF FinalizeDone, RecoverDone, VerifyAgain, OnTarget, Verifies
    <3> QED
      BY Zenon, <1>3, <2>1, <3>1 DEF Captured, Positioned, LSN
  <2> QED
    BY Zenon, <2>1, <2>2, VerifiedMoves
<1>5. jobT'.op = "finalize" => Captured(jobT.fin)' /\ Positioned(jobT.fin)'
  <2>1. ASSUME jobT'.op = "finalize"
        PROVE  (jobT.op = "finalize" /\ jobT'.fin = jobT.fin) \/ (FinalizeTarget /\ jobT'.fin = final)
    BY Zenon, <1>0, <2>1, FinalizationMoves
  <2>2. CASE jobT.op = "finalize" /\ jobT'.fin = jobT.fin
    BY Zenon, <1>3, <2>2 DEF Captured, Positioned, LSN
  <2>3. CASE FinalizeTarget /\ jobT'.fin = final
    <3>1. final # None /\ final' = final
      BY Zenon, <2>3 DEF FinalizeTarget, records
    <3> QED
      BY Zenon, <1>2, <2>3, <3>1 DEF Captured, Positioned, LSN
  <2> QED
    BY Zenon, <2>1, <2>2, <2>3
<1>6. jobS'.op = "finalize" /\ jobS'.at \in {"lsn", "artifact"} =>
        Captured(jobS.fin)' /\ (jobS'.at = "artifact" => Positioned(jobS.fin)')
  <2> SUFFICES ASSUME jobS'.op = "finalize", jobS'.at \in {"lsn", "artifact"}
               PROVE  Captured(jobS.fin)' /\ (jobS'.at = "artifact" => Positioned(jobS.fin)')
    BY Zenon
  <2>1. CASE UNCHANGED jobS
    <3>1. /\ jobS.fin \in FinalState /\ mS # None /\ Captured(jobS.fin)
          /\ jobS.at = "artifact" => Positioned(jobS.fin)
      BY Zenon, <1>0, <1>b, <2>1 DEF FinalInv, PlanInv
    <3> QED
      BY Zenon, <1>c, <2>1, <3>1 DEF Captured, Positioned, LSN
  <2>2. CASE CaptureManifest
    <3>1. /\ jobS'.fin = [schema |-> mS.schema, man |-> SourceManifest, lsn |-> 0, at |-> LSN]
          /\ jobS'.at = "lsn" /\ UNCHANGED <<log, schema, mS>>
      BY Zenon, <2>2 DEF CaptureManifest, source, records
    <3>2. schema \in Nat
      BY SMTT(30), <1>0 DEF TypeOK, Versions
    <3>3. /\ SourceManifest.schema <= schema /\ SourceManifest.foreign = FALSE
          /\ SourceManifest.seen = Entries(log, "seen", LSN) /\ SourceManifest.seq = Entries(log, "sequence", LSN)
      BY <3>2 DEF SourceManifest, Manifest
    <3>4. jobS'.fin.schema = mS.schema /\ jobS'.fin.man = SourceManifest /\ jobS'.fin.at = LSN
      <4>1. jobS'.fin = [schema |-> mS.schema, man |-> SourceManifest, lsn |-> 0, at |-> LSN]
        BY Zenon, <3>1
      <4>2. PICK s, m, a : s = mS.schema /\ m = SourceManifest /\ a = LSN
        BY Zenon
      <4>3. jobS'.fin = [schema |-> s, man |-> m, lsn |-> 0, at |-> a]
        BY Zenon, <4>1, <4>2
      <4>4. jobS'.fin.schema = s /\ jobS'.fin.man = m /\ jobS'.fin.at = a
        BY <4>3
      <4> QED
        BY Zenon, <4>2, <4>4
    <3>5. LSN \in 1..Len(log)
      BY SMTT(30), <1>0 DEF LSN
    <3> QED
      BY Zenon, <3>1, <3>3, <3>4, <3>5 DEF Captured, CapturedIn
  <2>3. CASE CaptureLSN
    <3>1. jobS.op = "finalize" /\ jobS.at = "lsn" /\ jobS' = [jobS EXCEPT !.at = "artifact", !.fin.lsn = LSN] /\ UNCHANGED <<log, schema, mS>>
      BY Zenon, <2>3 DEF CaptureLSN, OnSource, source, records
    <3>2. jobS'.fin = [jobS.fin EXCEPT !.lsn = LSN]
      BY Zenon, <1>0, <3>1, SourceJobRecord
    <3>3. jobS.fin \in FinalState /\ Captured(jobS.fin)
      BY Zenon, <1>0, <1>b, <3>1 DEF FinalInv
    <3>4. /\ jobS'.fin.at = jobS.fin.at /\ jobS'.fin.lsn = LSN /\ jobS'.fin.schema = jobS.fin.schema
          /\ jobS'.fin.man = jobS.fin.man
      BY Zenon, <3>2, <3>3 DEF FinalState
    <3>5. Captured(jobS.fin)'
      BY Zenon, <3>1, <3>3, <3>4 DEF Captured, CapturedIn
    <3>6. jobS'.fin.at <= LSN /\ LSN' = LSN
      BY SMTT(30), <1>0, <3>1, <3>3, <3>4 DEF Captured, CapturedIn, LSN
    <3> QED
      BY <1>0, <3>4, <3>5, <3>6 DEF Positioned
  <2> QED
    BY Zenon, <1>0, <2>1, <2>2, <2>3, SourceJobMoves
<1>7. tgt'.seq \subseteq Entries(log', "sequence", Len(log'))
  <2>0. Entries(log, "sequence", LSN) \subseteq Entries(log', "sequence", LSN')
    <3>1. LSN' \in Nat /\ LSN <= LSN'
      BY <1>0, <1>d DEF LSN
    <3>2. Entries(log', "sequence", LSN) = Entries(log, "sequence", LSN)
      <4>1. CASE log' = log
        BY Zenon, <4>1
      <4>2. ASSUME NEW kind \in Kinds, log' = Append(log, kind)
            PROVE  Entries(log', "sequence", LSN) = Entries(log, "sequence", LSN)
        BY SMTT(30), <1>0, <4>2, EntriesStay DEF LSN
      <4> QED
        BY Zenon, <1>d, <4>1, <4>2
    <3> QED
      BY Zenon, <1>0, <3>1, <3>2, EntriesGrow
  <2>1. tgt.seq \subseteq Entries(log, "sequence", LSN)
    BY Zenon, <1>0 DEF FinalInv
  <2>2. CASE FinalizeSequences
    <3>1. jobT.op = "finalize" /\ tgt' = [tgt EXCEPT !.seq = jobT.fin.man.seq] /\ UNCHANGED log
      BY Zenon, <2>2 DEF FinalizeSequences, OnTarget, source
    <3>2. tgt'.seq = jobT.fin.man.seq
      BY Zenon, <1>0, <3>1 DEF Contents
    <3>3. jobT.fin.at \in Nat /\ jobT.fin.at <= LSN /\ jobT.fin.man.seq = Entries(log, "sequence", jobT.fin.at)
      BY SMTT(30), <1>0, <1>a, <3>1, FinalRecord DEF FinalInv, Captured, CapturedIn, LSN
    <3> QED
      BY <1>0, <3>1, <3>2, <3>3, EntriesGrow DEF LSN
  <2>3. CASE ~FinalizeSequences
    <3>1. tgt'.seq = tgt.seq \/ tgt'.seq = {}
      <4>1. CASE UNCHANGED tgt
        BY Zenon, <4>1
      <4>2. CASE ResetTarget
        BY Zenon, <4>2, EmptyRecord DEF ResetTarget
      <4>3. CASE Interference \/ Copy \/ Apply \/ RestoreLoad
        <5>1. tgt \in Contents
          BY Zenon, <1>0
        <5> QED
          BY Zenon, <4>3, <5>1 DEF Interference, Copy, Apply, RestoreLoad, Contents
      <4> QED
        BY Zenon, <2>3, <4>1, <4>2, <4>3, TargetMoves
    <3> QED
      BY Zenon, <2>0, <2>1, <3>1 DEF LSN
  <2> QED
    BY Zenon, <2>2, <2>3
<1> QED
  BY Zenon, <1>2, <1>4, <1>5, <1>6, <1>7 DEF FinalInv, LSN

-----------------------------------------------------------------------------
(* The order of final states *)

LEMMA OlderTransitive ==
  ASSUME NEW f \in FinalState, NEW g \in FinalState, NEW h \in FinalState, Older(f, g), Older(g, h)
  PROVE  Older(f, h)
<1>1. \A x \in {f, g, h} : x.lsn \in Nat /\ x.man.schema \in Nat
  BY SMTT(30), FinalRecord
<1> QED
  BY SMTT(30), <1>1 DEF Older, NotAfter

LEMMA OlderReflexive ==
  ASSUME NEW f \in FinalState
  PROVE  Older(f, f) /\ Older(FinalDigest(f), f)
<1>1. f.lsn \in Nat /\ f.man.schema \in Nat
  BY SMTT(30), FinalRecord
<1> QED
  BY <1>1, FinalRecord DEF Older, NotAfter

LEMMA OlderDigest ==
  ASSUME NEW f \in FinalState, NEW g \in FinalState, Older(f, g)
  PROVE  Older(FinalDigest(f), g)
BY Zenon, FinalRecord DEF Older

\* What lies between two states with the same digest has it too.
LEMMA OlderBetween ==
  ASSUME NEW f \in FinalState, NEW g \in FinalState, NEW h \in FinalState, Older(f, g), Older(g, h),
         FinalDigest(f) = FinalDigest(h)
  PROVE  FinalDigest(f) = FinalDigest(g)
<1>1. \A x \in {f, g, h} : x.lsn \in Nat /\ x.man.schema \in Nat
  BY SMTT(30), FinalRecord
<1>2. f.schema = h.schema /\ f.man = h.man /\ f.lsn = h.lsn
  BY ZenonT(40), FinalRecord
<1>3. /\ f.schema = g.schema /\ f.lsn = g.lsn /\ f.man.schema = g.man.schema /\ f.man.seen = g.man.seen
      /\ f.man.seq = g.man.seq /\ f.man.foreign = g.man.foreign
  <2>1. /\ f.schema = g.schema /\ f.lsn = g.lsn /\ f.man.schema = g.man.schema
        /\ f.man.foreign = g.man.foreign
    BY SMTT(30), <1>1, <1>2 DEF Older, NotAfter
  <2>2. f.man.seen \subseteq g.man.seen /\ g.man.seen \subseteq f.man.seen
    BY Zenon, <1>2 DEF Older, NotAfter
  <2>3. f.man.seq \subseteq g.man.seq /\ g.man.seq \subseteq f.man.seq
    BY Zenon, <1>2 DEF Older, NotAfter
  <2> QED
    BY <2>1, <2>2, <2>3, Zenon
<1>4. f.man = g.man
  BY Zenon, <1>3, FinalRecord, ManifestEqual
<1> QED
  BY Zenon, <1>3, <1>4, DigestEqual

\* The final state on the marker of the target is set by the verdict alone.
LEMMA MarkMoves ==
  ASSUME TypeOK, PlanInv, Next, mT' # None, mT'.final # None
  PROVE  \/ mT # None /\ mT'.final = mT.final
         \/ FinalizePending /\ mT'.final = FinalDigest(jobT.fin)
<1>0. (mT # None => mT \in TargetMarker) /\ pub \in 0..2
  BY Zenon DEF TypeOK
<1>1. CASE RestoreMark
  <2>1. mT'.final = None
    BY Zenon, <1>1 DEF RestoreMark
  <2> QED
    BY Zenon, <2>1
<1>2. CASE
     \/ StartMark \/ StartReplicating \/ FinalizeDone \/ RecoverDone \/ CleanupTarget
  <2>2. mT' = mT \/ \E st \in TargetStates : mT' = [mT EXCEPT !.st = st]
    BY Zenon, <1>2 DEF StartMark, StartReplicating, FinalizeDone, RecoverDone, CleanupTarget,
       TargetStates
  <2>3. jobT.op \in {"start", "finalize"} \/ mT # None
    BY Zenon, <1>2 DEF StartMark, StartReplicating, FinalizeDone, RecoverDone, CleanupTarget, OnTarget
  <2>4. mT \in TargetMarker
    BY Zenon, <1>0, <2>3 DEF PlanInv
  <2>5. mT'.final = mT.final
    <3>1. CASE \E st \in TargetStates : mT' = [mT EXCEPT !.st = st]
      BY Zenon, <2>4, <3>1 DEF TargetMarker
    <3> QED
      BY Zenon, <2>2, <3>1
  <2> QED
    BY Zenon, <2>4, <2>5, NotNone
<1>3. CASE StartDefinition
  <2>2. jobT.op = "start" /\ (mT' = mT \/ mT' = [mT EXCEPT !.st = "subscription-created", !.pub = pub, !.sub = TRUE])
    BY Zenon, <1>3 DEF StartDefinition, OnTarget
  <2>3. mT \in TargetMarker
    BY Zenon, <1>0, <2>2 DEF PlanInv
  <2>4. mT'.final = mT.final
    BY <1>0, <2>2, <2>3, MarkDefinition, Zenon
  <2> QED
    BY Zenon, <2>3, <2>4, NotNone
<1>4. CASE FinalizePending
  <2>2. jobT.op = "finalize" /\ mT' = [mT EXCEPT !.st = "cleanup-pending", !.final = FinalDigest(jobT.fin)]
    BY Zenon, <1>4 DEF FinalizePending, OnTarget
  <2>3. mT \in TargetMarker /\ FinalDigest(jobT.fin) \in FinalState
    BY Zenon, <1>0, <2>2, TargetJobRecord, FinalRecord DEF PlanInv, Steps
  <2>4. mT'.final = FinalDigest(jobT.fin)
    BY <2>2, <2>3, MarkPending, Zenon
  <2> QED
    BY Zenon, <1>4, <2>4
<1>5. CASE
     \/ (\E kind \in Kinds : Write(kind)) \/ Interference \/ WorkerStarts \/ WorkerStops \/ Copy
     \/ Apply \/ Interrupt \/ Abort \/ PostgresLogicalSchemaDump \/ PrepareSource
     \/ PrepareCreate
  <2>1. UNCHANGED <<mT>>
    BY Zenon, <1>5 DEF Write, Interference, WorkerStarts, WorkerStops, Copy, Apply, Interrupt, Abort,
       PostgresLogicalSchemaDump, PrepareSource, PrepareCreate, source, target, records, history,
       counts
  <2> QED
    BY Zenon, <2>1
<1>6. CASE
     \/ PrepareReady \/ FinalizeSource \/ CaptureManifest \/ CaptureLSN \/ CaptureState
     \/ CleanupSource \/ CleanupSlot \/ CleanupPublication \/ CleanupMark \/ ResetTarget
     \/ RestoreSchema
  <2>1. UNCHANGED <<mT>>
    BY Zenon, <1>6 DEF PrepareReady, FinalizeSource, CaptureManifest, CaptureLSN, CaptureState,
       CleanupSource, CleanupSlot, CleanupPublication, CleanupMark, ResetTarget, RestoreSchema,
       source, target, records, history, counts
  <2> QED
    BY Zenon, <2>1
<1>7. CASE
     \/ RestoreLoad \/ StartSubscription \/ StartSlot \/ StartCreate \/ StartCommit \/ WaitReads
     \/ WaitApply \/ GiveUp \/ FinalizeTarget \/ FinalizeEnable \/ WaitFinalLSN
  <2>1. UNCHANGED <<mT>>
    BY Zenon, <1>7 DEF RestoreLoad, StartSubscription, StartSlot, StartCreate, StartCommit, WaitReads,
       WaitApply, GiveUp, FinalizeTarget, FinalizeEnable, WaitFinalLSN, source, target, records,
       history, counts
  <2> QED
    BY Zenon, <2>1
<1>8. CASE
     \/ FinalizeDisable \/ FinalizeStop \/ FinalizeSequences \/ FinalizeVerify \/ FinalizeDetach
     \/ FinalizeDrop \/ RecoverVerify \/ RecoverDisable \/ RecoverDetach \/ RecoverDrop
     \/ VerifyAgain
  <2>1. UNCHANGED <<mT>>
    BY Zenon, <1>8 DEF FinalizeDisable, FinalizeStop, FinalizeSequences, FinalizeVerify, FinalizeDetach,
       FinalizeDrop, RecoverVerify, RecoverDisable, RecoverDetach, RecoverDrop, VerifyAgain,
       source, target, records, history, counts
  <2> QED
    BY Zenon, <2>1
<1> QED
  BY Zenon, <1>1, <1>2, <1>3, <1>4, <1>5, <1>6, <1>7, <1>8 DEF Next, Environment, SourcePrimitives,
     TargetPrimitives

LEMMA OrderNext == ASSUME IInv, Next, TypeOK' PROVE OrderInv'
<1>0. /\ TypeOK /\ PlanInv /\ FinalInv /\ OrderInv /\ LSN \in Nat
      /\ (final # None => final \in FinalState) /\ (verified # None => verified \in FinalState)
      /\ (mT # None => mT \in TargetMarker) /\ Idle.op = "idle"
  <2>1. TypeOK /\ PlanInv /\ FinalInv /\ OrderInv
    BY Zenon DEF IInv
  <2>2. LSN \in Nat /\ Idle.op = "idle"
    BY Zenon, <2>1, EmptyRecord, TypeFacts
  <2>3. final # None => final \in FinalState
    BY Zenon, <2>1 DEF TypeOK
  <2>4. (verified # None => verified \in FinalState) /\ (mT # None => mT \in TargetMarker)
    BY Zenon, <2>1 DEF TypeOK
  <2> QED
    BY Zenon, <2>1, <2>2, <2>3, <2>4
<1>a. jobT.op = "finalize" => jobT.fin \in FinalState
  BY Zenon, <1>0, TargetJobRecord DEF PlanInv, Steps
<1>b. jobS.op = "finalize" /\ jobS.at \in {"lsn", "artifact"} => jobS.fin \in FinalState
  BY Zenon, <1>0, SourceJobRecord
<1>c. mT # None /\ mT.final # None => mT.final \in FinalState
  BY Zenon, <1>0, TargetMarkerRecord
<1>1. CASE CaptureState
  <2>1. /\ final' = jobS.fin /\ jobS.op = "finalize" /\ jobS.at = "artifact" /\ jobS' = Idle
        /\ UNCHANGED <<mT, jobT, verified>>
    BY Zenon, <1>1 DEF CaptureState, OnSource, history
  <2>2. jobS.fin \in FinalState /\ jobS.fin # None
    BY Zenon, <1>b, <2>1, NotNone
  <2>3. final # None => final.at <= jobS.fin.at /\ Older(final, jobS.fin)
    BY Zenon, <1>0, <2>1 DEF OrderInv
  <2>4. mT # None /\ mT.final # None => Older(mT.final, jobS.fin)
    BY Zenon, <1>0, <1>c, <2>2, <2>3, OlderTransitive DEF OrderInv
  <2>5. jobT.op = "finalize" => jobT.fin.at <= jobS.fin.at /\ Older(jobT.fin, jobS.fin)
    <3>1. ASSUME jobT.op = "finalize"
          PROVE  jobT.fin.at <= jobS.fin.at /\ Older(jobT.fin, jobS.fin)
      <4>1. final # None /\ jobT.fin.at <= final.at /\ Older(jobT.fin, final)
        BY Zenon, <1>0, <3>1 DEF OrderInv
      <4>2. jobT.fin.at \in Nat /\ final.at \in Nat /\ jobS.fin.at \in Nat
        BY Zenon, <1>0, <1>a, <2>2, <3>1, <4>1, FinalRecord
      <4> QED
        BY <1>0, <1>a, <2>2, <2>3, <3>1, <4>1, <4>2, OlderTransitive
    <3> QED
      BY Zenon, <3>1
  <2>6. verified # None => verified.at <= jobS.fin.at
    <3>1. ASSUME verified # None
          PROVE  verified.at <= jobS.fin.at
      <4>1. final # None /\ verified.at <= final.at
        BY Zenon, <1>0, <3>1 DEF OrderInv
      <4>2. verified.at \in Nat /\ final.at \in Nat /\ jobS.fin.at \in Nat
        BY Zenon, <1>0, <2>2, <3>1, <4>1, FinalRecord
      <4> QED
        BY <2>3, <4>1, <4>2
    <3> QED
      BY Zenon, <3>1
  <2> QED
    BY Zenon, <1>0, <2>1, <2>2, <2>4, <2>5, <2>6 DEF OrderInv
<1>2. CASE UNCHANGED final
  <2>1. mT' # None /\ mT'.final # None => final # None /\ Older(mT'.final, final)
    <3>1. ASSUME mT' # None, mT'.final # None, FinalizePending, mT'.final = FinalDigest(jobT.fin)
          PROVE  final # None /\ Older(mT'.final, final)
      <4>1. jobT.op = "finalize"
        BY Zenon, <3>1 DEF FinalizePending, OnTarget
      <4> QED
        BY Zenon, <1>0, <1>a, <3>1, <4>1, OlderDigest DEF OrderInv
    <3> QED
      BY Zenon, <1>0, <3>1, MarkMoves DEF OrderInv
  <2>2. jobT'.op = "finalize" => final # None /\ jobT'.fin.at <= final.at /\ Older(jobT'.fin, final)
    <3>1. ASSUME FinalizeTarget, jobT'.fin = final
          PROVE  final # None /\ jobT'.fin.at <= final.at /\ Older(jobT'.fin, final)
      <4>1. final \in FinalState
        BY Zenon, <1>0, <3>1 DEF FinalizeTarget
      <4>2. final.at \in Nat
        BY Zenon, <4>1, FinalRecord
      <4> QED
        BY SMTT(30), <3>1, <4>1, <4>2, OlderReflexive, NotNone
    <3> QED
      BY Zenon, <1>0, <3>1, FinalizationMoves DEF OrderInv
  <2>3. jobT'.op = "finalize" /\ mT'.final # None /\ mT' # None => Older(mT'.final, jobT'.fin)
    <3> SUFFICES ASSUME jobT'.op = "finalize", mT'.final # None, mT' # None
                 PROVE  Older(mT'.final, jobT'.fin)
      BY Zenon
    <3>1. CASE FinalizePending
      <4>1. jobT.op = "finalize" /\ GoesOnT("detach")
        BY Zenon, <3>1 DEF FinalizePending, OnTarget
      <4>2. jobT'.fin = jobT.fin
        BY Zenon, <1>0, <4>1, GoesOnTarget DEF Steps, TargetSteps
      <4>3. mT' = [mT EXCEPT !.st = "cleanup-pending", !.final = FinalDigest(jobT.fin)]
        BY ZenonT(40), <3>1 DEF FinalizePending
      <4>4. mT \in TargetMarker /\ FinalDigest(jobT.fin) \in FinalState
        BY Zenon, <1>0, <1>a, <4>1, FinalRecord DEF PlanInv
      <4>5. mT'.final = FinalDigest(jobT.fin)
        BY <4>3, <4>4, MarkPending, Zenon
      <4> QED
        BY Zenon, <1>a, <4>1, <4>2, <4>5, OlderReflexive
    <3>2. CASE FinalizeTarget /\ jobT'.fin = final
      <4>1. mT' = mT
        BY Zenon, <3>2 DEF FinalizeTarget, records
      <4> QED
        BY Zenon, <1>0, <3>2, <4>1 DEF OrderInv
    <3>3. CASE ~FinalizePending /\ jobT.op = "finalize" /\ jobT'.fin = jobT.fin
      <4>1. mT # None /\ mT'.final = mT.final
        BY Zenon, <1>0, <3>3, MarkMoves
      <4> QED
        BY Zenon, <1>0, <3>3, <4>1 DEF OrderInv
    <3> QED
      BY Zenon, <1>0, <3>1, <3>2, <3>3, FinalizationMoves
  <2>4. /\ verified' # None => final # None /\ verified'.at <= final.at
        /\ verified' # None /\ jobT'.op = "finalize" => verified'.at <= jobT'.fin.at
    <3>1. CASE UNCHANGED verified
      BY Zenon, <1>0, <3>1, FinalizationMoves DEF OrderInv
    <3>2. CASE ~UNCHANGED verified
      <4>1. verified' = jobT.fin /\ jobT' = Idle /\ jobT.op = "finalize"
        BY Zenon, <3>2, VerifiedMoves DEF FinalizeDone, RecoverDone, VerifyAgain, OnTarget, Verifies, Succeeds, EndsT
      <4> QED
        BY Zenon, <1>0, <4>1 DEF OrderInv
    <3> QED
      BY Zenon, <3>1, <3>2
  <2>5. final # None /\ jobS'.op = "finalize" /\ jobS'.at \in {"lsn", "artifact"} =>
          /\ final.at <= jobS'.fin.at /\ NotAfter(final.man, jobS'.fin.man)
          /\ jobS'.at = "artifact" => Older(final, jobS'.fin)
    <3> SUFFICES ASSUME final # None, jobS'.op = "finalize", jobS'.at \in {"lsn", "artifact"}
                 PROVE  /\ final.at <= jobS'.fin.at /\ NotAfter(final.man, jobS'.fin.man)
                        /\ jobS'.at = "artifact" => Older(final, jobS'.fin)
      BY Zenon
    <3>0. final \in FinalState /\ Captured(final) /\ Positioned(final)
      BY Zenon, <1>0 DEF FinalInv
    <3>1. CASE UNCHANGED jobS
      BY Zenon, <1>0, <3>1 DEF OrderInv
    <3>2. CASE CaptureManifest
      <4>1. /\ jobS'.fin = [schema |-> mS.schema, man |-> SourceManifest, lsn |-> 0, at |-> LSN]
            /\ jobS'.at = "lsn"
        BY Zenon, <3>2 DEF CaptureManifest
      <4>2. jobS'.fin.man = SourceManifest /\ jobS'.fin.at = LSN
        BY SMTT(30), <4>1
      <4>3. final.at \in Nat /\ final.at <= LSN
        BY SMTT(30), <1>0, <3>0, FinalRecord DEF Captured, CapturedIn, LSN
      <4>4. /\ Entries(log, "seen", final.at) \subseteq Entries(log, "seen", LSN)
            /\ Entries(log, "sequence", final.at) \subseteq Entries(log, "sequence", LSN)
        BY Zenon, <1>0, <4>3, EntriesGrow
      <4>5. NotAfter(final.man, SourceManifest)
        <5>1. /\ SourceManifest.schema = schema /\ SourceManifest.foreign = FALSE
              /\ SourceManifest.seen = Entries(log, "seen", LSN) /\ SourceManifest.seq = Entries(log, "sequence", LSN)
          BY Zenon DEF SourceManifest, Manifest
        <5>2. /\ final.man.schema <= schema /\ final.man.foreign = FALSE
              /\ final.man.seen = Entries(log, "seen", final.at) /\ final.man.seq = Entries(log, "sequence", final.at)
          BY Zenon, <3>0 DEF Captured, CapturedIn
        <5>3. final.man.foreign = SourceManifest.foreign
          BY <5>1, <5>2, Zenon
        <5>4. final.man.schema <= SourceManifest.schema /\ final.man.seen \subseteq SourceManifest.seen
          BY Zenon, <4>4, <5>1, <5>2
        <5>5. final.man.seq \subseteq SourceManifest.seq
          BY Zenon, <4>4, <5>1, <5>2
        <5> QED
          BY <5>3, <5>4, <5>5, Zenon DEF NotAfter
      <4> QED
        BY Zenon, <4>1, <4>2, <4>3, <4>5
    <3>3. CASE CaptureLSN
      <4>1. jobS.op = "finalize" /\ jobS.at = "lsn" /\ jobS' = [jobS EXCEPT !.at = "artifact", !.fin.lsn = LSN]
        BY Zenon, <3>3 DEF CaptureLSN, OnSource
      <4>2. jobS'.fin = [jobS.fin EXCEPT !.lsn = LSN]
        BY Zenon, <1>0, <4>1, SourceJobRecord
      <4>3. jobS.fin \in FinalState /\ Captured(jobS.fin)
        BY Zenon, <1>0, <1>b, <4>1 DEF FinalInv
      <4>4. /\ jobS'.fin.at = jobS.fin.at /\ jobS'.fin.lsn = LSN /\ jobS'.fin.schema = jobS.fin.schema
            /\ jobS'.fin.man = jobS.fin.man
        BY Zenon, <4>2, <4>3 DEF FinalState
      <4>5. final.at <= jobS.fin.at /\ NotAfter(final.man, jobS.fin.man)
        BY Zenon, <1>0, <4>1 DEF OrderInv
      <4>6. final.schema = jobS.fin.schema /\ final.lsn <= LSN
        BY Zenon, <3>0, <4>3 DEF Captured, CapturedIn, Positioned
      <4> QED
        BY Zenon, <4>4, <4>5, <4>6 DEF Older
    <3> QED
      BY Zenon, <1>0, <3>1, <3>2, <3>3, SourceJobMoves
  <2>6. jobT'.op = "finalize" => mT' # None
    <3>1. jobT'.op = "finalize" => jobT.op = "finalize" \/ (FinalizeTarget /\ jobT'.at = FinalizeFrom)
      BY Zenon, <1>0, FinalizationMoves
    <3>2. (mT # None => mT' # None)
      BY Zenon, MarkersStay
    <3>3. jobT'.op = "finalize" => jobT'.at \in TargetSteps("finalize")
      BY Zenon, EmptyRecord DEF TypeOK, TargetJob
    <3> QED
      BY Zenon, <1>0, <3>1, <3>2, <3>3 DEF PlanInv, FinalizeFrom, TargetSteps
  <2> QED
    BY Zenon, <1>2, <2>1, <2>2, <2>3, <2>4, <2>5, <2>6 DEF OrderInv
<1> QED
  BY Zenon, <1>1, <1>2, FinalMoves

-----------------------------------------------------------------------------
(* What a finalization achieves *)

LEMMA WorkerMoves == ASSUME Next PROVE UNCHANGED worker \/ WorkerStarts \/ WorkerStops
<1>1. CASE
     \/ WorkerStarts \/ WorkerStops
  <2> QED
    BY Zenon, <1>1
<1>2. CASE
     \/ (\E kind \in Kinds : Write(kind)) \/ Interference \/ Copy \/ Apply \/ Interrupt \/ Abort
     \/ PostgresLogicalSchemaDump \/ PrepareSource \/ PrepareCreate \/ PrepareReady
     \/ FinalizeSource \/ CaptureManifest \/ CaptureLSN
  <2>1. UNCHANGED <<worker>>
    BY Zenon, <1>2 DEF Write, Interference, Copy, Apply, Interrupt, Abort, PostgresLogicalSchemaDump,
       PrepareSource, PrepareCreate, PrepareReady, FinalizeSource, CaptureManifest, CaptureLSN,
       source, target, records, history, counts
  <2> QED
    BY Zenon, <2>1
<1>3. CASE
     \/ CaptureState \/ CleanupSource \/ CleanupSlot \/ CleanupPublication \/ CleanupMark
     \/ ResetTarget \/ RestoreSchema \/ RestoreLoad \/ RestoreMark \/ StartSubscription
     \/ StartSlot \/ StartCreate \/ StartCommit
  <2>1. UNCHANGED <<worker>>
    BY Zenon, <1>3 DEF CaptureState, CleanupSource, CleanupSlot, CleanupPublication, CleanupMark,
       ResetTarget, RestoreSchema, RestoreLoad, RestoreMark, StartSubscription, StartSlot,
       StartCreate, StartCommit, source, target, records, history, counts
  <2> QED
    BY Zenon, <2>1
<1>4. CASE
     \/ StartMark \/ StartDefinition \/ WaitReads \/ WaitApply \/ StartReplicating \/ GiveUp
     \/ FinalizeTarget \/ FinalizeEnable \/ WaitFinalLSN \/ FinalizeDisable \/ FinalizeStop
     \/ FinalizeSequences \/ FinalizeVerify
  <2>1. UNCHANGED <<worker>>
    BY Zenon, <1>4 DEF StartMark, StartDefinition, WaitReads, WaitApply, StartReplicating, GiveUp,
       FinalizeTarget, FinalizeEnable, WaitFinalLSN, FinalizeDisable, FinalizeStop,
       FinalizeSequences, FinalizeVerify, source, target, records, history, counts
  <2> QED
    BY Zenon, <2>1
<1>5. CASE
     \/ FinalizePending \/ FinalizeDetach \/ FinalizeDrop \/ FinalizeDone \/ RecoverVerify
     \/ RecoverDisable \/ RecoverDetach \/ RecoverDrop \/ RecoverDone \/ VerifyAgain
     \/ CleanupTarget
  <2>1. UNCHANGED <<worker>>
    BY Zenon, <1>5 DEF FinalizePending, FinalizeDetach, FinalizeDrop, FinalizeDone, RecoverVerify,
       RecoverDisable, RecoverDetach, RecoverDrop, RecoverDone, VerifyAgain, CleanupTarget,
       source, target, records, history, counts
  <2> QED
    BY Zenon, <2>1
<1> QED
  BY Zenon, <1>1, <1>2, <1>3, <1>4, <1>5 DEF Next, Environment, SourcePrimitives, TargetPrimitives

\* A subscription that is disabled stays so until a finalization enables it.
LEMMA StaysDisabled ==
  ASSUME IInv, Next, phase \in {"finalize", "clean"}, ~sub.enabled, ~FinalizeEnable
  PROVE  ~sub'.enabled
<1>0. PlanInv /\ sub \in Subscription /\ ~NoSub.enabled
  BY Zenon, EmptyRecord DEF IInv, TypeOK
<1>1. ~StartCommit
  BY Zenon, <1>0 DEF StartCommit, OnTarget, PlanInv
<1>2. CASE Interference \/ Copy
  <2>1. sub' \in {sub, [sub EXCEPT !.own = ~@], [sub EXCEPT !.ready = TRUE]}
    BY Zenon, <1>2 DEF Interference, Copy
  <2> QED
    BY Zenon, <1>0, <2>1 DEF Subscription
<1>3. CASE FinalizeDisable \/ FinalizeDetach \/ RecoverDisable \/ RecoverDetach
  <2>1. sub' \in {sub, [sub EXCEPT !.enabled = FALSE], [sub EXCEPT !.slot = FALSE]}
    BY Zenon, <1>3 DEF FinalizeDisable, FinalizeDetach, RecoverDisable, RecoverDetach
  <2> QED
    BY Zenon, <1>0, <2>1 DEF Subscription
<1>4. CASE FinalizeDrop \/ RecoverDrop
  BY Zenon, <1>0, <1>4 DEF FinalizeDrop, RecoverDrop
<1> QED
  BY Zenon, <1>1, <1>2, <1>3, <1>4, SubscriptionMoves

\* In these phases the rows of the target only get more, and only a finalization sets its sequences.
LEMMA RowsGrow ==
  ASSUME IInv, Next, phase \in {"finalize", "clean"}
  PROVE  /\ tgt.rows \in Nat /\ tgt'.rows \in Nat /\ tgt'.rows >= tgt.rows /\ (tgt.foreign => tgt'.foreign)
         /\ FinalizeSequences \/ tgt'.seq = tgt.seq
         /\ worker \/ tgt'.rows = tgt.rows
         /\ tgt'.schema = tgt.schema
<1>0. PlanInv /\ LSN \in Nat /\ recv \in Nat
  <2>1. TypeOK /\ PlanInv
    BY Zenon DEF IInv
  <2> QED
    BY Zenon, <2>1, TypeFacts
<1>a. tgt \in Contents
  BY Zenon DEF IInv, TypeOK
<1>b. tgt.rows \in Nat /\ tgt.rows <= LSN
  <2>1. tgt.rows \in Nat
    BY Zenon, <1>a DEF Contents
  <2> QED
    BY Zenon, <2>1 DEF IInv, TypeOK
<1>1. ~ResetTarget /\ ~RestoreLoad
  BY Zenon, <1>0 DEF ResetTarget, RestoreLoad, OnTarget, PlanInv
<1>2. CASE UNCHANGED tgt
  BY SMTT(30), <1>b, <1>2
<1>3. CASE Interference
  <2>1. tgt' = tgt \/ tgt' = [tgt EXCEPT !.foreign = TRUE]
    BY Zenon, <1>3 DEF Interference
  <2>2. tgt'.rows = tgt.rows /\ tgt'.seq = tgt.seq /\ (tgt.foreign => tgt'.foreign) /\ tgt'.schema = tgt.schema
    BY Zenon, <1>a, <2>1 DEF Contents
  <2> QED
    BY <1>b, <2>2
<1>4. CASE Copy
  <2>1. tgt' = [tgt EXCEPT !.rows = LSN] /\ worker
    BY Zenon, <1>4 DEF Copy
  <2>2. tgt'.rows = LSN /\ tgt'.seq = tgt.seq /\ tgt'.foreign = tgt.foreign /\ tgt'.schema = tgt.schema
    BY Zenon, <1>a, <2>1 DEF Contents
  <2> QED
    BY Zenon, <1>0, <1>b, <2>1, <2>2
<1>5. CASE Apply
  <2>1. worker /\ recv' = recv + 1 /\ (tgt' = tgt \/ (recv' > tgt.rows /\ tgt' = [tgt EXCEPT !.rows = recv']))
    BY Zenon, <1>5 DEF Apply
  <2>2. CASE tgt' = tgt
    BY <1>b, <2>2
  <2>3. CASE recv' > tgt.rows /\ tgt' = [tgt EXCEPT !.rows = recv']
    <3>1. tgt'.rows = recv' /\ tgt'.seq = tgt.seq /\ tgt'.foreign = tgt.foreign /\ tgt'.schema = tgt.schema
      BY Zenon, <1>a, <2>3 DEF Contents
    <3> QED
      BY <1>0, <1>b, <2>1, <2>3, <3>1
  <2> QED
    BY Zenon, <2>1, <2>2, <2>3
<1>6. CASE FinalizeSequences
  <2>1. tgt' = [tgt EXCEPT !.seq = jobT.fin.man.seq]
    BY Zenon, <1>6 DEF FinalizeSequences
  <2>2. tgt'.rows = tgt.rows /\ tgt'.foreign = tgt.foreign /\ tgt'.schema = tgt.schema
    BY Zenon, <1>a, <2>1 DEF Contents
  <2> QED
    BY <1>6, <1>b, <2>2
<1> QED
  BY Zenon, <1>1, <1>2, <1>3, <1>4, <1>5, <1>6, TargetMoves

\* Without an apply worker, and with nothing to start one, the target is not touched.
LEMMA NothingApplies ==
  ASSUME IInv, Next, phase \in {"finalize", "clean"}, ~worker, ~sub.enabled, ~FinalizeEnable, ~FinalizeSequences
  PROVE  /\ ~worker' /\ ~sub'.enabled /\ tgt'.rows = tgt.rows
         /\ ~tgt'.foreign => ~tgt.foreign /\ TargetManifest' = TargetManifest
<1>1. ~worker'
  <2>1. ~WorkerStarts
    BY Zenon DEF WorkerStarts
  <2>2. WorkerStops => worker' = FALSE
    BY Zenon DEF WorkerStops
  <2> QED
    BY <2>1, <2>2, WorkerMoves, Zenon
<1>2. ~sub'.enabled
  BY Zenon, StaysDisabled
<1>3. tgt'.rows = tgt.rows /\ tgt'.seq = tgt.seq /\ tgt'.schema = tgt.schema /\ (tgt.foreign => tgt'.foreign)
  BY Zenon, RowsGrow
<1>4. log \in Seq(Kinds) /\ tgt \in Contents /\ tgt.rows <= Len(log)
  BY Zenon DEF IInv, TypeOK, LSN
<1>5. tgt.rows \in 0..Len(log) /\ tgt.foreign \in BOOLEAN
  BY <1>4 DEF Contents
<1>6. Entries(log', "seen", tgt.rows) = Entries(log, "seen", tgt.rows)
  <2>1. CASE log' = log
    BY Zenon, <2>1
  <2>2. ASSUME NEW kind \in Kinds, log' = Append(log, kind)
        PROVE  Entries(log', "seen", tgt.rows) = Entries(log, "seen", tgt.rows)
    BY Zenon, <1>4, <1>5, <2>2, EntriesStay
  <2> QED
    BY Zenon, <2>1, <2>2, SourceGrows
<1>7. ASSUME ~tgt'.foreign
      PROVE  ~tgt.foreign /\ TargetManifest' = TargetManifest
  <2>1. tgt' = tgt \/ (Interference /\ tgt'.foreign)
    <3>1. ~Copy /\ ~Apply /\ ~ResetTarget /\ ~RestoreLoad
      BY Zenon DEF Copy, Apply, ResetTarget, RestoreLoad, OnTarget, IInv, PlanInv
    <3>2. Interference => tgt' = tgt \/ tgt'.foreign
      <4>1. Interference => tgt' = tgt \/ tgt' = [tgt EXCEPT !.foreign = TRUE]
        BY Zenon DEF Interference
      <4> QED
        BY Zenon, <1>4, <4>1 DEF Contents
    <3> QED
      BY Zenon, <3>1, <3>2, TargetMoves
  <2> QED
    BY Zenon, <1>3, <1>6, <1>7, <2>1 DEF TargetManifest, Manifest
<1> QED
  BY Zenon, <1>1, <1>2, <1>3, <1>7

\* The steps of a finalization.
LEMMA StepMoves ==
  ASSUME TypeOK, Next, jobT.op = "finalize", jobT'.op = "finalize"
  PROVE  \/ UNCHANGED <<jobT, mT>> /\ ~FinalizeEnable /\ ~FinalizeSequences
         \/ FinalizeEnable \/ WaitFinalLSN \/ FinalizeDisable \/ FinalizeStop \/ FinalizeSequences
         \/ FinalizeVerify \/ FinalizePending \/ FinalizeDetach \/ FinalizeDrop
         \/ RecoverVerify \/ RecoverDisable \/ RecoverDetach \/ RecoverDrop
<1>0. Idle.op = "idle"
  BY Zenon, EmptyRecord
<1>1. CASE
     \/ FinalizeEnable \/ WaitFinalLSN \/ FinalizeDisable \/ FinalizeStop \/ FinalizeSequences
     \/ FinalizeVerify \/ FinalizePending \/ FinalizeDetach \/ FinalizeDrop \/ RecoverVerify
     \/ RecoverDisable \/ RecoverDetach \/ RecoverDrop
  <2> QED
    BY Zenon, <1>1
<1>2. CASE
     \/ FinalizeDone \/ RecoverDone \/ VerifyAgain \/ CleanupTarget \/ GiveUp \/ RestoreMark
     \/ StartReplicating
  <2>1. jobT' = Idle
    BY Zenon, <1>2 DEF FinalizeDone, RecoverDone, VerifyAgain, CleanupTarget, GiveUp, RestoreMark,
       StartReplicating, Verifies, Succeeds, Refuses, EndsT
  <2> QED
    BY Zenon, <1>0, <2>1
<1>3. CASE
     \/ RestoreLoad \/ StartSlot \/ StartCreate \/ StartCommit \/ StartMark \/ StartDefinition
     \/ WaitReads \/ WaitApply
  <2>1. jobT.op \in {"restore", "start"}
    BY Zenon, <1>3 DEF RestoreLoad, StartSlot, StartCreate, StartCommit, StartMark, StartDefinition,
       WaitReads, WaitApply, OnTarget
  <2> QED
    BY Zenon, <2>1
<1>4. CASE
     \/ ResetTarget \/ RestoreSchema \/ StartSubscription \/ FinalizeTarget
  <2>1. jobT = Idle
    BY Zenon, <1>4 DEF ResetTarget, RestoreSchema, StartSubscription, FinalizeTarget, BeginsT
  <2> QED
    BY Zenon, <1>0, <2>1
<1>5. CASE Interrupt
  <2>1. UNCHANGED <<mT>>
    BY Zenon, <1>5 DEF Interrupt, source, target, records, history, counts
  <2>2. jobT' = Idle \/ jobT' = jobT
    BY Zenon, <1>5 DEF Interrupt, EndsT
  <2> QED
    BY Zenon, <1>0, <2>1, <2>2
<1>6. CASE
     \/ (\E kind \in Kinds : Write(kind)) \/ Interference \/ WorkerStarts \/ WorkerStops \/ Copy
     \/ Apply \/ Abort \/ PostgresLogicalSchemaDump \/ PrepareSource \/ PrepareCreate
  <2>1. UNCHANGED <<jobT, mT>>
    BY Zenon, <1>6 DEF Write, Interference, WorkerStarts, WorkerStops, Copy, Apply, Abort,
       PostgresLogicalSchemaDump, PrepareSource, PrepareCreate, source, target, records, history,
       counts
  <2> QED
    BY Zenon, <2>1
<1>7. CASE
     \/ PrepareReady \/ FinalizeSource \/ CaptureManifest \/ CaptureLSN \/ CaptureState
     \/ CleanupSource \/ CleanupSlot \/ CleanupPublication \/ CleanupMark
  <2>1. UNCHANGED <<jobT, mT>>
    BY Zenon, <1>7 DEF PrepareReady, FinalizeSource, CaptureManifest, CaptureLSN, CaptureState,
       CleanupSource, CleanupSlot, CleanupPublication, CleanupMark, source, target, records,
       history, counts
  <2> QED
    BY Zenon, <2>1
<1> QED
  BY ZenonT(40), <1>1, <1>2, <1>3, <1>4, <1>5, <1>6, <1>7 DEF Next, Environment, SourcePrimitives,
     TargetPrimitives

LEMMA StepNext == ASSUME IInv, Next, TypeOK', PlanInv' PROVE StepInv'
<1>0. /\ TypeOK /\ PlanInv /\ SubInv /\ FinalInv /\ OrderInv /\ StepInv /\ VerdictInv /\ recv \in Nat
      /\ (final # None => final \in FinalState) /\ (mT # None => mT \in TargetMarker)
  <2>1. TypeOK /\ PlanInv /\ SubInv /\ FinalInv /\ OrderInv /\ StepInv /\ VerdictInv
    BY Zenon DEF IInv
  <2>2. recv \in Nat
    BY Zenon, <2>1, TypeFacts
  <2>3. (final # None => final \in FinalState) /\ (mT # None => mT \in TargetMarker)
    BY Zenon, <2>1 DEF TypeOK
  <2> QED
    BY Zenon, <2>1, <2>2, <2>3
<1>a. jobT.op = "finalize" => jobT.fin \in FinalState
  BY Zenon, <1>0, TargetJobRecord DEF PlanInv, Steps
<1>b. tgt.rows \in Nat
  <2>1. tgt \in Contents
    BY Zenon, <1>0 DEF TypeOK
  <2> QED
    BY Zenon, <2>1 DEF Contents
<1> SUFFICES ASSUME jobT'.op = "finalize"
             PROVE  StepInv'
  BY Zenon DEF StepInv
<1> DEFINE B(at) == at \in Before => ~(mT'.st \in Verdicts /\ mT'.final = FinalDigest(jobT'.fin))
           R(at) == at \in {"disable", "stop", "sequences", "verify"} => tgt'.rows >= jobT'.fin.lsn
           D(at) == at \in {"stop", "sequences", "verify"} => ~sub'.enabled
           W(at) == at \in {"sequences", "verify"} => ~worker'
           K == /\ ~worker' /\ ~sub'.enabled /\ tgt'.rows >= jobT'.fin.lsn
                /\ ~tgt'.foreign => TargetManifest' = jobT'.fin.man
           A(at) == /\ at \in {"pending"} \cup After => K
                    /\ at \in After => mT'.final = FinalDigest(jobT'.fin)
                    /\ at \in {"detach", "drop", "done"} \cup Recovering => mT'.st = "cleanup-pending"
                    /\ at = "verify_again" => mT'.st = "finalized"
<1>1. SUFFICES B(jobT'.at) /\ R(jobT'.at) /\ D(jobT'.at) /\ W(jobT'.at) /\ A(jobT'.at)
  BY Zenon DEF StepInv, Kept, TargetManifest
<1> HIDE DEF B, R, D, W, K, A
<1>2. CASE FinalizeTarget /\ jobT'.fin = final /\ jobT'.at = FinalizeFrom
  <2>1. /\ UNCHANGED <<mT, worker, sub, tgt, log>> /\ phase = "finalize" /\ final # None
        /\ FinalizeFrom \in {"enable", "recover_verify", "verify_again"}
    <3>1. FinalizeFrom # "refused"
      BY Zenon, <1>2, EmptyRecord DEF FinalizeTarget, Refuses, EndsT
    <3> QED
      BY Zenon, <1>2, <3>1 DEF FinalizeTarget, FinalizeFrom, records, source, target
  <2>2. CASE FinalizeFrom = "enable"
    <3>1. ~Recorded("finalized") /\ ~Recorded("cleanup-pending")
      BY Zenon, <2>2 DEF FinalizeFrom
    <3>2. B("enable")
      BY Zenon, <1>2, <2>1, <3>1 DEF B, Recorded, Verdicts
    <3> QED
      BY Zenon, <1>2, <2>2, <3>2 DEF R, D, W, A, After, Recovering
  <2>3. CASE FinalizeFrom \in {"recover_verify", "verify_again"}
    <3>1. /\ mT # None /\ mT.final = FinalDigest(final)
          /\ FinalizeFrom = "recover_verify" => mT.st = "cleanup-pending"
          /\ FinalizeFrom = "verify_again" => mT.st = "finalized"
      BY Zenon, <2>3 DEF FinalizeFrom, Recorded
    <3>2. Kept(mT.final)
      BY Zenon, <1>0, <2>3, <3>1 DEF VerdictInv, Verdicts
    <3>3. mT.final.lsn = final.lsn /\ mT.final.man = final.man
      BY Zenon, <1>0, <2>1, <3>1, FinalRecord
    <3>4. K
      BY Zenon, <1>2, <2>1, <3>2, <3>3 DEF K, Kept, TargetManifest, Manifest
    <3> QED
      BY Zenon, <1>2, <2>1, <2>3, <3>1, <3>4 DEF B, R, D, W, A, Before, After, Recovering
  <2> QED
    BY Zenon, <2>1, <2>2, <2>3
<1>3. CASE jobT.op = "finalize" /\ jobT'.fin = jobT.fin
  <2>0. /\ phase = "finalize" /\ jobT.fin \in FinalState /\ jobT.fin.lsn \in Nat /\ mT \in TargetMarker
        /\ tgt'.rows \in Nat /\ tgt'.rows >= tgt.rows
    BY Zenon, <1>0, <1>3, <1>a, FinalRecord, RowsGrow DEF PlanInv
  <2>K. Kept(jobT.fin) /\ ~FinalizeEnable /\ ~FinalizeSequences => K
    <3>1. ASSUME Kept(jobT.fin), ~FinalizeEnable, ~FinalizeSequences
          PROVE  K
      <4>1. ~worker /\ ~sub.enabled /\ tgt.rows >= jobT.fin.lsn /\ (~tgt.foreign => TargetManifest = jobT.fin.man)
        BY Zenon, <3>1 DEF Kept
      <4>2. /\ ~worker' /\ ~sub'.enabled /\ tgt'.rows = tgt.rows
            /\ ~tgt'.foreign => ~tgt.foreign /\ TargetManifest' = TargetManifest
        BY Zenon, <2>0, <3>1, <4>1, NothingApplies
      <4> QED
        BY Zenon, <1>3, <4>1, <4>2 DEF K
    <3> QED
      BY Zenon, <3>1
  <2>S. /\ jobT.at \in {"stop", "sequences", "verify"} => ~sub.enabled
        /\ jobT.at \in {"disable", "stop", "sequences", "verify"} => tgt.rows >= jobT.fin.lsn
        /\ jobT.at \in {"sequences", "verify"} => ~worker
        /\ jobT.at \in {"pending"} \cup After => Kept(jobT.fin)
        /\ jobT.at \in After => mT.final = FinalDigest(jobT.fin)
        /\ jobT.at \in {"detach", "drop", "done"} \cup Recovering => mT.st = "cleanup-pending"
        /\ jobT.at = "verify_again" => mT.st = "finalized"
        /\ jobT.at \in Before => ~(mT.st \in Verdicts /\ mT.final = FinalDigest(jobT.fin))
    BY Zenon, <1>0, <1>3 DEF StepInv
  <2>R. jobT.at \in {"disable", "stop", "sequences", "verify"} => tgt'.rows >= jobT'.fin.lsn
    BY SMTT(30), <1>3, <1>b, <2>0, <2>S
  <2>D. ~sub.enabled /\ ~FinalizeEnable => ~sub'.enabled
    BY Zenon, <2>0, StaysDisabled
  <2>W. ~worker /\ ~sub.enabled => ~worker'
    <3>1. ~sub.enabled => ~WorkerStarts
      BY Zenon DEF WorkerStarts
    <3>2. WorkerStops => worker' = FALSE
      BY Zenon DEF WorkerStops
    <3> QED
      BY <3>1, <3>2, WorkerMoves, Zenon
  <2>1. CASE UNCHANGED <<jobT, mT>> /\ ~FinalizeEnable /\ ~FinalizeSequences
    <3>1. B(jobT'.at)
      BY Zenon, <2>1, <2>S DEF B
    <3>2. R(jobT'.at) /\ D(jobT'.at)
      BY Zenon, <2>1, <2>S, <2>R, <2>D DEF R, D
    <3>3. W(jobT'.at)
      BY Zenon, <2>1, <2>S, <2>W DEF W
    <3>4. A(jobT'.at)
      BY Zenon, <2>1, <2>S, <2>K DEF A
    <3> QED
      BY Zenon, <3>1, <3>2, <3>3, <3>4
  <2>2. CASE FinalizeEnable
    <3>1. jobT.at = "enable" /\ jobT'.at = "catch_up" /\ mT' = mT
      BY Zenon, <1>0, <1>3, <2>2, GoesOnTarget DEF FinalizeEnable, OnTarget, Steps, TargetSteps, records
    <3> QED
      BY Zenon, <1>3, <2>S, <3>1 DEF B, R, D, W, A, Before, After, Recovering
  <2>3. CASE WaitFinalLSN
    <3>1. jobT.at = "catch_up" /\ recv >= jobT.fin.lsn /\ mT' = mT /\ jobT'.at = "disable"
      <4>1. jobT' # Idle
        BY Zenon, EmptyRecord
      <4>2. jobT.at = "catch_up" /\ recv >= jobT.fin.lsn /\ GoesOnT("disable") /\ mT' = mT
        BY Zenon, <2>3, <4>1 DEF WaitFinalLSN, OnTarget, Refuses, EndsT, records
      <4> QED
        BY ZenonT(40), <1>0, <1>3, <4>2, GoesOnTarget DEF Steps, TargetSteps
    <3>2. tgt.rows >= recv
      BY Zenon, <1>0, <1>3, <2>0, <3>1 DEF SubInv, Before
    <3>3. tgt'.rows >= jobT'.fin.lsn
      BY <1>0, <1>3, <1>b, <2>0, <3>1, <3>2
    <3>4. B("disable")
      BY Zenon, <1>3, <2>S, <3>1 DEF B, Before
    <3> QED
      BY Zenon, <3>1, <3>3, <3>4 DEF R, D, W, A, After, Recovering
  <2>4. CASE FinalizeDisable
    <3>1. jobT.at = "disable" /\ jobT'.at = "stop" /\ mT' = mT /\ sub' = [sub EXCEPT !.enabled = FALSE]
      BY Zenon, <1>0, <1>3, <2>4, GoesOnTarget DEF FinalizeDisable, OnTarget, Steps, TargetSteps, records
    <3>2. ~sub'.enabled
      <4>1. sub \in Subscription
        BY Zenon, <1>0 DEF TypeOK
      <4> QED
        BY Zenon, <3>1, <4>1 DEF Subscription
    <3>3. tgt'.rows >= jobT'.fin.lsn
      BY Zenon, <2>R, <3>1
    <3>4. B("stop")
      BY Zenon, <1>3, <2>S, <3>1 DEF B, Before
    <3> QED
      BY Zenon, <3>1, <3>2, <3>3, <3>4 DEF R, D, W, A, After, Recovering
  <2>5. CASE FinalizeStop \/ FinalizeSequences
    <3>1. /\ jobT.at \in {"stop", "sequences"} /\ jobT'.at \in {"sequences", "verify"}
          /\ UNCHANGED <<mT, worker, sub>>
          /\ jobT.at = "stop" => ~worker
      BY Zenon, <1>0, <1>3, <2>5, GoesOnTarget DEF FinalizeStop, FinalizeSequences, OnTarget, Steps, TargetSteps, records, target
    <3>2. ~sub'.enabled /\ ~worker' /\ tgt'.rows >= jobT'.fin.lsn
      BY Zenon, <2>S, <2>R, <3>1
    <3>3. B(jobT'.at)
      BY Zenon, <1>3, <2>S, <3>1 DEF B, Before
    <3> QED
      BY Zenon, <3>1, <3>2, <3>3 DEF R, D, W, A, After, Recovering
  <2>6. CASE FinalizeVerify
    <3>1. /\ jobT.at = "verify" /\ jobT'.at = "pending" /\ InspectionMatches
          /\ UNCHANGED <<mT, worker, sub, tgt, log>>
      <4>1. jobT' # Idle
        BY Zenon, EmptyRecord
      <4>2. jobT.at = "verify" /\ InspectionMatches /\ GoesOnT("pending") /\ UNCHANGED <<mT, worker, sub, tgt, log>>
        BY Zenon, <2>6, <4>1 DEF FinalizeVerify, OnTarget, Refuses, EndsT, records, target, source
      <4> QED
        BY Zenon, <1>0, <1>3, <4>2, GoesOnTarget DEF Steps, TargetSteps
    <3>2. K
      BY Zenon, <1>3, <2>S, <3>1 DEF K, InspectionMatches, TargetManifest, Manifest
    <3>3. B("pending")
      BY Zenon, <1>3, <2>S, <3>1 DEF B, Before
    <3> QED
      BY Zenon, <3>1, <3>2, <3>3 DEF R, D, W, A, After, Recovering
  <2>7. CASE FinalizePending
    <3>1. /\ jobT.at = "pending" /\ jobT'.at = "detach"
          /\ mT' = [mT EXCEPT !.st = "cleanup-pending", !.final = FinalDigest(jobT.fin)]
      BY Zenon, <1>0, <1>3, <2>7, GoesOnTarget DEF FinalizePending, OnTarget, Steps, TargetSteps
    <3>2. FinalDigest(jobT.fin) \in FinalState
      BY Zenon, <2>0, FinalRecord
    <3>3. mT'.st = "cleanup-pending" /\ mT'.final = FinalDigest(jobT.fin)
      BY <2>0, <3>1, <3>2, MarkPending, Zenon
    <3>4. ~FinalizeEnable /\ ~FinalizeSequences
      BY Zenon, <3>1 DEF FinalizeEnable, FinalizeSequences, OnTarget
    <3>5. K
      BY Zenon, <2>S, <2>K, <3>1, <3>4
    <3> QED
      BY Zenon, <1>3, <3>1, <3>3, <3>5 DEF B, R, D, W, A, Before, After, Recovering
  <2>8. CASE FinalizeDetach \/ FinalizeDrop \/ RecoverVerify \/ RecoverDisable \/ RecoverDetach \/ RecoverDrop
    <3>1. /\ jobT.at \in {"detach", "drop"} \cup Recovering /\ UNCHANGED mT
          /\ \E at \in {"drop", "done"} \cup Recovering : GoesOnT(at)
      <4>1. jobT' # Idle
        BY Zenon, EmptyRecord
      <4> QED
        BY Zenon, <2>8, <4>1 DEF FinalizeDetach, FinalizeDrop, RecoverVerify, RecoverDisable, RecoverDetach, RecoverDrop,
           OnTarget, EndsT, records, Recovering
    <3>2. jobT'.at \in {"drop", "done"} \cup Recovering
      BY Zenon, <1>0, <1>3, <3>1, GoesOnTarget DEF Steps, TargetSteps, Recovering
    <3>3. ~FinalizeEnable /\ ~FinalizeSequences
      BY Zenon, <3>1 DEF FinalizeEnable, FinalizeSequences, OnTarget, Recovering
    <3>4. K /\ mT'.final = FinalDigest(jobT'.fin) /\ mT'.st = "cleanup-pending"
      BY Zenon, <1>3, <2>S, <2>K, <3>1, <3>3 DEF After
    <3>5. jobT'.at \notin Before /\ jobT'.at # "verify_again"
      BY Zenon, <3>2 DEF Before, Recovering
    <3> QED
      BY Zenon, <3>4, <3>5 DEF B, R, D, W, A, Before
  <2> QED
    BY Zenon, <1>0, <1>3, <2>1, <2>2, <2>3, <2>4, <2>5, <2>6, <2>7, <2>8, StepMoves
<1> QED
  BY Zenon, <1>0, <1>2, <1>3, FinalizationMoves

-----------------------------------------------------------------------------
(* Verdicts *)

LEMMA DigestTwice ==
  ASSUME NEW f \in FinalState, NEW g \in FinalState, f = FinalDigest(g)
  PROVE  f = FinalDigest(f)
<1>1. FinalDigest(g).schema = g.schema /\ FinalDigest(g).man = g.man /\ FinalDigest(g).lsn = g.lsn
  BY Zenon, FinalRecord
<1>2. FinalDigest(f) = FinalDigest(g)
  BY Zenon, <1>1, DigestEqual
<1> QED
  BY Zenon, <1>2

LEMMA VerdictMoves ==
  ASSUME TypeOK, PlanInv, Next, mT' # None, mT'.st \in Verdicts
  PROVE  UNCHANGED mT \/ FinalizePending \/ FinalizeDone \/ RecoverDone
<1>0. (mT # None => mT \in TargetMarker) /\ pub \in 0..2
  BY Zenon DEF TypeOK
<1>1. CASE
     \/ FinalizePending \/ FinalizeDone \/ RecoverDone
  <2> QED
    BY Zenon, <1>1
<1>2. CASE RestoreMark
  <2>1. mT'.st = "schema-restored"
    BY Zenon, <1>2 DEF RestoreMark
  <2> QED
    BY Zenon, <2>1 DEF Verdicts
<1>3. CASE
     \/ StartMark \/ StartReplicating \/ StartDefinition \/ CleanupTarget
  <2>1. jobT.op = "start" \/ mT # None \/ mT' = mT
    BY Zenon, <1>3 DEF StartMark, StartReplicating, StartDefinition, CleanupTarget, OnTarget
  <2>2. mT \in TargetMarker \/ mT' = mT
    BY Zenon, <1>0, <2>1 DEF PlanInv
  <2>3. \/ mT' = mT \/ mT' = [mT EXCEPT !.st = "subscription-created"]
        \/ mT' = [mT EXCEPT !.st = "replicating"] \/ mT' = [mT EXCEPT !.st = "cleaned"]
        \/ mT' = [mT EXCEPT !.st = "subscription-created", !.pub = pub, !.sub = TRUE]
    BY Zenon, <1>3 DEF StartMark, StartReplicating, StartDefinition, CleanupTarget
  <2>4. mT' = mT \/ mT'.st \in {"subscription-created", "replicating", "cleaned"}
    <3>1. CASE mT' = [mT EXCEPT !.st = "subscription-created", !.pub = pub, !.sub = TRUE]
      BY Zenon, <2>2, <3>1 DEF TargetMarker
    <3>2. CASE \E st \in {"subscription-created", "replicating", "cleaned"} : mT' = [mT EXCEPT !.st = st]
      BY Zenon, <2>2, <3>2 DEF TargetMarker
    <3> QED
      BY Zenon, <2>3, <3>1, <3>2
  <2> QED
    BY Zenon, <2>4 DEF Verdicts
<1>4. CASE
     \/ (\E kind \in Kinds : Write(kind)) \/ Interference \/ WorkerStarts \/ WorkerStops \/ Copy
     \/ Apply \/ Interrupt \/ Abort \/ PostgresLogicalSchemaDump \/ PrepareSource
     \/ PrepareCreate
  <2>1. UNCHANGED <<mT>>
    BY Zenon, <1>4 DEF Write, Interference, WorkerStarts, WorkerStops, Copy, Apply, Interrupt, Abort,
       PostgresLogicalSchemaDump, PrepareSource, PrepareCreate, source, target, records, history,
       counts
  <2> QED
    BY Zenon, <2>1
<1>5. CASE
     \/ PrepareReady \/ FinalizeSource \/ CaptureManifest \/ CaptureLSN \/ CaptureState
     \/ CleanupSource \/ CleanupSlot \/ CleanupPublication \/ CleanupMark \/ ResetTarget
     \/ RestoreSchema
  <2>1. UNCHANGED <<mT>>
    BY Zenon, <1>5 DEF PrepareReady, FinalizeSource, CaptureManifest, CaptureLSN, CaptureState,
       CleanupSource, CleanupSlot, CleanupPublication, CleanupMark, ResetTarget, RestoreSchema,
       source, target, records, history, counts
  <2> QED
    BY Zenon, <2>1
<1>6. CASE
     \/ RestoreLoad \/ StartSubscription \/ StartSlot \/ StartCreate \/ StartCommit \/ WaitReads
     \/ WaitApply \/ GiveUp \/ FinalizeTarget \/ FinalizeEnable \/ WaitFinalLSN
  <2>1. UNCHANGED <<mT>>
    BY Zenon, <1>6 DEF RestoreLoad, StartSubscription, StartSlot, StartCreate, StartCommit, WaitReads,
       WaitApply, GiveUp, FinalizeTarget, FinalizeEnable, WaitFinalLSN, source, target, records,
       history, counts
  <2> QED
    BY Zenon, <2>1
<1>7. CASE
     \/ FinalizeDisable \/ FinalizeStop \/ FinalizeSequences \/ FinalizeVerify \/ FinalizeDetach
     \/ FinalizeDrop \/ RecoverVerify \/ RecoverDisable \/ RecoverDetach \/ RecoverDrop
     \/ VerifyAgain
  <2>1. UNCHANGED <<mT>>
    BY Zenon, <1>7 DEF FinalizeDisable, FinalizeStop, FinalizeSequences, FinalizeVerify, FinalizeDetach,
       FinalizeDrop, RecoverVerify, RecoverDisable, RecoverDetach, RecoverDrop, VerifyAgain,
       source, target, records, history, counts
  <2> QED
    BY Zenon, <2>1
<1> QED
  BY Zenon, <1>1, <1>2, <1>3, <1>4, <1>5, <1>6, <1>7 DEF Next, Environment, SourcePrimitives,
     TargetPrimitives

LEMMA VerdictNext == ASSUME IInv, Next, TypeOK', PlanInv' PROVE VerdictInv'
<1>0. /\ TypeOK /\ PlanInv /\ OrderInv /\ StepInv /\ VerdictInv
      /\ (final # None => final \in FinalState) /\ (mT # None => mT \in TargetMarker)
  BY Zenon DEF IInv, TypeOK
<1>a. jobT.op = "finalize" => jobT.fin \in FinalState
  BY Zenon, <1>0, TargetJobRecord DEF PlanInv, Steps
<1>1. SUFFICES ASSUME mT' # None, mT'.st \in Verdicts, mT'.final = FinalDigest(final')
               PROVE  /\ ~worker' /\ ~sub'.enabled /\ tgt'.rows >= mT'.final.lsn
                      /\ ~tgt'.foreign => TargetManifest' = mT'.final.man
  BY Zenon DEF VerdictInv, Kept, TargetManifest
<1>2. CASE FinalizePending
  <2>1. jobT.op = "finalize" /\ jobT.at = "pending" /\ phase = "finalize" /\ mT \in TargetMarker
    BY Zenon, <1>0, <1>2 DEF FinalizePending, OnTarget, PlanInv
  <2>2. Kept(jobT.fin) /\ jobT.fin \in FinalState
    BY Zenon, <1>0, <1>a, <2>1 DEF StepInv
  <2>3. ~FinalizeEnable /\ ~FinalizeSequences
    BY Zenon, <2>1 DEF FinalizeEnable, FinalizeSequences, OnTarget
  <2>4. /\ FinalDigest(jobT.fin) \in FinalState
        /\ FinalDigest(jobT.fin).man = jobT.fin.man /\ FinalDigest(jobT.fin).lsn = jobT.fin.lsn
    BY Zenon, <2>2, FinalRecord
  <2>5. mT'.final = FinalDigest(jobT.fin)
    <3>1. mT' = [mT EXCEPT !.st = "cleanup-pending", !.final = FinalDigest(jobT.fin)]
      BY Zenon, <1>2 DEF FinalizePending
    <3> QED
      BY <2>1, <2>4, <3>1, MarkPending, Zenon
  <2>6. /\ ~worker' /\ ~sub'.enabled /\ tgt'.rows = tgt.rows
        /\ ~tgt'.foreign => ~tgt.foreign /\ TargetManifest' = TargetManifest
    BY Zenon, <2>1, <2>2, <2>3, NothingApplies DEF Kept
  <2> QED
    BY Zenon, <2>2, <2>4, <2>5, <2>6 DEF Kept
<1>3. CASE ~FinalizePending
  <2>1. mT # None /\ mT'.final = mT.final /\ mT.final # None /\ mT.st \in Verdicts
    <3>1. mT'.final # None
      BY Zenon, <1>1 DEF PlanInv
    <3>2. mT # None /\ mT'.final = mT.final
      BY Zenon, <1>0, <1>1, <1>3, <3>1, MarkMoves
    <3>3. FinalizeDone \/ RecoverDone => mT.st \in Verdicts
      BY Zenon, <1>0 DEF FinalizeDone, RecoverDone, OnTarget, StepInv, Recovering, Verdicts
    <3> QED
      BY Zenon, <1>0, <1>1, <1>3, <3>1, <3>2, <3>3, VerdictMoves
  <2>2. mT.final \in FinalState /\ final \in FinalState /\ Older(mT.final, final)
    BY Zenon, <1>0, <2>1, TargetMarkerRecord DEF OrderInv
  <2>3. mT.final = FinalDigest(final)
    <3>1. CASE UNCHANGED final
      BY Zenon, <1>1, <2>1, <3>1 DEF FinalDigest
    <3>2. CASE CaptureState
      <4>1. final' = jobS.fin /\ jobS.op = "finalize" /\ jobS.at = "artifact"
        BY Zenon, <3>2 DEF CaptureState, OnSource
      <4>2. jobS.fin \in FinalState
        BY Zenon, <1>0, <4>1, SourceJobRecord
      <4>3. Older(final, jobS.fin)
        BY Zenon, <1>0, <2>2, <4>1, NotNone DEF OrderInv
      <4>4. mT.final = FinalDigest(jobS.fin)
        BY Zenon, <1>1, <2>1, <4>1 DEF FinalDigest
      <4>5. mT.final = FinalDigest(mT.final)
        BY Zenon, <2>2, <4>2, <4>4, DigestTwice
      <4>6. FinalDigest(mT.final) = FinalDigest(final)
        BY Zenon, <2>2, <4>2, <4>3, <4>4, <4>5, OlderBetween
      <4> QED
        BY Zenon, <4>5, <4>6
    <3> QED
      BY Zenon, <3>1, <3>2, FinalMoves
  <2>4. Kept(mT.final) /\ phase \in {"finalize", "clean"}
    BY Zenon, <1>0, <2>1, <2>3 DEF VerdictInv, PlanInv
  <2>5. ~FinalizeEnable /\ ~FinalizeSequences
    <3>1. SUFFICES ASSUME jobT.op = "finalize", jobT.at \in Before
                   PROVE  FALSE
      BY Zenon DEF FinalizeEnable, FinalizeSequences, OnTarget, Before
    <3>2. jobT.fin \in FinalState /\ Older(mT.final, jobT.fin) /\ Older(jobT.fin, final)
      BY Zenon, <1>0, <1>a, <2>1, <3>1 DEF OrderInv
    <3>3. mT.final = FinalDigest(mT.final)
      BY Zenon, <2>2, <2>3, DigestTwice
    <3>4. FinalDigest(mT.final) = FinalDigest(jobT.fin)
      BY Zenon, <2>2, <2>3, <3>2, <3>3, OlderBetween
    <3> QED
      BY Zenon, <1>0, <2>1, <3>1, <3>3, <3>4 DEF StepInv
  <2>6. /\ ~worker' /\ ~sub'.enabled /\ tgt'.rows = tgt.rows
        /\ ~tgt'.foreign => ~tgt.foreign /\ TargetManifest' = TargetManifest
    BY Zenon, <2>4, <2>5, NothingApplies DEF Kept
  <2> QED
    BY Zenon, <2>1, <2>4, <2>6 DEF Kept
<1> QED
  BY Zenon, <1>2, <1>3

LEMMA VerifiedNext == ASSUME IInv, Next PROVE VerifiedInv'
<1>0. /\ TypeOK /\ PlanInv /\ FinalInv /\ OrderInv /\ StepInv /\ VerifiedInv
      /\ (verified # None => verified \in FinalState)
  BY Zenon DEF IInv, TypeOK
<1>a. jobT.op = "finalize" => jobT.fin \in FinalState
  BY Zenon, <1>0, TargetJobRecord DEF PlanInv, Steps
<1>b. tgt \in Contents
  BY Zenon, <1>0 DEF TypeOK
<1>1. CASE UNCHANGED verified
  <2> SUFFICES ASSUME verified # None, ~tgt'.foreign
               PROVE  tgt'.rows >= verified.at /\ verified.man.seq \subseteq tgt'.seq
    BY Zenon, <1>1 DEF VerifiedInv
  <2>1. phase \in {"finalize", "clean"} /\ verified \in FinalState
    BY Zenon, <1>0 DEF PlanInv
  <2>2. /\ tgt.rows \in Nat /\ tgt'.rows \in Nat /\ tgt'.rows >= tgt.rows /\ ~tgt.foreign
        /\ FinalizeSequences \/ tgt'.seq = tgt.seq
    BY Zenon, <2>1, RowsGrow
  <2>3. tgt.rows >= verified.at /\ verified.man.seq \subseteq tgt.seq /\ verified.at \in Nat
    BY Zenon, <1>0, <2>1, <2>2, FinalRecord DEF VerifiedInv
  <2>4. CASE FinalizeSequences
    <3>1. jobT.op = "finalize" /\ tgt' = [tgt EXCEPT !.seq = jobT.fin.man.seq]
      BY Zenon, <2>4 DEF FinalizeSequences, OnTarget
    <3>2. tgt'.seq = jobT.fin.man.seq
      BY Zenon, <1>b, <3>1 DEF Contents
    <3>3. jobT.fin.at \in Nat /\ verified.at <= jobT.fin.at
      BY Zenon, <1>0, <1>a, <3>1, FinalRecord DEF OrderInv
    <3>4. /\ verified.man.seq = Entries(log, "sequence", verified.at)
          /\ jobT.fin.man.seq = Entries(log, "sequence", jobT.fin.at)
      BY Zenon, <1>0, <3>1 DEF FinalInv, Captured, CapturedIn
    <3>5. Entries(log, "sequence", verified.at) \subseteq Entries(log, "sequence", jobT.fin.at)
      BY SMTT(30), <2>3, <3>3, EntriesGrow
    <3>6. tgt'.rows >= verified.at
      BY <2>2, <2>3
    <3>7. verified.man.seq \subseteq tgt'.seq
      BY Zenon, <3>2, <3>4, <3>5
    <3> QED
      BY Zenon, <3>6, <3>7
  <2> QED
    BY SMTT(30), <2>2, <2>3, <2>4
<1>2. CASE ~UNCHANGED verified
  <2>1. /\ verified' = jobT.fin /\ jobT.op = "finalize" /\ jobT.at \in After /\ tgt' = tgt
    BY Zenon, <1>2, VerifiedMoves DEF FinalizeDone, RecoverDone, VerifyAgain, OnTarget, Verifies, After, Recovering, target
  <2>2. Kept(jobT.fin) /\ Positioned(jobT.fin) /\ jobT.fin \in FinalState
    BY Zenon, <1>0, <1>a, <2>1 DEF StepInv, FinalInv
  <2>3. jobT.fin.at \in Nat /\ jobT.fin.lsn \in Nat /\ tgt.rows \in Nat
    BY Zenon, <1>b, <2>2, FinalRecord DEF Contents
  <2>4. tgt.rows >= jobT.fin.at
    <3>1. tgt.rows >= jobT.fin.lsn /\ jobT.fin.at <= jobT.fin.lsn
      BY Zenon, <2>2 DEF Kept, Positioned
    <3> QED
      BY SMTT(30), <2>3, <3>1
  <2>5. ~tgt.foreign => tgt.seq = jobT.fin.man.seq
    BY SMTT(30), <2>2 DEF Kept, TargetManifest, Manifest
  <2> QED
    BY Zenon, <2>1, <2>3, <2>4, <2>5 DEF VerifiedInv
<1> QED
  BY Zenon, <1>1, <1>2

\* After the replication has started, a plan only goes forward.
LEMMA PhaseStays ==
  ASSUME IInv, Next, phase \in {"finalize", "clean"}
  PROVE  phase' \in {"finalize", "clean"}
<1>0. TypeOK /\ PlanInv /\ phase \in {"prepare", "restore", "start", "finalize", "clean"}
  BY Zenon DEF IInv, TypeOK
<1>1. CASE Abort
  <2> QED
    BY Zenon, <1>1 DEF Abort
<1>2. CASE
     \/ PrepareReady \/ RestoreSchema \/ RestoreMark \/ StartReplicating
  <2>1. phase \in {"prepare", "restore", "start"}
    BY Zenon, <1>2, <1>0 DEF PrepareReady, RestoreSchema, RestoreMark, StartReplicating, OnSource,
       OnTarget, PlanInv
  <2> QED
    BY Zenon, <2>1
<1>3. CASE
     \/ FinalizeDone \/ RecoverDone \/ VerifyAgain
  <2>1. phase' = phase \/ Learns
    BY Zenon, <1>3 DEF FinalizeDone, RecoverDone, VerifyAgain, Verifies, Succeeds
  <2> QED
    BY Zenon, <1>0, <2>1, NextPhaseType
<1>4. CASE
     \/ (\E kind \in Kinds : Write(kind)) \/ Interference \/ WorkerStarts \/ WorkerStops \/ Copy
     \/ Apply \/ Interrupt \/ PostgresLogicalSchemaDump \/ PrepareSource \/ PrepareCreate
     \/ FinalizeSource
  <2>1. UNCHANGED <<phase>>
    BY Zenon, <1>4 DEF Write, Interference, WorkerStarts, WorkerStops, Copy, Apply, Interrupt,
       PostgresLogicalSchemaDump, PrepareSource, PrepareCreate, FinalizeSource, GoesOnT, Refuses,
       source, target, records, history, counts
  <2> QED
    BY Zenon, <2>1
<1>5. CASE
     \/ CaptureManifest \/ CaptureLSN \/ CaptureState \/ CleanupSource \/ CleanupSlot
     \/ CleanupPublication \/ CleanupMark \/ ResetTarget \/ RestoreLoad \/ StartSubscription
     \/ StartSlot
  <2>1. UNCHANGED <<phase>>
    BY Zenon, <1>5 DEF CaptureManifest, CaptureLSN, CaptureState, CleanupSource, CleanupSlot,
       CleanupPublication, CleanupMark, ResetTarget, RestoreLoad, StartSubscription, StartSlot,
       GoesOnT, Refuses, source, target, records, history, counts
  <2> QED
    BY Zenon, <2>1
<1>6. CASE
     \/ StartCreate \/ StartCommit \/ StartMark \/ StartDefinition \/ WaitReads \/ WaitApply
     \/ GiveUp \/ FinalizeTarget \/ FinalizeEnable \/ WaitFinalLSN \/ FinalizeDisable
  <2>1. UNCHANGED <<phase>>
    BY Zenon, <1>6 DEF StartCreate, StartCommit, StartMark, StartDefinition, WaitReads, WaitApply,
       GiveUp, FinalizeTarget, FinalizeEnable, WaitFinalLSN, FinalizeDisable, GoesOnT, Refuses,
       source, target, records, history, counts
  <2> QED
    BY Zenon, <2>1
<1>7. CASE
     \/ FinalizeStop \/ FinalizeSequences \/ FinalizeVerify \/ FinalizePending \/ FinalizeDetach
     \/ FinalizeDrop \/ RecoverVerify \/ RecoverDisable \/ RecoverDetach \/ RecoverDrop
     \/ CleanupTarget
  <2>1. UNCHANGED <<phase>>
    BY Zenon, <1>7 DEF FinalizeStop, FinalizeSequences, FinalizeVerify, FinalizePending, FinalizeDetach,
       FinalizeDrop, RecoverVerify, RecoverDisable, RecoverDetach, RecoverDrop, CleanupTarget,
       GoesOnT, Refuses, source, target, records, history, counts
  <2> QED
    BY Zenon, <2>1
<1> QED
  BY Zenon, <1>1, <1>2, <1>3, <1>4, <1>5, <1>6, <1>7 DEF Next, Environment, SourcePrimitives,
     TargetPrimitives

LEMMA SaidMoves ==
  ASSUME Next, said' = "drifted"
  PROVE  UNCHANGED said \/ RecoverVerify \/ VerifyAgain
<1>1. CASE
     \/ RecoverVerify \/ VerifyAgain
  <2> QED
    BY Zenon, <1>1
<1>2. CASE
     \/ Interrupt \/ RestoreSchema \/ RestoreMark \/ StartSubscription \/ StartSlot
     \/ StartCreate \/ StartDefinition
  <2>1. said' = said \/ said' \in {"nothing", "ok", "refused"}
    BY Zenon, <1>2 DEF Interrupt, RestoreSchema, RestoreMark, StartSubscription, StartSlot, StartCreate,
       StartDefinition, EndsT, GoesOnT, Succeeds, Refuses
  <2> QED
    BY Zenon, <2>1
<1>3. CASE
     \/ WaitApply \/ StartReplicating \/ GiveUp \/ FinalizeTarget \/ WaitFinalLSN
     \/ FinalizeVerify \/ FinalizeDone \/ RecoverDone \/ CleanupTarget
  <2>1. said' = said \/ said' \in {"ok", "refused", "without_ownership", "not_owned"}
    BY Zenon, <1>3 DEF WaitApply, StartReplicating, GiveUp, FinalizeTarget, WaitFinalLSN, FinalizeVerify,
       FinalizeDone, RecoverDone, CleanupTarget, EndsT, GoesOnT, Succeeds, Refuses, Verifies
  <2> QED
    BY Zenon, <2>1
<1>4. CASE
     \/ (\E kind \in Kinds : Write(kind)) \/ Interference \/ WorkerStarts \/ WorkerStops \/ Copy
     \/ Apply \/ Abort \/ PostgresLogicalSchemaDump \/ PrepareSource \/ PrepareCreate
     \/ PrepareReady \/ FinalizeSource
  <2>1. UNCHANGED <<said>>
    BY Zenon, <1>4 DEF Write, Interference, WorkerStarts, WorkerStops, Copy, Apply, Abort,
       PostgresLogicalSchemaDump, PrepareSource, PrepareCreate, PrepareReady, FinalizeSource,
       GoesOnT, source, target, records, history, counts
  <2> QED
    BY Zenon, <2>1
<1>5. CASE
     \/ CaptureManifest \/ CaptureLSN \/ CaptureState \/ CleanupSource \/ CleanupSlot
     \/ CleanupPublication \/ CleanupMark \/ ResetTarget \/ RestoreLoad \/ StartCommit
     \/ StartMark \/ WaitReads
  <2>1. UNCHANGED <<said>>
    BY Zenon, <1>5 DEF CaptureManifest, CaptureLSN, CaptureState, CleanupSource, CleanupSlot,
       CleanupPublication, CleanupMark, ResetTarget, RestoreLoad, StartCommit, StartMark,
       WaitReads, GoesOnT, source, target, records, history, counts
  <2> QED
    BY Zenon, <2>1
<1>6. CASE
     \/ FinalizeEnable \/ FinalizeDisable \/ FinalizeStop \/ FinalizeSequences \/ FinalizePending
     \/ FinalizeDetach \/ FinalizeDrop \/ RecoverDisable \/ RecoverDetach \/ RecoverDrop
  <2>1. UNCHANGED <<said>>
    BY Zenon, <1>6 DEF FinalizeEnable, FinalizeDisable, FinalizeStop, FinalizeSequences, FinalizePending,
       FinalizeDetach, FinalizeDrop, RecoverDisable, RecoverDetach, RecoverDrop, GoesOnT, source,
       target, records, history, counts
  <2> QED
    BY Zenon, <2>1
<1> QED
  BY Zenon, <1>1, <1>2, <1>3, <1>4, <1>5, <1>6 DEF Next, Environment, SourcePrimitives, TargetPrimitives

LEMMA DriftNext == ASSUME IInv, Next PROVE DriftInv'
<1>0. TypeOK /\ PlanInv /\ StepInv /\ DriftInv
  BY Zenon DEF IInv
<1> SUFFICES ASSUME said' = "drifted"
             PROVE  tgt'.foreign /\ phase' \in {"finalize", "clean"}
  BY Zenon DEF DriftInv
<1>1. CASE UNCHANGED said
  <2>1. tgt.foreign /\ phase \in {"finalize", "clean"}
    BY Zenon, <1>0, <1>1 DEF DriftInv
  <2> QED
    BY Zenon, <2>1, RowsGrow, PhaseStays
<1>2. CASE ~UNCHANGED said /\ (RecoverVerify \/ VerifyAgain)
  <2>1. /\ jobT.op = "finalize" /\ jobT.at \in After /\ TargetManifest # jobT.fin.man /\ tgt' = tgt
    BY Zenon, <1>2 DEF RecoverVerify, VerifyAgain, OnTarget, InspectionMatches, GoesOnT, Verifies, Succeeds, EndsT,
       After, Recovering, target
  <2>2. phase \in {"finalize", "clean"} /\ Kept(jobT.fin)
    BY Zenon, <1>0, <2>1 DEF PlanInv, StepInv
  <2> QED
    BY Zenon, <2>1, <2>2, PhaseStays DEF Kept
<1> QED
  BY Zenon, <1>1, <1>2, SaidMoves

-----------------------------------------------------------------------------
LEMMA InitIInv == ASSUME Init PROVE IInv
<1> USE LogicalReplicationAssumption DEF Init
<1>1. log = <<"seen">> /\ LSN = 1
  BY Zenon DEF LSN
<1>2. /\ tgt = EmptyTarget /\ sub = NoSub /\ jobS = Idle /\ jobT = Idle
      /\ mS = None /\ mT = None /\ art = None /\ final = None /\ verified = None
  BY Zenon
<1>3. /\ EmptyTarget \in Contents /\ EmptyTarget.rows = 0 /\ EmptyTarget.seq = {} /\ EmptyTarget.foreign = FALSE
      /\ NoSub \in Subscription /\ ~NoSub.made /\ ~NoSub.ready /\ Idle.op = "idle"
  BY Zenon, EmptyRecord DEF EmptyTarget
<1>4. TypeOK
  <2>1. LSN \in 1..MaxWrites + 1 /\ recv \in 0..LSN /\ log \in Seq(Kinds)
    BY SMTT(30), <1>1 DEF Kinds
  <2>2. others \in 0..MaxSlots /\ (IF slot THEN 1 ELSE 0) + others <= MaxSlots /\ mishaps \in 0..MaxMishaps /\ captures \in 0..MaxCaptures
    OBVIOUS
  <2>3. schema \in Versions /\ pub \in 0..2
    BY SMTT(30) DEF Versions
  <2>4. tgt \in Contents /\ tgt.rows <= LSN /\ tgt.seq \subseteq 1..LSN
    BY <1>1, <1>2, <1>3
  <2>5. SourceType
    <3>1. phase \in {"prepare", "restore", "start", "finalize", "clean"}
      BY Zenon
    <3>2. slot \in BOOLEAN /\ worker \in BOOLEAN /\ (worker => slot)
      BY Zenon
    <3> QED
      BY <2>1, <2>2, <2>3, <3>1, <3>2, Zenon DEF SourceType
  <2>6. TargetType
    BY Zenon, <1>2, <1>3, <2>1, <2>4 DEF TargetType
  <2>7. RecordType /\ SourceJobType /\ TargetJobType
    BY Zenon, <1>2 DEF RecordType, SourceJobType, TargetJobType
  <2> QED
    BY Zenon, <2>5, <2>6, <2>7, TypeParts
<1>5. ObjectsOwned /\ PlanInv /\ SubInv
  BY Zenon, <1>2, <1>3 DEF ObjectsOwned, PlanInv, SubInv, Before
<1>6. FinalInv
  BY Zenon, <1>1, <1>2, <1>3 DEF FinalInv
<1>7. OrderInv /\ StepInv /\ VerdictInv /\ VerifiedInv /\ DriftInv
  BY Zenon, <1>2, <1>3 DEF OrderInv, StepInv, VerdictInv, VerifiedInv, DriftInv
<1> QED
  BY Zenon, <1>4, <1>5, <1>6, <1>7 DEF IInv

LEMMA StutterIInv == ASSUME IInv, UNCHANGED vars PROVE IInv'
<1>1. /\ UNCHANGED <<phase, log, schema, pub, slot, others, tgt, sub, worker, recv>>
      /\ UNCHANGED <<mS, mT, art, final, jobS, jobT, said, verified, mishaps, captures>>
  BY Zenon DEF vars, source, target, records, history, counts
<1>2. TypeOK'
  <2>1. TypeOK
    BY Zenon DEF IInv
  <2>2. SourceType /\ TargetType /\ RecordType /\ SourceJobType /\ TargetJobType
    BY Zenon, <2>1 DEF TypeOK, SourceType, TargetType, RecordType, SourceJobType, TargetJobType
  <2>3. SourceType' /\ TargetType'
    BY Zenon, <1>1, <2>2 DEF SourceType, TargetType, LSN
  <2>4. RecordType' /\ SourceJobType' /\ TargetJobType'
    BY Zenon, <1>1, <2>2 DEF RecordType, SourceJobType, TargetJobType, LSN
  <2> QED
    BY Zenon, <2>3, <2>4 DEF TypeOK, SourceType, TargetType, RecordType, SourceJobType, TargetJobType
<1>3. ObjectsOwned' /\ PlanInv' /\ SubInv'
  BY Zenon, <1>1 DEF IInv, ObjectsOwned, PlanInv, SubInv
<1>4. FinalInv'
  BY Zenon, <1>1 DEF IInv, FinalInv, Captured, CapturedIn, Positioned, LSN
<1>5. OrderInv'
  BY Zenon, <1>1 DEF IInv, OrderInv
<1>6. StepInv'
  BY Zenon, <1>1 DEF IInv, StepInv, Kept, TargetManifest, Manifest, FinalDigest
<1>7. VerdictInv' /\ VerifiedInv' /\ DriftInv'
  BY Zenon, <1>1 DEF IInv, VerdictInv, VerifiedInv, DriftInv, Kept, TargetManifest, Manifest, FinalDigest
<1> QED
  BY Zenon, <1>2, <1>3, <1>4, <1>5, <1>6, <1>7 DEF IInv

\* The inductive invariant: the phases and the primitives at work in them, the order of the
\* captured states, what each step of a finalization has achieved, and that a verdict on
\* record keeps describing the target.
THEOREM Inductive == Spec => []IInv
<1>1. Init => IInv
  BY Zenon, InitIInv
<1>2. IInv /\ [Next]_vars => IInv'
  <2> SUFFICES ASSUME IInv, [Next]_vars
               PROVE  IInv'
    BY Zenon
  <2>1. CASE Next
    <3>1. TypeOK'
      BY Zenon, <2>1, TypeNext
    <3>2. PlanInv'
      BY Zenon, <2>1, <3>1, PlanNext
    <3>3. ObjectsOwned' /\ SubInv'
      BY Zenon, <2>1, ObjectsNext, SubNext
    <3>4. FinalInv' /\ OrderInv'
      BY Zenon, <2>1, <3>1, <3>2, FinalNext, OrderNext
    <3>5. StepInv' /\ VerdictInv'
      BY Zenon, <2>1, <3>1, <3>2, StepNext, VerdictNext
    <3>6. VerifiedInv' /\ DriftInv'
      BY Zenon, <2>1, VerifiedNext, DriftNext
    <3> QED
      BY Zenon, <3>1, <3>2, <3>3, <3>4, <3>5, <3>6 DEF IInv
  <2>2. CASE UNCHANGED vars
    BY Zenon, <2>2, StutterIInv
  <2> QED
    BY Zenon, <2>1, <2>2
<1> QED
  BY <1>1, <1>2, PTL DEF Spec

\* Slots stay within max_replication_slots, an apply worker has its slot, the target holds no
\* more than the source has, and the position of a final state is not before its manifest.
THEOREM ReplicationTypes == Spec => []TypeOK
<1>1. IInv => TypeOK
  BY Zenon DEF IInv
<1> QED
  BY <1>1, Inductive, PTL

\* Whatever dies when, publication, slot and subscription never exist without the marker that
\* postgresLogicalCleanupSource and postgresLogicalCleanupTarget ask for.
THEOREM ObjectsAreOwned == Spec => []ObjectsOwned
<1>1. IInv => ObjectsOwned
  BY Zenon DEF IInv
<1> QED
  BY <1>1, Inductive, PTL

\* A target that postgresLogicalFinalizeTarget reported as verified holds every change the
\* source had when the final state was captured, and exactly the source if nothing was
\* written since.
THEOREM VerifiedTargetHoldsSource == Spec => []VerifiedHoldsSource
<1>1. IInv => VerifiedHoldsSource
  <2> SUFFICES ASSUME IInv, verified # None, ~tgt.foreign
               PROVE  /\ tgt.rows >= verified.at
                      /\ LSN = verified.at => tgt.rows = LSN /\ tgt.seq = Entries(log, "sequence", LSN)
    BY Zenon DEF VerifiedHoldsSource
  <2>0. TypeOK
    BY Zenon DEF IInv
  <2>1. tgt \in Contents /\ tgt.rows <= LSN /\ LSN \in Nat
    BY Zenon, <2>0, TypeFacts
  <2>2. tgt.rows \in Nat
    BY Zenon, <2>1 DEF Contents
  <2>3. tgt.rows >= verified.at /\ verified.man.seq \subseteq tgt.seq
    BY Zenon DEF IInv, VerifiedInv
  <2>4. verified.man.seq = Entries(log, "sequence", verified.at) /\ tgt.seq \subseteq Entries(log, "sequence", LSN)
    BY Zenon DEF IInv, FinalInv, Captured, CapturedIn
  <2>5. verified.at \in Nat
    BY Zenon, FinalRecord DEF IInv, TypeOK
  <2>6. LSN = verified.at => tgt.rows = LSN
    <3>1. \A i, j, k \in Nat : i <= j /\ i >= k /\ j = k => i = j
      OBVIOUS
    <3> QED
      BY <2>1, <2>2, <2>3, <2>5, <3>1, Zenon
  <2>7. LSN = verified.at => tgt.seq = Entries(log, "sequence", LSN)
    BY Zenon, <2>3, <2>4
  <2> QED
    BY Zenon, <2>3, <2>6, <2>7
<1> QED
  BY <1>1, Inductive, PTL

\* A finalization that is repeated, or taken up after a crash, does not find a target it had
\* verified changed, unless somebody else wrote to it.
THEOREM VerdictSurvives == Spec => []RecoveryFindsVerdict
<1>1. IInv => RecoveryFindsVerdict
  BY Zenon DEF IInv, DriftInv, RecoveryFindsVerdict
<1> QED
  BY <1>1, Inductive, PTL

\* The subscription is detached or dropped only while the target is what the verdict on
\* record says.
THEOREM DetachedOnlyVerified == Spec => DetachedVerified
<1> DEFINE A == sub.made /\ sub.slot /\ ~sub'.slot /\ ~tgt.foreign =>
                  mT.st = "cleanup-pending" /\ TargetManifest = mT.final.man
<1>1. IInv /\ [Next]_vars => [A]_vars
  <2> SUFFICES ASSUME IInv, Next, sub.made, sub.slot, ~sub'.slot, ~tgt.foreign
               PROVE  mT.st = "cleanup-pending" /\ TargetManifest = mT.final.man
    BY Zenon
  <2>0. TypeOK /\ StepInv /\ PlanInv
    BY Zenon DEF IInv
  <2>1. sub \in Subscription
    BY Zenon, <2>0 DEF TypeOK
  <2>2. ~StartCommit
    BY Zenon, EmptyRecord DEF StartCommit
  <2>3. ~Interference /\ ~Copy /\ ~FinalizeEnable /\ ~FinalizeDisable /\ ~RecoverDisable
    <3>1. Interference \/ Copy => sub' \in {sub, [sub EXCEPT !.own = ~@], [sub EXCEPT !.ready = TRUE]}
      BY Zenon DEF Interference, Copy
    <3>2. FinalizeEnable \/ FinalizeDisable \/ RecoverDisable =>
            sub' \in {sub, [sub EXCEPT !.enabled = TRUE], [sub EXCEPT !.enabled = FALSE]}
      BY Zenon DEF FinalizeEnable, FinalizeDisable, RecoverDisable
    <3> QED
      BY Zenon, <2>1, <3>1, <3>2 DEF Subscription
  <2>4. FinalizeDetach \/ FinalizeDrop \/ RecoverDetach \/ RecoverDrop
    BY Zenon, <2>2, <2>3, SubscriptionMoves
  <2>5. jobT.op = "finalize" /\ jobT.at \in {"detach", "drop", "recover_stop", "recover_drop"}
    BY Zenon, <2>4 DEF FinalizeDetach, FinalizeDrop, RecoverDetach, RecoverDrop, OnTarget
  <2>6. mT.st = "cleanup-pending" /\ mT.final = FinalDigest(jobT.fin) /\ Kept(jobT.fin)
    BY Zenon, <2>0, <2>5 DEF StepInv, After, Recovering
  <2>7. jobT.fin \in FinalState
    BY Zenon, <2>0, <2>5, TargetJobRecord DEF PlanInv, Steps
  <2> QED
    BY Zenon, <2>6, <2>7, FinalRecord DEF Kept
<1>2. DetachedVerified <=> [][A]_vars
  BY PTL DEF DetachedVerified
<1> HIDE DEF A
<1> QED
  BY <1>1, <1>2, Inductive, PTL DEF Spec
=============================================================================
