------------------------ MODULE LogicalReplication ------------------------
(***************************************************************************)
(* The lower-downtime migration of a PostgreSQL database                   *)
(* (internal/migration/postgres_logical.go): the schema is restored, a     *)
(* publication and a subscription keep the target up to date while clients *)
(* go on writing to the source, the final state of the source is captured, *)
(* the target is brought to it, verified and detached.                     *)
(*                                                                         *)
(* The source is its log: what clients have committed, in order.  An entry *)
(* is a change the manifests see, one outside their sample of rows, or an  *)
(* advance of a sequence, which logical replication does not carry.  A     *)
(* position in the log is an LSN, and the rows of the target are a prefix  *)
(* of the log.  Digests are what they are made of.                         *)
(***************************************************************************)
EXTENDS Naturals, Sequences

CONSTANTS
  None,
  MaxSlots,      \* max_replication_slots of the source
  MaxWrites,     \* entries the clients append to the log
  MaxMishaps,    \* changes made by others, primitives that die, workers that die
  MaxCaptures    \* final states captured

VARIABLES
  phase,         \* how far the plan of the backend is
  log, schema,   \* the source: committed changes, version of the schema
  pub, slot,     \* its publication (the schema it was made for), its slot
  others,        \* slots of other subscribers
  tgt, sub,      \* the target, its subscription
  worker,        \* the apply worker runs, and the slot is active
  recv,          \* the position the apply worker has reported
  mS, mT,        \* the markers of the two hosts
  art, final,    \* artifacts: the schema dump, the last final state
  jobS, jobT,    \* the primitive at work on each host
  said,          \* how the last primitive of the target ended
  verified,      \* the final state that a finalization reported as verified
  mishaps, captures

source == <<log, schema, pub, slot, others>>
target == <<tgt, sub, worker, recv>>
records == <<mS, mT, art, final>>
history == <<said, verified>>
counts == <<mishaps, captures>>
vars == <<phase, source, target, records, jobS, jobT, history, counts>>

Phases == <<"prepare", "restore", "start", "finalize", "clean">>
Kinds == {"seen", "unseen", "sequence"}
LSN == Len(log)
\* the changes of a kind up to a position
Entries(l, kind, p) == {i \in 1..p : l[i] = kind}

\* rows: the prefix of the log the tables hold (0: nothing); foreign: somebody else wrote here
EmptyTarget == [schema |-> 0, rows |-> 0, seq |-> {}, foreign |-> FALSE]
NoSub == [made |-> FALSE, enabled |-> FALSE, slot |-> FALSE, ready |-> FALSE, own |-> TRUE]
NewSub == [made |-> TRUE, enabled |-> TRUE, slot |-> TRUE, ready |-> FALSE, own |-> TRUE]
Idle == [op |-> "idle", at |-> "idle"]

\* What inspectPostgres sees of the two databases.
Manifest(s, rows, seq, foreign) ==
  [schema |-> s, seen |-> Entries(log, "seen", rows), seq |-> seq, foreign |-> foreign]
SourceManifest == Manifest(schema, LSN, Entries(log, "sequence", LSN), FALSE)
TargetManifest == Manifest(tgt.schema, tgt.rows, tgt.seq, tgt.foreign)
\* A final state as its digest identifies it: not by when it was inspected.
FinalDigest(f) == IF f = None THEN None ELSE [f EXCEPT !.at = 0]

Mishap == mishaps < MaxMishaps /\ mishaps' = mishaps + 1

\* What the variables hold.
Versions == 1..2
Subscription == [made: BOOLEAN, enabled: BOOLEAN, slot: BOOLEAN, ready: BOOLEAN, own: BOOLEAN]
Contents == [schema: 0..2, rows: Nat, seq: SUBSET Nat, foreign: BOOLEAN]
Manifests == [schema: 0..2, seen: SUBSET Nat, seq: SUBSET Nat, foreign: BOOLEAN]
FinalState == [schema: Versions, man: Manifests, lsn: Nat, at: Nat]
SourceMarker ==
  [st: {"preparing", "publication-ready", "final-state-captured", "source-cleaned"},
   schema: Versions, pub: 0..2]
TargetMarker ==
  [st: {"schema-restored", "subscription-created", "replicating", "cleanup-pending", "finalized", "cleaned"},
   schema: Versions, pub: 0..2, sub: BOOLEAN, final: FinalState \cup {None}]
SourceJob ==
  [op: {"prepare"}, at: {"create", "ready"}] \cup [op: {"clean"}, at: {"slot", "publication", "mark"}]
    \cup [op: {"finalize"}, at: {"inspect"}]
    \cup [op: {"finalize"}, at: {"lsn", "artifact"}, fin: FinalState]
TargetSteps(op) ==
  CASE op = "restore" -> {"load", "mark"}
    [] op = "start" -> {"slot", "create", "commit", "mark", "definition", "wait", "poll", "replicating"}
    [] op = "finalize" ->
         {"enable", "catch_up", "disable", "stop", "sequences", "verify", "pending", "detach", "drop",
          "done", "recover_verify", "recover_disable", "recover_stop", "recover_drop",
          "recover_done", "verify_again"}
TargetJob(op) ==
  [op: {op}, at: TargetSteps(op), fin: FinalState \cup {None}, row: Subscription, lsn: Nat]

ASSUME LogicalReplicationAssumption ==
  /\ MaxSlots \in Nat \ {0}
  /\ \A n \in {MaxWrites, MaxMishaps, MaxCaptures} : n \in Nat
  /\ None \notin Versions \cup SourceMarker \cup TargetMarker \cup FinalState

----------------------------------------------------------------------------
Init ==
  /\ phase = "prepare"
  /\ log = <<"seen">> /\ schema = 1 /\ pub = 0 /\ slot = FALSE /\ others = 0
  /\ tgt = EmptyTarget /\ sub = NoSub /\ worker = FALSE /\ recv = 0
  /\ mS = None /\ mT = None /\ art = None /\ final = None
  /\ jobS = Idle /\ jobT = Idle /\ said = "nothing" /\ verified = None
  /\ mishaps = 0 /\ captures = 0

\* The backend runs the primitives of a plan in order and repeats one whose result it did
\* not get; between primitives it may also give the plan up and clean.
NextPhase(p) == Phases[(CHOOSE i \in 1..4 : Phases[i] = p) + 1]
Learns == \/ UNCHANGED phase
          \/ phase # "clean" /\ phase' = NextPhase(phase)
Abort ==
  /\ phase # "clean" /\ jobS = Idle /\ jobT = Idle /\ phase' = "clean"
  /\ UNCHANGED <<source, target, records, jobS, jobT, history, counts>>

\* A primitive begins, goes on to its next step, or ends.
Begins(op, at) == jobS = Idle /\ jobS' = [op |-> op, at |-> at]
OnSource(op, at) == jobS.op = op /\ jobS.at = at
GoesOn(at) == jobS' = [jobS EXCEPT !.at = at]
\* fin: the final state it was given; row: the subscription as it found it; lsn: the source's
BeginsT(op, at) ==
  jobT = Idle /\ jobT' = [op |-> op, at |-> at, fin |-> final, row |-> sub, lsn |-> 0]
OnTarget(op, at) == jobT.op = op /\ jobT.at = at
GoesOnT(at) == jobT' = [jobT EXCEPT !.at = at] /\ UNCHANGED <<phase, said>>
EndsT(how) == jobT' = Idle /\ said' = how
Succeeds == EndsT("ok") /\ Learns
Refuses == EndsT("refused") /\ UNCHANGED phase

\* The server has a slot left, for whoever asks.
FreeSlot == (IF slot THEN 1 ELSE 0) + others < MaxSlots
\* inspectPostgresLogicalEligibility wants one to be left, on every call.
SourceEligible == FreeSlot
\* The definition of the publication: the tables there are, against the published ones.
PublicationMatches == pub # 0 /\ pub = schema
SubscriptionMatches == sub.made /\ sub.slot /\ sub.own

----------------------------------------------------------------------------
\* Around the primitives: clients and administrators, the servers, crashes
\* What is written before there is a slot is in the first entry of the log.
Write(kind) ==
  /\ LSN <= MaxWrites /\ slot /\ phase # "clean"
  /\ log' = Append(log, kind)
  /\ UNCHANGED <<phase, schema, pub, slot, others, target, records, jobS, jobT, history, counts>>

\* An administrator changes the schema of the source, drops an idle slot or changes the owner
\* of the subscription, somebody writes to the target, another subscriber takes a slot.
Interference ==
  /\ phase # "clean" /\ Mishap
  /\ \/ schema = 1 /\ schema' = 2 /\ UNCHANGED <<slot, others, tgt, sub>>
     \/ slot /\ ~worker /\ slot' = FALSE /\ UNCHANGED <<schema, others, tgt, sub>>
     \/ FreeSlot /\ others' = others + 1 /\ UNCHANGED <<schema, slot, tgt, sub>>
     \/ tgt.schema # 0 /\ tgt' = [tgt EXCEPT !.foreign = TRUE] /\ UNCHANGED <<schema, slot, others, sub>>
     \/ sub.made /\ sub' = [sub EXCEPT !.own = ~@] /\ UNCHANGED <<schema, slot, others, tgt>>
  /\ UNCHANGED <<phase, log, pub, worker, recv, records, jobS, jobT, history, captures>>

\* The apply worker of an enabled subscription starts, and stops once it is disabled; it
\* may also die.
WorkerStarts ==
  /\ sub.made /\ sub.enabled /\ sub.slot /\ slot /\ ~worker
  /\ worker' = TRUE
  /\ UNCHANGED <<phase, source, tgt, sub, recv, records, jobS, jobT, history, counts>>
WorkerStops ==
  /\ worker /\ worker' = FALSE
  /\ \/ ~sub.enabled /\ UNCHANGED mishaps
     \/ sub.enabled /\ Mishap
  /\ UNCHANGED <<phase, source, tgt, sub, recv, records, jobS, jobT, history, captures>>

\* The initial copy: the tables as of now, in a slot of its own.
Copy ==
  /\ worker /\ sub.made /\ ~sub.ready /\ FreeSlot
  /\ sub' = [sub EXCEPT !.ready = TRUE] /\ tgt' = [tgt EXCEPT !.rows = LSN]
  /\ UNCHANGED <<phase, source, worker, recv, records, jobS, jobT, history, counts>>

\* The worker receives the next entry and applies it, unless the copy holds it already.
Apply ==
  /\ worker /\ recv < LSN
  /\ recv' = recv + 1
  /\ tgt' = IF sub.ready /\ recv' > tgt.rows THEN [tgt EXCEPT !.rows = recv'] ELSE tgt
  /\ UNCHANGED <<phase, source, sub, worker, records, jobS, jobT, history, counts>>

\* A primitive fails or its agent dies: what it has done so far stays.
Interrupt ==
  /\ Mishap
  /\ \/ jobS # Idle /\ jobS' = Idle /\ UNCHANGED <<jobT, said>>
     \/ jobT # Idle /\ EndsT("nothing") /\ UNCHANGED jobS
  /\ UNCHANGED <<phase, source, target, records, verified, captures>>

----------------------------------------------------------------------------
\* The primitives of the source host
PostgresLogicalSchemaDump ==
  /\ phase = "prepare" /\ jobS = Idle /\ SourceEligible
  /\ art' = schema
  /\ UNCHANGED <<phase, source, target, mS, mT, final, jobS, jobT, history, counts>>

\* mutant: the marker is left to the end of the preparation
PrepareSource_MarksLate ==
  /\ phase = "prepare" /\ art = schema /\ SourceEligible
  /\ Begins("prepare", IF pub = 0 THEN "create" ELSE "ready")
  /\ IF mS = None THEN pub = 0 /\ ~slot ELSE mS.schema = art
  /\ UNCHANGED <<phase, source, target, records, jobT, history, counts>>

\* Preparation: the schema is the dumped one, and objects without a marker are not touched.
PrepareSource ==
  /\ phase = "prepare" /\ art = schema /\ SourceEligible
  /\ Begins("prepare", IF pub = 0 THEN "create" ELSE "ready")
  /\ \/ mS = None /\ pub = 0 /\ ~slot /\ mS' = [st |-> "preparing", schema |-> art, pub |-> 0]
     \/ mS # None /\ mS.schema = art /\ UNCHANGED mS
  /\ UNCHANGED <<phase, source, target, mT, art, final, jobT, history, counts>>
PrepareCreate ==
  /\ OnSource("prepare", "create") /\ GoesOn("ready")
  /\ pub' = schema
  /\ UNCHANGED <<phase, log, schema, slot, others, target, records, jobT, history, counts>>
PrepareReady ==
  /\ OnSource("prepare", "ready") /\ jobS' = Idle
  /\ IF PublicationMatches /\ mS.pub \in {0, pub}
       THEN Learns /\ mS' = [st |-> "publication-ready", schema |-> art, pub |-> pub]
       ELSE UNCHANGED <<phase, mS>>
  /\ UNCHANGED <<source, target, mT, art, final, jobT, history, counts>>

\* The final state: publication and schema are the approved ones; the manifest is taken
\* first, the position after it.
FinalizeSource ==
  /\ phase = "finalize" /\ captures < MaxCaptures /\ captures' = captures + 1
  /\ mS # None /\ PublicationMatches /\ mS.pub = pub /\ SourceEligible /\ schema = mS.schema
  /\ Begins("finalize", "inspect")
  /\ UNCHANGED <<phase, source, target, records, jobT, history, mishaps>>
CaptureManifest ==
  /\ OnSource("finalize", "inspect")
  /\ jobS' = [op |-> "finalize", at |-> "lsn",
              fin |-> [schema |-> mS.schema, man |-> SourceManifest, lsn |-> 0, at |-> LSN]]
  /\ UNCHANGED <<phase, source, target, records, jobT, history, counts>>
CaptureLSN ==
  /\ OnSource("finalize", "lsn")
  /\ jobS' = [jobS EXCEPT !.at = "artifact", !.fin.lsn = LSN]
  /\ UNCHANGED <<phase, source, target, records, jobT, history, counts>>
CaptureState ==
  /\ OnSource("finalize", "artifact") /\ jobS' = Idle
  /\ final' = jobS.fin /\ mS' = [mS EXCEPT !.st = "final-state-captured"]
  /\ UNCHANGED <<phase, source, target, mT, art, jobT, history, counts>>

\* Cleaning the source: only with its marker, and not while the slot is active.
CleanupSource ==
  /\ phase = "clean" /\ mS # None /\ ~(slot /\ worker)
  /\ Begins("clean", IF slot THEN "slot" ELSE "publication")
  /\ UNCHANGED <<phase, source, target, records, jobT, history, counts>>
CleanupSlot ==
  /\ OnSource("clean", "slot")
  /\ IF worker THEN jobS' = Idle /\ UNCHANGED slot ELSE GoesOn("publication") /\ slot' = FALSE
  /\ UNCHANGED <<phase, log, schema, pub, others, target, records, jobT, history, counts>>
CleanupPublication ==
  /\ OnSource("clean", "publication") /\ GoesOn("mark") /\ pub' = 0
  /\ UNCHANGED <<phase, log, schema, slot, others, target, records, jobT, history, counts>>
CleanupMark ==
  /\ OnSource("clean", "mark") /\ jobS' = Idle
  /\ mS' = [mS EXCEPT !.st = "source-cleaned"]
  /\ UNCHANGED <<phase, source, target, mT, art, final, jobT, history, counts>>

SourcePrimitives ==
  \/ PostgresLogicalSchemaDump \/ PrepareSource \/ PrepareCreate \/ PrepareReady
  \/ FinalizeSource \/ CaptureManifest \/ CaptureLSN \/ CaptureState
  \/ CleanupSource \/ CleanupSlot \/ CleanupPublication \/ CleanupMark

----------------------------------------------------------------------------
\* The schema reaches the target.  Init is after the reset of the target for this migration
\* (PostgresTarget); the backend may repeat the reset, which leaves the logical marker alone.
ResetTarget ==
  /\ phase = "restore" /\ jobT = Idle /\ tgt # EmptyTarget
  /\ tgt' = EmptyTarget
  /\ UNCHANGED <<phase, source, sub, worker, recv, records, jobS, jobT, history, counts>>

\* With a marker the schema must be there already, without one the target must be empty.
RestoreSchema ==
  /\ phase = "restore"
  /\ \/ mT = None /\ tgt.schema = 0 /\ BeginsT("restore", "load") /\ UNCHANGED <<phase, said>>
     \/ mT # None /\ jobT = Idle
        /\ IF tgt.schema = art /\ mT.schema = art THEN Succeeds ELSE Refuses
  /\ UNCHANGED <<source, target, records, jobS, verified, counts>>
RestoreLoad ==
  /\ OnTarget("restore", "load") /\ GoesOnT("mark")
  /\ tgt' = [tgt EXCEPT !.schema = art]
  /\ UNCHANGED <<source, sub, worker, recv, records, jobS, verified, counts>>
RestoreMark ==
  /\ OnTarget("restore", "mark") /\ Succeeds
  /\ mT' = [st |-> "schema-restored", schema |-> art, pub |-> 0, sub |-> FALSE, final |-> None]
  /\ UNCHANGED <<source, target, mS, art, final, jobS, verified, counts>>

----------------------------------------------------------------------------
\* The subscription.  One that exists is taken over if it is enabled and attached to our slot.
StartSubscription ==
  /\ phase = "start" /\ jobT = Idle
  /\ IF /\ mT # None /\ mT.schema = art /\ PublicationMatches /\ pub = mS.pub
        /\ sub.made => sub.enabled /\ sub.slot
       THEN BeginsT("start", IF sub.made THEN "definition" ELSE "slot") /\ UNCHANGED <<phase, said>>
       ELSE Refuses
  /\ UNCHANGED <<source, target, records, jobS, verified, counts>>

\* A slot nobody uses is left from a creation that was cut short: it is dropped.
StartSlot ==
  /\ OnTarget("start", "slot")
  /\ IF slot /\ worker THEN Refuses /\ UNCHANGED slot ELSE GoesOnT("create") /\ slot' = FALSE
  /\ UNCHANGED <<log, schema, pub, others, target, records, jobS, verified, counts>>
\* create subscription makes the slot at the source, then commits at the target
StartCreate ==
  /\ OnTarget("start", "create")
  /\ IF FreeSlot /\ ~slot
       THEN GoesOnT("commit") /\ slot' = TRUE /\ recv' = LSN
       ELSE Refuses /\ UNCHANGED <<slot, recv>>
  /\ UNCHANGED <<log, schema, pub, others, tgt, sub, worker, records, jobS, verified, counts>>
StartCommit ==
  /\ OnTarget("start", "commit") /\ GoesOnT("mark")
  /\ sub' = NewSub
  /\ UNCHANGED <<source, tgt, worker, recv, records, jobS, verified, counts>>
StartMark ==
  /\ OnTarget("start", "mark") /\ GoesOnT("definition")
  /\ mT' = [mT EXCEPT !.st = "subscription-created"]
  /\ UNCHANGED <<source, target, mS, art, final, jobS, verified, counts>>
StartDefinition ==
  /\ OnTarget("start", "definition")
  /\ IF SubscriptionMatches
       THEN GoesOnT("wait") /\ mT' = [mT EXCEPT !.st = "subscription-created", !.pub = pub, !.sub = TRUE]
       ELSE Refuses /\ UNCHANGED mT
  /\ UNCHANGED <<source, target, mS, art, final, jobS, verified, counts>>

\* One round of waitPostgresLogicalApply: the position of the source, then tables and worker.
WaitReads ==
  /\ OnTarget("start", "wait")
  /\ jobT' = [jobT EXCEPT !.at = "poll", !.lsn = LSN]
  /\ UNCHANGED <<phase, source, target, records, jobS, history, counts>>
WaitApply ==
  /\ OnTarget("start", "poll")
  /\ IF ~slot THEN Refuses ELSE GoesOnT(IF sub.ready /\ recv >= jobT.lsn THEN "replicating" ELSE "wait")
  /\ UNCHANGED <<source, target, records, jobS, verified, counts>>
StartReplicating ==
  /\ OnTarget("start", "replicating") /\ Succeeds
  /\ mT' = [mT EXCEPT !.st = "replicating"]
  /\ UNCHANGED <<source, target, mS, art, final, jobS, verified, counts>>

\* A wait ends at its deadline, when the slot stays inactive or retains too much.
GiveUp ==
  /\ jobT.at \in {"poll", "catch_up", "stop", "recover_stop"} /\ Refuses
  /\ UNCHANGED <<source, target, records, jobS, verified, counts>>

----------------------------------------------------------------------------
\* mutant: the status counts, whichever final state it is about
Recorded_AnyState(st) == mT.st = st

\* The finalization of the target, in one of three ways: it is finalized already, a previous
\* finalization verified it but did not end, or it starts from the replicating subscription.
Recorded(st) == mT.st = st /\ mT.final = FinalDigest(final)
FinalizeFrom ==
  CASE mT = None \/ final.schema # mT.schema -> "refused"
    [] OTHER ->
       CASE Recorded("finalized") -> "verify_again"
         [] Recorded("cleanup-pending") -> "recover_verify"
         [] OTHER -> IF SubscriptionMatches /\ mT.sub /\ PublicationMatches /\ mT.pub = pub
                       THEN "enable" ELSE "refused"
FinalizeTarget ==
  /\ phase = "finalize" /\ jobT = Idle /\ final # None
  /\ IF FinalizeFrom = "refused" THEN Refuses
                                 ELSE BeginsT("finalize", FinalizeFrom) /\ UNCHANGED <<phase, said>>
  /\ UNCHANGED <<source, target, records, jobS, verified, counts>>

InspectionMatches == TargetManifest = jobT.fin.man
Verifies == verified' = jobT.fin /\ Succeeds

\* From replicating: catch up with the final position, stop, set the sequences, verify.
FinalizeEnable ==
  /\ OnTarget("finalize", "enable") /\ GoesOnT("catch_up")
  /\ sub' = IF jobT.row.enabled THEN sub ELSE [sub EXCEPT !.enabled = TRUE]
  /\ UNCHANGED <<source, tgt, worker, recv, records, jobS, verified, counts>>

\* mutant: the worker being active is taken for having caught up
WaitFinalLSN_Active ==
  /\ OnTarget("finalize", "catch_up")
  /\ \/ ~slot /\ Refuses
     \/ slot /\ worker /\ GoesOnT("disable")
  /\ UNCHANGED <<source, target, records, jobS, verified, counts>>

WaitFinalLSN ==
  /\ OnTarget("finalize", "catch_up")
  /\ \/ ~slot /\ Refuses
     \/ slot /\ recv >= jobT.fin.lsn /\ GoesOnT("disable")
  /\ UNCHANGED <<source, target, records, jobS, verified, counts>>
FinalizeDisable ==
  /\ OnTarget("finalize", "disable") /\ GoesOnT("stop")
  /\ sub' = [sub EXCEPT !.enabled = FALSE]
  /\ UNCHANGED <<source, tgt, worker, recv, records, jobS, verified, counts>>

\* mutant: a disabled subscription is taken to have no worker
FinalizeStop_Assumed ==
  /\ OnTarget("finalize", "stop") /\ GoesOnT("sequences")
  /\ UNCHANGED <<source, target, records, jobS, verified, counts>>

FinalizeStop ==
  /\ OnTarget("finalize", "stop") /\ ~worker /\ GoesOnT("sequences")
  /\ UNCHANGED <<source, target, records, jobS, verified, counts>>
FinalizeSequences ==
  /\ OnTarget("finalize", "sequences") /\ GoesOnT("verify")
  /\ tgt' = [tgt EXCEPT !.seq = jobT.fin.man.seq]
  /\ UNCHANGED <<source, sub, worker, recv, records, jobS, verified, counts>>

FinalizeVerify ==
  /\ OnTarget("finalize", "verify")
  /\ IF InspectionMatches THEN GoesOnT("pending") ELSE Refuses
  /\ UNCHANGED <<source, target, records, jobS, verified, counts>>
\* The verdict is on record before the subscription goes.
FinalizePending ==
  /\ OnTarget("finalize", "pending") /\ GoesOnT("detach")
  /\ mT' = [mT EXCEPT !.st = "cleanup-pending", !.final = FinalDigest(jobT.fin)]
  /\ UNCHANGED <<source, target, mS, art, final, jobS, verified, counts>>
FinalizeDetach ==
  /\ OnTarget("finalize", "detach") /\ GoesOnT("drop")
  /\ sub' = [sub EXCEPT !.slot = FALSE]
  /\ UNCHANGED <<source, tgt, worker, recv, records, jobS, verified, counts>>
FinalizeDrop ==
  /\ OnTarget("finalize", "drop") /\ GoesOnT("done")
  /\ sub' = NoSub
  /\ UNCHANGED <<source, tgt, worker, recv, records, jobS, verified, counts>>
FinalizeDone ==
  /\ OnTarget("finalize", "done") /\ Verifies
  /\ mT' = [mT EXCEPT !.st = "finalized"]
  /\ UNCHANGED <<source, target, mS, art, final, jobS, counts>>

\* Recovery of a finalization that had verified the target: it is verified again, then
\* whatever is left of the subscription, as it was found, is taken away.
RecoverVerify ==
  /\ OnTarget("finalize", "recover_verify")
  /\ IF InspectionMatches
       THEN GoesOnT(IF jobT.row.made THEN "recover_disable" ELSE "recover_done")
       ELSE EndsT("drifted") /\ UNCHANGED phase
  /\ UNCHANGED <<source, target, records, jobS, verified, counts>>
RecoverDisable ==
  /\ OnTarget("finalize", "recover_disable") /\ GoesOnT("recover_stop")
  /\ sub' = IF jobT.row.enabled THEN [sub EXCEPT !.enabled = FALSE] ELSE sub
  /\ UNCHANGED <<source, tgt, worker, recv, records, jobS, verified, counts>>
RecoverDetach ==
  /\ OnTarget("finalize", "recover_stop") /\ ~worker /\ GoesOnT("recover_drop")
  /\ sub' = [sub EXCEPT !.slot = FALSE]
  /\ UNCHANGED <<source, tgt, worker, recv, records, jobS, verified, counts>>
RecoverDrop ==
  /\ OnTarget("finalize", "recover_drop") /\ GoesOnT("recover_done")
  /\ sub' = NoSub
  /\ UNCHANGED <<source, tgt, worker, recv, records, jobS, verified, counts>>
RecoverDone ==
  /\ OnTarget("finalize", "recover_done") /\ Verifies
  /\ mT' = [mT EXCEPT !.st = "finalized"]
  /\ UNCHANGED <<source, target, mS, art, final, jobS, counts>>

VerifyAgain ==
  /\ OnTarget("finalize", "verify_again")
  /\ IF InspectionMatches THEN Verifies ELSE EndsT("drifted") /\ UNCHANGED <<phase, verified>>
  /\ UNCHANGED <<source, target, records, jobS, counts>>

\* Cleaning the target.  The inventory query selects two columns, the ownership test wants
\* three: a subscription that exists is always refused.
CleanupColumns == <<sub.enabled, sub.slot>>
CleanupTarget ==
  /\ phase = "clean" /\ jobT = Idle
  /\ \/ ~sub.made /\ EndsT("ok") /\ mT' = IF mT = None THEN None ELSE [mT EXCEPT !.st = "cleaned"]
     \/ sub.made /\ (mT = None \/ Len(CleanupColumns) # 3) /\ UNCHANGED mT
        /\ EndsT(IF mT = None THEN "without_ownership" ELSE "not_owned")
  /\ UNCHANGED <<phase, source, target, mS, art, final, jobS, verified, counts>>

TargetPrimitives ==
  \/ ResetTarget \/ RestoreSchema \/ RestoreLoad \/ RestoreMark
  \/ StartSubscription \/ StartSlot \/ StartCreate \/ StartCommit \/ StartMark \/ StartDefinition
  \/ WaitReads \/ WaitApply \/ StartReplicating \/ GiveUp
  \/ FinalizeTarget \/ FinalizeEnable \/ WaitFinalLSN \/ FinalizeDisable \/ FinalizeStop
  \/ FinalizeSequences \/ FinalizeVerify \/ FinalizePending \/ FinalizeDetach \/ FinalizeDrop
  \/ FinalizeDone \/ RecoverVerify \/ RecoverDisable \/ RecoverDetach \/ RecoverDrop \/ RecoverDone
  \/ VerifyAgain \/ CleanupTarget

Environment ==
  \/ \E kind \in Kinds : Write(kind)
  \/ Interference \/ WorkerStarts \/ WorkerStops \/ Copy \/ Apply \/ Interrupt \/ Abort

Next == Environment \/ SourcePrimitives \/ TargetPrimitives
Spec == Init /\ [][Next]_vars

----------------------------------------------------------------------------
\* Every variable keeps its type; slots are within max_replication_slots, an apply worker has
\* its slot, the target holds no more than the source has, and the position of a final state
\* is not before its manifest.
TypeOK ==
  /\ phase \in {"prepare", "restore", "start", "finalize", "clean"}
  /\ log \in Seq(Kinds) /\ LSN \in 1..MaxWrites + 1
  /\ schema \in Versions /\ pub \in 0..2 /\ slot \in BOOLEAN
  /\ others \in 0..MaxSlots /\ (IF slot THEN 1 ELSE 0) + others <= MaxSlots
  /\ tgt \in Contents /\ tgt.rows <= LSN /\ tgt.seq \subseteq 1..LSN
  /\ sub \in Subscription /\ worker \in BOOLEAN /\ (worker => slot) /\ recv \in 0..LSN
  /\ mS \in SourceMarker \cup {None} /\ mT \in TargetMarker \cup {None}
  /\ art \in Versions \cup {None} /\ final \in FinalState \cup {None}
  /\ final # None => final.at \in 1..final.lsn /\ final.lsn <= LSN
  /\ jobS \in SourceJob \cup {Idle}
  /\ jobT \in TargetJob("restore") \cup TargetJob("start") \cup TargetJob("finalize") \cup {Idle}
  /\ said \in {"nothing", "ok", "refused", "drifted", "without_ownership", "not_owned"}
  /\ verified \in FinalState \cup {None}
  /\ mishaps \in 0..MaxMishaps /\ captures \in 0..MaxCaptures

\* A target reported as verified holds every change the source had when its final state was
\* captured, the ones no manifest sees included, and if nothing was written since, it holds
\* exactly the source, its sequences too.  postgresLogicalFinalizeTarget waits for a
\* position taken after the manifest; the manifest alone would not notice a missing row.
VerifiedHoldsSource ==
  verified # None /\ ~tgt.foreign =>
    /\ tgt.rows >= verified.at
    /\ LSN = verified.at => tgt.rows = LSN /\ tgt.seq = Entries(log, "sequence", LSN)

\* The subscription is detached or dropped only while the target is what the recorded final
\* state says: an apply worker on its way out has not changed it since the verdict.
DetachedVerified ==
  [][sub.made /\ sub.slot /\ ~sub'.slot /\ ~tgt.foreign =>
       mT.st = "cleanup-pending" /\ TargetManifest = mT.final.man]_vars

\* A finalization that was cut short after its verdict, or is repeated after its end, finds
\* the target as it left it, unless somebody else wrote to it.
RecoveryFindsVerdict == said = "drifted" => tgt.foreign

\* No crash leaves an object that the cleanup primitives would refuse for want of a marker
\* ("exists without Askio ownership"): publication, slot and subscription each have theirs.
ObjectsOwned == (pub # 0 \/ slot => mS # None) /\ (sub.made => mT # None)
===========================================================================
