------------------------- MODULE DatabaseMigration -------------------------
(***************************************************************************)
(* The four database engines as one system: the initial state chooses the  *)
(* engine and its configuration, the migrations take turns on its target   *)
(* and the environment goes on around them.  executePrimitive              *)
(* (internal/migration/executor.go) sends a task to the primitive of its   *)
(* engine; an agent runs one task at a time.                               *)
(***************************************************************************)
EXTENDS PostgresTarget, MySQLTarget, MongoTarget, RedisTarget

Next == Environment \/ PostgresNext \/ MySQLNext \/ MongoDBNext \/ RedisNext
Spec == Init /\ [][Next]_vars

----------------------------------------------------------------------------
\* What the variables hold.
UnitState == [made: BOOLEAN, val: Contents, by: Migrations \cup {None, "other"}]
Artifacts ==
  [want: [Units -> Nat], acl: [Units -> SUBSET Entries], data: [Units -> Versions],
   ids: SUBSET (0..3), delta: [Units -> Versions], cut: [Units -> Nat], calm: BOOLEAN]
DumpSteps ==
  {"inspect", "grants", "start", "dump", "window", "delta", "close", "final", "stable", "scan"}
Dumps ==
  [mig: Migrations \cup {None}, at: DumpSteps \cup {"idle"}, unit: Units, start: Nat, end: Nat,
   want: [Units -> Nat], acl: [Units -> SUBSET Entries], data: [Units -> Versions],
   ids: SUBSET (0..3), delta: [Units -> Versions], cut: [Units -> Nat], calm: BOOLEAN]
JobSteps ==
  {"drop", "create", "mark", "revoke", "flush", "flushed", "load", "acl", "check", "grant", "delta",
   "identities", "verify"}
Jobs ==
  [op: {"idle", "reset", "restore"}, mig: Migrations \cup {None}, at: JobSteps \cup {"idle"}, unit: Units,
   owned: BOOLEAN, art: Artifacts \cup {None}]
Outcomes == [at: {"no", "ok", "rejected", "verified", "failed"}, art: Artifacts \cup {None}]

SourceOK ==
  /\ source \in [Units -> Versions] /\ acl \in [Units -> Acls] /\ ttl \in {"far", "near", "gone"}
  /\ oldest \in 0..MaxWrites /\ oplog \in Seq(0..3) /\ Len(oplog) \in oldest + 1 .. MaxWrites + 1
TargetOK ==
  /\ target \in [Units -> UnitState] /\ grants \in [Units -> SUBSET Entries]
  /\ \A u \in Units : ~target[u].made => target[u] = Absent
RecordsOK ==
  /\ DOMAIN marker = Bindings /\ \A b \in Bindings : marker[b].mig \in Migrations \cup {None}
  /\ DOMAIN approved = Migrations /\ artifact \in [Migrations -> Artifacts \cup {None}]
DumpOK ==
  /\ dump \in Dumps
  /\ dump = IdleDump \/ (dump.mig \in Migrations /\ dump.at \in DumpSteps /\ dump.unit \in Scope)
JobOK ==
  /\ job \in Jobs
  /\ job = IdleJob \/ (job.op # "idle" /\ job.at \in JobSteps /\ job.mig \in Migrations /\ job.unit \in Scope)
  /\ job.op = "restore" => job.art \in Artifacts
DoneOK ==
  done \in [Migrations -> Outcomes] /\ \A m \in Migrations : done[m].at # "no" => done[m].art \in Artifacts
CountOK ==
  /\ count \in [{"write", "foreign", "interrupt", "dump", "reset"} -> Nat]
  /\ count["write"] <= MaxWrites /\ count["dump"] <= MaxDumps /\ count["reset"] <= MaxResets
  /\ count["foreign"] + count["interrupt"] <= MaxMishaps

\* Every variable keeps its type: each host has at most one primitive at work, on a unit of
\* the database and for a migration; what is not there holds nothing; the bounds are kept.
TypeOK ==
  /\ <<engine, variant>> \in Variants /\ SourceOK /\ TargetOK /\ RecordsOK /\ DumpOK /\ JobOK /\ DoneOK
  /\ CountOK

\* What a migration has restored is destroyed by no primitive of another migration with the
\* same binding: the approval rule of the resets and the ownership check of the restores are
\* about this.  Markers are kept per binding, so with a second binding for the same target
\* the rule is lost: a migration that uses another binding destroys it, if it had reset the
\* target before and comes back.
RestoredKept ==
  [][\A u \in Units : target[u].by \in Migrations /\ target'[u] # target[u] =>
       \/ job.op = "idle" \/ job.mig = target[u].by
       \/ BindingOf[job.mig] # BindingOf[target[u].by] /\ LoadMarker(job.mig).mig = job.mig]_vars

\* m's restore ends, or a verify primitive of m, with this outcome.
Ends(m, outcomes) == done'[m] # done[m] /\ done'[m].at \in outcomes

\* What a restore that succeeds leaves in the target, and a later verify primitive finds
\* there, is the source as it was at one moment: when the inspection that gave the
\* expected manifest was complete.  Members of a set, tables and documents are read at
\* different times, and clients write all along; only a Redis dump must rely on the
\* source keeping still.
RestoredIsCut ==
  [][\A m \in Migrations :
       Ends(m, {"ok", "verified"}) /\ (engine = "redis" => done'[m].art.calm) =>
         \A u \in Scope : Seen(target'[u].val) = done'[m].art.cut[u]]_vars

\* The marker of some binding shows that another migration than m has reset the target.
TakenOver(m) == \E n \in Migrations : LoadMarker(n).mig \notin {None, m}

\* Verification, at the end of a restore or later, rejects only what deserves it: the source
\* changed visibly between the inspection and the dump (with oplog replay the dump fails
\* instead), somebody else wrote to the target, another migration took it over, with this
\* binding or another one, or a volatile key expired.  Privileges survive their mapping,
\* merging and re-granting.
RejectedOnlyWhenDrifted ==
  [][\A m \in Migrations :
       Ends(m, {"rejected", "failed"}) =>
         \/ count["foreign"] > 0 \/ TakenOver(m)
         \/ engine = "redis" /\ ttl = "gone"
         \/ /\ variant # "oplog" /\ done'[m].at = "rejected"
            /\ \E u \in Scope : Seen(done'[m].art.data[u]) # done'[m].art.want[u]]_vars

\* postgresResetDatabaseSet: whatever a reset of a database set has dropped or created when
\* it dies, its migration can run it again.
SetResetRetryable ==
  variant = "set" /\ job.op = "reset" => Approves(job.mig, PostgresEmpty, InspectPostgresDatabaseSet)
=============================================================================
