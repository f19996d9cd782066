---------------------------- MODULE MongoTarget ----------------------------
(***************************************************************************)
(* The MongoDB primitives (internal/migration/mongodb.go).  A unit is a    *)
(* document.  mongodump reads the documents one after another while        *)
(* clients go on writing; with oplog replay the changes since the dump     *)
(* began are captured as a delta, and the dump is complete only when       *)
(* nothing has changed after the window it captured.                       *)
(***************************************************************************)
EXTENDS DatabaseHosts

\* normalizeMongoDBIdentities: an identity that is not mapped is refused
IdentityMap == [owner |-> "target", reader |-> "target2"]
MongoMapped(entries) == \A e \in entries : e.who \in DOMAIN IdentityMap
NormalizeMongoDBIdentities(entries) == {[e EXCEPT !.who = IdentityMap[e.who]] : e \in entries}

\* a database is empty without collections: one that held documents is not
MongoDBEmpty == \A u \in Units : target[u] = Fresh
MongoDBManifest == [seen |-> [u \in Units |-> Seen(target[u].val)], acl |-> grants[1]]

\* inspectMongoDB of the source: dbHash covers all documents at one moment
InspectMongoDB(d) ==
  [d EXCEPT !.want = SeenNow, !.acl[1] = NormalizeMongoDBIdentities(acl[1]), !.cut = SeenNow]

MongoDBInspect(m) ==
  /\ engine = "mongodb" /\ job = IdleJob /\ approved[m] = None
  /\ MongoDBEmpty
  /\ approved' = [approved EXCEPT ![m] = "empty"]
  /\ UNCHANGED <<hosts, atSource, ttl, atTarget, marker, artifact, dump, job, done, count>>

----------------------------------------------------------------------------
MongoDBDump(m) ==
  /\ engine = "mongodb" /\ StartDump(m, "inspect")
  /\ UNCHANGED <<hosts, atSource, ttl, atTarget, records, job, done>>

MongoDBDumpInspect ==
  /\ DumpAt("mongodb", "inspect")
  /\ dump' = IF MongoMapped(acl[1])
               THEN [InspectMongoDB(dump) EXCEPT !.at = IF variant = "oplog" THEN "start" ELSE "dump"]
               ELSE IdleDump
  /\ UNCHANGED <<hosts, atSource, ttl, atTarget, records, job, done, count>>

\* captureMongoDBOplogTimestamp: the window opens at the last entry there is
CaptureMongoDBOplogTimestamp ==
  /\ DumpAt("mongodb", "start")
  /\ dump' = [dump EXCEPT !.at = "dump", !.start = Len(oplog)]
  /\ UNCHANGED <<hosts, atSource, ttl, atTarget, records, job, done, count>>

MongoDBDumpDocument ==
  /\ DumpAt("mongodb", "dump")
  /\ LET d == [dump EXCEPT !.data[dump.unit] = source[dump.unit]]
     IN IF variant = "plain" /\ dump.unit = Last
          THEN Complete(d)
          ELSE dump' = DumpOn(d, "window") /\ UNCHANGED artifact
  /\ UNCHANGED <<hosts, atSource, ttl, atTarget, marker, approved, job, done, count>>

\* captureMongoDBOplogDelta: what was changed in the window.  It fails when the start of the
\* window is no longer in the oplog, and on commands, which no document stands for.
CaptureMongoDBOplogDelta ==
  /\ DumpAt("mongodb", "window")
  /\ LET ids == {oplog[i] : i \in dump.start + 1 .. Len(oplog)}
     IN dump' = IF oldest >= dump.start \/ 3 \in ids
                  THEN IdleDump
                  ELSE [dump EXCEPT !.at = "delta", !.end = Len(oplog), !.ids = ids]
  /\ UNCHANGED <<hosts, atSource, ttl, atTarget, records, job, done, count>>

\* then the changed documents as they are now, one after another
CaptureMongoDBMutation ==
  /\ DumpAt("mongodb", "delta")
  /\ dump' = DumpOn([dump EXCEPT !.delta[dump.unit] =
                       IF dump.unit \in dump.ids THEN source[dump.unit] ELSE Nothing], "close")
  /\ UNCHANGED <<hosts, atSource, ttl, atTarget, records, job, done, count>>

MongoDBChangedAfterEnd == Len(oplog) > dump.end

CloseMongoDBOplogDelta ==
  /\ DumpAt("mongodb", "close")
  /\ dump' = IF MongoDBChangedAfterEnd THEN IdleDump ELSE [dump EXCEPT !.at = "final"]
  /\ UNCHANGED <<hosts, atSource, ttl, atTarget, records, job, done, count>>

\* the manifest the restore is held to is taken after the window
MongoDBDumpFinalInspect ==
  /\ DumpAt("mongodb", "final")
  /\ dump' = IF MongoMapped(acl[1]) THEN [InspectMongoDB(dump) EXCEPT !.at = "stable"] ELSE IdleDump
  /\ UNCHANGED <<hosts, atSource, ttl, atTarget, records, job, done, count>>

VerifyMongoDBOplogStableAfter ==
  /\ DumpAt("mongodb", "stable")
  /\ IF MongoDBChangedAfterEnd THEN dump' = IdleDump /\ UNCHANGED artifact ELSE Complete(dump)
  /\ UNCHANGED <<hosts, atSource, ttl, atTarget, marker, approved, job, done, count>>

----------------------------------------------------------------------------
MongoDBReset(m) ==
  /\ engine = "mongodb" /\ approved[m] # None
  /\ Happens("reset", MaxResets)
  /\ Approves(m, MongoDBEmpty, "empty")
  /\ StartJob("reset", m, "drop", FALSE, None)
  /\ Forget(m)
  /\ UNCHANGED <<hosts, atSource, ttl, atTarget, records, dump>>

\* users and roles of the target stay
MongoDBResetDrop ==
  /\ JobAt("mongodb", "reset", "drop")
  /\ target' = [u \in Units |-> Fresh]
  /\ Goto("mark", 1)
  /\ UNCHANGED <<hosts, atSource, ttl, grants, records, dump, done, count>>

MongoDBResetMark ==
  /\ JobAt("mongodb", "reset", "mark")
  /\ SaveMarker(job.mig)
  /\ EndJob
  /\ UNCHANGED <<hosts, atSource, ttl, atTarget, approved, artifact, dump, done, count>>

----------------------------------------------------------------------------
MongoDBRestore(m) ==
  /\ engine = "mongodb" /\ artifact[m] # None
  /\ LoadMarker(m).mig = m
  /\ MongoDBEmpty
  /\ StartJob("restore", m, "load", FALSE, artifact[m])
  /\ Forget(m)
  /\ UNCHANGED <<hosts, atSource, ttl, atTarget, records, dump, count>>

\* mongorestore, document by document; it stops at one that is already there
MongoDBRestoreLoad ==
  /\ JobAt("mongodb", "restore", "load")
  /\ IF target[u_].val = Nothing \/ job.art.data[u_] = Nothing
       THEN /\ target' = IF job.art.data[u_] = Nothing /\ target[u_].val # Nothing THEN target
                         ELSE [target EXCEPT ![u_] = Holding(job.art.data[u_], job.mig)]
            /\ NextUnit("load", IF variant = "oplog" THEN "delta" ELSE "identities")
       ELSE EndJob /\ UNCHANGED target
  /\ UNCHANGED <<hosts, atSource, ttl, grants, records, dump, done, count>>

\* applyMongoDBOplogDelta: each changed document is replaced, or deleted
ApplyMongoDBOplogDelta ==
  /\ JobAt("mongodb", "restore", "delta")
  /\ target' = IF u_ \in job.art.ids THEN [target EXCEPT ![u_] = Holding(job.art.delta[u_], job.mig)] ELSE target
  /\ NextUnit("delta", "identities")
  /\ UNCHANGED <<hosts, atSource, ttl, grants, records, dump, done, count>>

\* applyMongoDBIdentities sets the roles of every mapped identity to those of the artifact
ApplyMongoDBIdentities ==
  /\ JobAt("mongodb", "restore", "identities")
  /\ grants' = [grants EXCEPT ![1] = job.art.acl[1]]
  /\ Goto("verify", 1)
  /\ UNCHANGED <<hosts, atSource, ttl, target, records, dump, done, count>>

MongoDBManifestMatches(art) == MongoDBManifest = [seen |-> art.want, acl |-> art.acl[1]]

MongoDBRestoreVerify ==
  /\ JobAt("mongodb", "restore", "verify")
  /\ EndJob
  /\ Verdict(MongoDBManifestMatches(job.art))
  /\ UNCHANGED <<hosts, atSource, ttl, atTarget, records, dump, count>>

MongoDBVerify(m) ==
  /\ engine = "mongodb" /\ Verified(m, MongoDBManifestMatches(done[m].art))
  /\ UNCHANGED <<hosts, atSource, ttl, atTarget, records, dump, job, count>>

MongoDBNext ==
  \/ \E m \in Migrations :
       MongoDBInspect(m) \/ MongoDBDump(m) \/ MongoDBReset(m) \/ MongoDBRestore(m) \/ MongoDBVerify(m)
  \/ MongoDBDumpInspect \/ CaptureMongoDBOplogTimestamp \/ MongoDBDumpDocument
  \/ CaptureMongoDBOplogDelta \/ CaptureMongoDBMutation \/ CloseMongoDBOplogDelta
  \/ MongoDBDumpFinalInspect \/ VerifyMongoDBOplogStableAfter
  \/ MongoDBResetDrop \/ MongoDBResetMark
  \/ MongoDBRestoreLoad \/ ApplyMongoDBOplogDelta \/ ApplyMongoDBIdentities \/ MongoDBRestoreVerify
=============================================================================
