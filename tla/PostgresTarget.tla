--------------------------- MODULE PostgresTarget ---------------------------
(***************************************************************************)
(* The offline PostgreSQL primitives (internal/migration/postgres.go) for  *)
(* one database and for a database set: inspect, dump, reset, restore and  *)
(* verify.  A unit is a database.  Every source role is mapped to the one  *)
(* target role; the privileges travel in an artifact of their own because  *)
(* pg_restore runs with --no-privileges.                                   *)
(***************************************************************************)
EXTENDS DatabaseHosts

\* parsePostgresBinding: every source role maps to the single target owner
RoleMap == [owner |-> "target", reader |-> "target"]
NormalizePostgresACLGrantee(who) == IF who \in DOMAIN RoleMap THEN RoleMap[who] ELSE who

\* The privileges in a manifest: grantees normalised, and two entries that become one
\* merged, with grant option if either has it.
InspectPostgresPrivileges(entries) ==
  LET who == {NormalizePostgresACLGrantee(e.who) : e \in entries}
  IN {[who |-> w, opt |-> \E e \in entries : NormalizePostgresACLGrantee(e.who) = w /\ e.opt] : w \in who}

\* What of them the manifest digest covers: ownership implies the owner's own.
PostgresContentManifestDigest(seen, privileges) ==
  [seen |-> seen, acl |-> privileges \ {[who |-> "target", opt |-> FALSE]}]

\* inspectPostgres of a target database
InspectPostgres(u) ==
  [exists |-> target[u].made, empty |-> target[u].val = Nothing,
   manifest |-> IF target[u].made
                  THEN PostgresContentManifestDigest(Seen(target[u].val), InspectPostgresPrivileges(grants[u]))
                  ELSE None]
\* what is not there has no manifest
ASSUME PostgresAssumption == None \notin [seen: Nat, acl: SUBSET Entries]

PostgresEmptyTargetDigest(u) == [exists |-> InspectPostgres(u).exists, empty |-> InspectPostgres(u).empty]
InspectPostgresDatabaseSet == [u \in Scope |-> PostgresEmptyTargetDigest(u)]
PostgresEmpty == \A u \in Scope : InspectPostgres(u).empty

\* postgresInspect of the target with require_empty_target
PostgresInspect(m) ==
  /\ engine = "postgres" /\ job = IdleJob /\ approved[m] = None
  /\ PostgresEmpty
  /\ approved' = [approved EXCEPT ![m] = InspectPostgresDatabaseSet]
  /\ UNCHANGED <<hosts, atSource, ttl, atTarget, marker, artifact, dump, job, done, count>>

----------------------------------------------------------------------------
\* postgresDump and postgresDumpDatabaseSet: all members are inspected, one after
\* another, before the first of them is dumped.
PostgresDump(m) ==
  /\ engine = "postgres" /\ StartDump(m, "inspect")
  /\ UNCHANGED <<hosts, atSource, ttl, atTarget, records, job, done>>

InspectPostgresMember(d) ==
  [d EXCEPT !.want[d.unit] = Seen(source[d.unit]), !.acl[d.unit] = InspectPostgresPrivileges(acl[d.unit]),
            !.cut = SeenNow]

PostgresDumpInspect ==
  /\ DumpAt("postgres", "inspect")
  /\ dump' = DumpOn(InspectPostgresMember(dump), "dump")
  /\ UNCHANGED <<hosts, atSource, ttl, atTarget, records, job, done, count>>

\* mutant: each member is inspected right before it is dumped
PostgresDumpMember_InspectsLate ==
  /\ DumpAt("postgres", "dump")
  /\ LET d == [InspectPostgresMember(dump) EXCEPT !.data[dump.unit] = source[dump.unit]]
     IN IF dump.unit < Last
          THEN dump' = DumpOn(d, "dump") /\ UNCHANGED artifact
          ELSE Complete(d)
  /\ UNCHANGED <<hosts, atSource, ttl, atTarget, marker, approved, job, done, count>>

\* pg_dump works on one snapshot of its database; after the last one the artifact is complete.
PostgresDumpMember ==
  /\ DumpAt("postgres", "dump")
  /\ LET d == [dump EXCEPT !.data[dump.unit] = source[dump.unit]]
     IN IF dump.unit < Last
          THEN dump' = DumpOn(d, "dump") /\ UNCHANGED artifact
          ELSE Complete(d)
  /\ UNCHANGED <<hosts, atSource, ttl, atTarget, marker, approved, job, done, count>>

----------------------------------------------------------------------------
\* postgresReset of one database: the marker is saved at the end.
PostgresReset(m) ==
  /\ engine = "postgres" /\ variant = "single" /\ approved[m] # None
  /\ Happens("reset", MaxResets)
  /\ Approves(m, PostgresEmpty, InspectPostgresDatabaseSet)
  /\ StartJob("reset", m, "drop", FALSE, None)
  /\ Forget(m)
  /\ UNCHANGED <<hosts, atSource, ttl, atTarget, records, dump>>

\* mutant: the marker of a set is saved at the end only
PostgresResetDatabaseSet_MarksLate(m) ==
  /\ engine = "postgres" /\ variant = "set" /\ approved[m] # None
  /\ Happens("reset", MaxResets)
  /\ Approves(m, PostgresEmpty, InspectPostgresDatabaseSet)
  /\ StartJob("reset", m, "drop", FALSE, None)
  /\ Forget(m)
  /\ UNCHANGED <<hosts, atSource, ttl, atTarget, records, dump>>

\* postgresResetDatabaseSet: the marker is saved before the first database is dropped.
PostgresResetDatabaseSet(m) ==
  /\ engine = "postgres" /\ variant = "set" /\ approved[m] # None
  /\ Happens("reset", MaxResets)
  /\ Approves(m, PostgresEmpty, InspectPostgresDatabaseSet)
  /\ StartJob("reset", m, "drop", FALSE, None)
  /\ SaveMarker(m)
  /\ Forget(m)
  /\ UNCHANGED <<hosts, atSource, ttl, atTarget, approved, artifact, dump>>

PostgresResetDrop ==
  /\ JobAt("postgres", "reset", "drop")
  /\ target' = [target EXCEPT ![u_] = Absent]
  /\ grants' = [grants EXCEPT ![u_] = {}]
  /\ Goto("create", u_)
  /\ UNCHANGED <<hosts, atSource, ttl, records, dump, done, count>>

\* what a database is created with: the owner's privileges and those of PUBLIC on its schema
DefaultACL == {[who |-> "target", opt |-> FALSE], [who |-> "PUBLIC", opt |-> FALSE]}

PostgresResetCreate ==
  /\ JobAt("postgres", "reset", "create")
  /\ target' = [target EXCEPT ![u_] = Fresh]
  /\ grants' = [grants EXCEPT ![u_] = DefaultACL]
  /\ NextUnit("drop", "mark")
  /\ UNCHANGED <<hosts, atSource, ttl, records, dump, done, count>>

PostgresResetMark ==
  /\ JobAt("postgres", "reset", "mark")
  /\ SaveMarker(job.mig)
  /\ EndJob
  /\ UNCHANGED <<hosts, atSource, ttl, atTarget, approved, artifact, dump, done, count>>

----------------------------------------------------------------------------
\* postgresRestore of one database, which need not exist
PostgresRestore(m) ==
  /\ engine = "postgres" /\ variant = "single" /\ artifact[m] # None
  /\ LoadMarker(m).mig = m
  /\ PostgresEmpty
  /\ StartJob("restore", m, "load", FALSE, artifact[m])
  /\ Forget(m)
  /\ UNCHANGED <<hosts, atSource, ttl, atTarget, records, dump, count>>

\* postgresRestoreDatabaseSet: every member must be empty before the first is restored
PostgresRestoreDatabaseSet(m) ==
  /\ engine = "postgres" /\ variant = "set" /\ artifact[m] # None
  /\ LoadMarker(m).mig = m
  /\ PostgresEmpty
  /\ StartJob("restore", m, "load", FALSE, artifact[m])
  /\ Forget(m)
  /\ UNCHANGED <<hosts, atSource, ttl, atTarget, records, dump, count>>

\* pg_restore in a single transaction; it fails without the database, and on the objects
\* somebody else has made meanwhile
PostgresRestoreLoad ==
  /\ JobAt("postgres", "restore", "load")
  /\ IF target[u_] = Fresh
       THEN target' = [target EXCEPT ![u_] = Holding(job.art.data[u_], job.mig)] /\ Goto("acl", u_)
       ELSE EndJob /\ UNCHANGED target
  /\ UNCHANGED <<hosts, atSource, ttl, grants, records, dump, done, count>>

\* mutant: PUBLIC keeps what it has by default
ApplyPostgresACL_KeepsPublic(old, privileges) ==
  LET opt(w) == \E e \in old \cup privileges : e.who = w /\ e.opt
  IN {[who |-> e.who, opt |-> opt(e.who)] : e \in old \cup privileges}

\* applyPostgresACL, in a single transaction: PUBLIC loses what it has by default, then
\* every privilege of the artifact is granted.
ApplyPostgresACL(old, privileges) ==
  LET kept == {e \in old : e.who # "PUBLIC"}
      opt(w) == \E e \in kept \cup privileges : e.who = w /\ e.opt
  IN {[who |-> e.who, opt |-> opt(e.who)] : e \in kept \cup privileges}

PostgresRestoreACL ==
  /\ JobAt("postgres", "restore", "acl")
  /\ grants' = [grants EXCEPT ![u_] = ApplyPostgresACL(@, job.art.acl[u_])]
  /\ Goto(IF variant = "set" THEN "check" ELSE "verify", u_)
  /\ UNCHANGED <<hosts, atSource, ttl, target, records, dump, done, count>>

PostgresExpected(art, u) == PostgresContentManifestDigest(art.want[u], art.acl[u])

\* of a set: after each member its manifest
PostgresRestoreCheck ==
  /\ JobAt("postgres", "restore", "check")
  /\ IF InspectPostgres(u_).manifest = PostgresExpected(job.art, u_)
       THEN NextUnit("load", "verify") /\ UNCHANGED done
       ELSE EndJob /\ Verdict(FALSE)
  /\ UNCHANGED <<hosts, atSource, ttl, atTarget, records, dump, count>>

\* and in the end the manifest of the database, or the aggregate manifest of the set
PostgresManifestMatches(art) ==
  \A u \in Scope : InspectPostgres(u).manifest = PostgresExpected(art, u)

PostgresRestoreVerify ==
  /\ JobAt("postgres", "restore", "verify")
  /\ EndJob
  /\ Verdict(PostgresManifestMatches(job.art))
  /\ UNCHANGED <<hosts, atSource, ttl, atTarget, records, dump, count>>

PostgresVerify(m) ==
  /\ engine = "postgres" /\ Verified(m, PostgresManifestMatches(done[m].art))
  /\ UNCHANGED <<hosts, atSource, ttl, atTarget, records, dump, job, count>>

PostgresNext ==
  \/ \E m \in Migrations :
       \/ PostgresInspect(m) \/ PostgresDump(m) \/ PostgresReset(m) \/ PostgresResetDatabaseSet(m)
       \/ PostgresRestore(m) \/ PostgresRestoreDatabaseSet(m) \/ PostgresVerify(m)
  \/ PostgresDumpInspect \/ PostgresDumpMember
  \/ PostgresResetDrop \/ PostgresResetCreate \/ PostgresResetMark
  \/ PostgresRestoreLoad \/ PostgresRestoreACL \/ PostgresRestoreCheck \/ PostgresRestoreVerify
=============================================================================
