---------------------------- MODULE MySQLTarget ----------------------------
(***************************************************************************)
(* The offline MySQL and MariaDB primitives (internal/migration/mysql.go). *)
(* A unit is a table of the one database.  Accounts are mapped one to one, *)
(* grants are applied and revoked statement by statement, and they survive *)
(* the database they are about (grants[1] holds them).                     *)
(***************************************************************************)
EXTENDS DatabaseHosts

\* sourceAccountMap, mapMySQLPrincipal: an account that is not mapped is refused
AccountMap == [owner |-> "target", reader |-> "target2"]
MySQLMapped(entries) == \A e \in entries : e.who \in DOMAIN AccountMap
MapMySQLPrincipal(entries) == {[e EXCEPT !.who = AccountMap[e.who]] : e \in entries}

\* the privilege tables have one row for an account
ASSUME MySQLAssumption == \A a \in Acls : \A e, f \in a : e.who = f.who => e = f

\* mysqlTableDataDigest covers every row of the table
MySQLTableDataDigest(content) == Seen(content)

MySQLExists == target[1].made
MySQLTables == \E u \in Units : target[u].val # Nothing
MySQLEmpty == IF MySQLExists THEN ~MySQLTables ELSE grants[1] = {}
MySQLEmptyTargetDigest ==
  [exists |-> MySQLExists, empty |-> MySQLEmpty, grants |-> Cardinality(grants[1])]
MySQLManifest == [seen |-> [u \in Units |-> MySQLTableDataDigest(target[u].val)], acl |-> grants[1]]

\* mysqlInspect of the target with require_empty_target
MySQLInspect(m) ==
  /\ engine = "mysql" /\ job = IdleJob /\ approved[m] = None
  /\ MySQLEmpty /\ grants[1] = {}
  /\ approved' = [approved EXCEPT ![m] = MySQLEmptyTargetDigest]
  /\ UNCHANGED <<hosts, atSource, ttl, atTarget, marker, artifact, dump, job, done, count>>

----------------------------------------------------------------------------
MySQLDump(m) ==
  /\ engine = "mysql" /\ StartDump(m, "inspect")
  /\ UNCHANGED <<hosts, atSource, ttl, atTarget, records, job, done>>

\* inspectMySQL reads the tables one by one and then the grants
MySQLDumpInspect ==
  /\ DumpAt("mysql", "inspect")
  /\ dump' = DumpOn([dump EXCEPT !.want[dump.unit] = MySQLTableDataDigest(source[dump.unit]), !.cut = SeenNow], "grants")
  /\ UNCHANGED <<hosts, atSource, ttl, atTarget, records, job, done, count>>

MySQLGrantInventory ==
  /\ DumpAt("mysql", "grants")
  /\ dump' = IF MySQLMapped(acl[1])
               THEN [dump EXCEPT !.at = "dump", !.acl[1] = MapMySQLPrincipal(acl[1])]
               ELSE IdleDump
  /\ UNCHANGED <<hosts, atSource, ttl, atTarget, records, job, done, count>>

\* mysqldump reads all tables from one snapshot, or with all of them locked
MySQLDumpTables ==
  /\ DumpAt("mysql", "dump")
  /\ Complete([dump EXCEPT !.data = source])
  /\ UNCHANGED <<hosts, atSource, ttl, atTarget, marker, approved, job, done, count>>

----------------------------------------------------------------------------
MySQLReset(m) ==
  /\ engine = "mysql" /\ approved[m] # None
  /\ Happens("reset", MaxResets)
  /\ grants[1] # {} => OwnedByRun(m)
  /\ Approves(m, MySQLEmpty, MySQLEmptyTargetDigest)
  /\ StartJob("reset", m, IF OwnedByRun(m) THEN "revoke" ELSE "drop", OwnedByRun(m), None)
  /\ Forget(m)
  /\ UNCHANGED <<hosts, atSource, ttl, atTarget, records, dump>>

MySQLGrantOptionRevoke(g) == [g EXCEPT !.opt = FALSE]

\* applyMySQLGrants with revoke: first every grant option, then grant by grant
MySQLRevoke ==
  /\ JobAt("mysql", "reset", "revoke")
  /\ \/ \E g \in {h \in grants[1] : h.opt} :
          grants' = [grants EXCEPT ![1] = (@ \ {g}) \cup {MySQLGrantOptionRevoke(g)}] /\ UNCHANGED job
     \/ /\ \A h \in grants[1] : ~h.opt
        /\ \E g \in grants[1] : grants' = [grants EXCEPT ![1] = @ \ {g}] /\ UNCHANGED job
     \/ grants[1] = {} /\ Goto("drop", 1) /\ UNCHANGED grants
  /\ UNCHANGED <<hosts, atSource, ttl, target, records, dump, done, count>>

MySQLResetDrop ==
  /\ JobAt("mysql", "reset", "drop")
  /\ target' = [u \in Units |-> Absent]
  /\ Goto("create", 1)
  /\ UNCHANGED <<hosts, atSource, ttl, grants, records, dump, done, count>>

MySQLResetCreate ==
  /\ JobAt("mysql", "reset", "create")
  /\ target' = [u \in Units |-> Fresh]
  /\ Goto("mark", 1)
  /\ UNCHANGED <<hosts, atSource, ttl, grants, records, dump, done, count>>

MySQLResetMark ==
  /\ JobAt("mysql", "reset", "mark")
  /\ SaveMarker(job.mig)
  /\ EndJob
  /\ UNCHANGED <<hosts, atSource, ttl, atTarget, approved, artifact, dump, done, count>>

----------------------------------------------------------------------------
MySQLRestore(m) ==
  /\ engine = "mysql" /\ artifact[m] # None
  /\ LoadMarker(m).mig = m
  /\ MySQLEmpty
  /\ StartJob("restore", m, "load", FALSE, artifact[m])
  /\ Forget(m)
  /\ UNCHANGED <<hosts, atSource, ttl, atTarget, records, dump, count>>

\* the client runs the dump statement by statement, and replaces a table of that name
MySQLRestoreLoad ==
  /\ JobAt("mysql", "restore", "load")
  /\ IF MySQLExists
       THEN /\ target' = [target EXCEPT ![u_] = Holding(job.art.data[u_], job.mig)]
            /\ NextUnit("load", "grant")
       ELSE EndJob /\ UNCHANGED target
  /\ UNCHANGED <<hosts, atSource, ttl, grants, records, dump, done, count>>

\* applyMySQLGrants: a grant keeps the grant option its account already has
MySQLGrant(old, e) ==
  {g \in old : g.who # e.who} \cup {[e EXCEPT !.opt = @ \/ \E g \in old : g.who = e.who /\ g.opt]}
MySQLGranted(e) == \E g \in grants[1] : g.who = e.who /\ (e.opt => g.opt)

MySQLRestoreGrant ==
  /\ JobAt("mysql", "restore", "grant")
  /\ \/ \E e \in {x \in job.art.acl[1] : ~MySQLGranted(x)} :
          grants' = [grants EXCEPT ![1] = MySQLGrant(@, e)] /\ UNCHANGED job
     \/ (\A e \in job.art.acl[1] : MySQLGranted(e)) /\ Goto("verify", 1) /\ UNCHANGED grants
  /\ UNCHANGED <<hosts, atSource, ttl, target, records, dump, done, count>>

MySQLManifestMatches(art) == MySQLManifest = [seen |-> art.want, acl |-> art.acl[1]]

MySQLRestoreVerify ==
  /\ JobAt("mysql", "restore", "verify")
  /\ EndJob
  /\ Verdict(MySQLManifestMatches(job.art))
  /\ UNCHANGED <<hosts, atSource, ttl, atTarget, records, dump, count>>

MySQLVerify(m) ==
  /\ engine = "mysql" /\ Verified(m, MySQLManifestMatches(done[m].art))
  /\ UNCHANGED <<hosts, atSource, ttl, atTarget, records, dump, job, count>>

MySQLNext ==
  \/ \E m \in Migrations :
       MySQLInspect(m) \/ MySQLDump(m) \/ MySQLReset(m) \/ MySQLRestore(m) \/ MySQLVerify(m)
  \/ MySQLDumpInspect \/ MySQLGrantInventory \/ MySQLDumpTables
  \/ MySQLRevoke \/ MySQLResetDrop \/ MySQLResetCreate \/ MySQLResetMark
  \/ MySQLRestoreLoad \/ MySQLRestoreGrant \/ MySQLRestoreVerify
=============================================================================
