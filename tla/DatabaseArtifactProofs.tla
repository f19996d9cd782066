----------------------- MODULE DatabaseArtifactProofs -----------------------
(***************************************************************************)
(* Proofs about the source side of DatabaseMigration, for any migrations,  *)
(* privileges and bounds: its types, and what every artifact holds.        *)
(*                                                                         *)
(* The inductive invariant follows an artifact from the source on.         *)
(* SourceInv: versions of tables and databases only grow.  DumpInv: what a *)
(* dump at work has read is not older than its inspection, or (oplog       *)
(* replay) is in the window.  ArtInv: so is every artifact that was stored *)
(* or restored.                                                            *)
(***************************************************************************)
EXTENDS DatabaseMigration, TLAPS

Sql == engine \in {"postgres", "mysql"}

SourceInv ==
  /\ \A u \in Units : Seen(source[u]) <= count["write"] + 1
  /\ Sql => \A u \in Units : Seen(source[u]) >= 1
  /\ Len(oplog) <= count["write"] + 1

\* privileges as an inspection leaves them: an account has one entry, and no source role of
\* PostgreSQL is left
Merged(privileges) ==
  /\ \A e, f \in privileges : e.who = f.who => e = f
  /\ engine = "postgres" => \A e \in privileges : e.who \notin {"owner", "reader"}

\* A change of u after position p is in the oplog.
Logged(u, p) == \E i \in p + 1 .. Len(oplog) : oplog[i] = u

SqlDumping ==
  /\ dump.at = "inspect" =>
       \A u \in Scope : u < dump.unit => 1 <= dump.want[u] /\ dump.want[u] <= Seen(source[u])
  /\ dump.at \in {"grants", "dump"} =>
       \A u \in Scope :
         /\ 1 <= dump.want[u] /\ dump.want[u] <= dump.cut[u]
         /\ u >= dump.unit => dump.cut[u] <= Seen(source[u])
         /\ u < dump.unit => dump.cut[u] <= Seen(dump.data[u])
  /\ engine = "mysql" /\ dump.at \in {"grants", "dump"} => dump.unit = 1
  /\ \A u \in Units : Merged(dump.acl[u])

OplogDumping ==
  /\ dump.at \in {"inspect", "start", "window"} => dump.unit = 1
  /\ dump.at \in {"dump", "window"} =>
       /\ dump.start <= Len(oplog)
       /\ \A u \in Units : u < dump.unit \/ dump.at = "window" =>
            dump.data[u] = source[u] \/ Logged(u, dump.start)
  /\ dump.at \in {"delta", "close", "final", "stable"} =>
       /\ dump.end <= Len(oplog)
       /\ dump.end = Len(oplog) =>
            /\ \A u \in Units : u \notin dump.ids => dump.data[u] = source[u]
            /\ \A u \in dump.ids \cap Units :
                 u < dump.unit \/ dump.at # "delta" => dump.delta[u] = source[u]
            /\ dump.at = "stable" => dump.want = SeenNow

RedisDumping ==
  /\ variant = "cache" => \A u \in Units : dump.data[u] = Nothing
  /\ variant = "durable" /\ dump.calm /\ dump.unit = 2 => dump.data[1] = source[1]

DumpInv ==
  /\ Sql => SqlDumping
  /\ engine = "mongodb" => dump.want = dump.cut /\ (dump.at = "window" => variant = "oplog")
  /\ variant = "oplog" => OplogDumping
  /\ variant # "oplog" => dump.ids = {}
  /\ engine = "redis" => RedisDumping

\* what a restore of the artifact leaves in a unit
Restored(a, u) == IF u \in a.ids THEN a.delta[u] ELSE a.data[u]

Good(a) ==
  /\ Sql => /\ \A u \in Scope : 1 <= a.want[u] /\ a.want[u] <= a.cut[u] /\ a.cut[u] <= Seen(a.data[u])
            /\ \A u \in Units : Merged(a.acl[u])
  /\ engine = "mongodb" => a.want = a.cut
  /\ variant = "oplog" => \A u \in Units : Seen(Restored(a, u)) = a.want[u]
  /\ variant # "oplog" => a.ids = {}
  /\ engine = "redis" =>
       /\ a.want = RedisManifestDigest([u \in Units |-> Seen(a.data[u])])
       /\ a.calm => a.want = a.cut
       /\ variant = "cache" => \A u \in Units : a.data[u] = Nothing

ArtInv ==
  /\ \A m \in Migrations : artifact[m] # None => Good(artifact[m])
  /\ job.op = "restore" => Good(job.art)
  /\ \A m \in Migrations : done[m].at # "no" => Good(done[m].art)

ArtifactInv == TypeOK /\ SourceInv /\ DumpInv /\ ArtInv

----------------------------------------------------------------------------
(* The steps by what they leave alone *)

Inspects == \E m \in Migrations : PostgresInspect(m) \/ MySQLInspect(m) \/ MongoDBInspect(m) \/ RedisInspect(m)
DumpStarts == \E m \in Migrations : PostgresDump(m) \/ MySQLDump(m) \/ MongoDBDump(m) \/ RedisDump(m)
SqlDumpSteps ==
  PostgresDumpInspect \/ PostgresDumpMember \/ MySQLDumpInspect \/ MySQLGrantInventory \/ MySQLDumpTables
MongoDBDumpSteps ==
  \/ MongoDBDumpInspect \/ CaptureMongoDBOplogTimestamp \/ MongoDBDumpDocument \/ CaptureMongoDBOplogDelta
  \/ CaptureMongoDBMutation \/ CloseMongoDBOplogDelta \/ MongoDBDumpFinalInspect
  \/ VerifyMongoDBOplogStableAfter
ResetStarts ==
  \E m \in Migrations :
    PostgresReset(m) \/ PostgresResetDatabaseSet(m) \/ MySQLReset(m) \/ MongoDBReset(m) \/ RedisReset(m)
ResetSteps ==
  \/ PostgresResetDrop \/ PostgresResetCreate \/ MySQLRevoke \/ MySQLResetDrop \/ MySQLResetCreate
  \/ MongoDBResetDrop \/ FlushRedisDatabases
Marks == PostgresResetMark \/ MySQLResetMark \/ MongoDBResetMark \/ RedisResetMark
RestoreStarts ==
  \E m \in Migrations :
    \/ PostgresRestore(m) \/ PostgresRestoreDatabaseSet(m) \/ MySQLRestore(m) \/ MongoDBRestore(m)
    \/ RedisRestore(m)
RestoreSteps ==
  \/ PostgresRestoreLoad \/ PostgresRestoreACL \/ MySQLRestoreLoad \/ MySQLRestoreGrant
  \/ MongoDBRestoreLoad \/ ApplyMongoDBOplogDelta \/ ApplyMongoDBIdentities
  \/ RedisRetryReset \/ RedisRestoreLoad
Verdicts ==
  \/ PostgresRestoreCheck \/ PostgresRestoreVerify \/ MySQLRestoreVerify \/ MongoDBRestoreVerify
  \/ RedisRestoreVerify
Verifies == \E m \in Migrations : PostgresVerify(m) \/ MySQLVerify(m) \/ MongoDBVerify(m) \/ RedisVerify(m)
Writes == \E u \in Units, v \in Contents : SourceWrite(u, v)
AclChanges == \E u \in Units, a \in Acls : SourceAcl(u, a)
ForeignWrites == \E u \in Units : ForeignWrite(u)

LEMMA NextCases ==
  ASSUME Next
  PROVE  \/ Writes \/ AclChanges \/ ForeignWrites \/ OplogMoves \/ KeyAges \/ Interrupt
         \/ Inspects \/ DumpStarts \/ SqlDumpSteps \/ MongoDBDumpSteps \/ WriteRedisArchive
         \/ ResetStarts \/ ResetSteps \/ Marks \/ RestoreStarts \/ RestoreSteps \/ Verdicts \/ Verifies
<1>1. Environment => Writes \/ AclChanges \/ ForeignWrites \/ OplogMoves \/ KeyAges \/ Interrupt
  BY Zenon DEF Environment, Writes, AclChanges, ForeignWrites
<1>2. PostgresNext => Inspects \/ DumpStarts \/ SqlDumpSteps \/ ResetStarts \/ ResetSteps \/ Marks
                      \/ RestoreStarts \/ RestoreSteps \/ Verdicts \/ Verifies
  BY Zenon DEF PostgresNext, Inspects, DumpStarts, SqlDumpSteps, ResetStarts, ResetSteps, Marks,
         RestoreStarts, RestoreSteps, Verdicts, Verifies
<1>3. MySQLNext => Inspects \/ DumpStarts \/ SqlDumpSteps \/ ResetStarts \/ ResetSteps \/ Marks
                   \/ RestoreStarts \/ RestoreSteps \/ Verdicts \/ Verifies
  BY Zenon DEF MySQLNext, Inspects, DumpStarts, SqlDumpSteps, ResetStarts, ResetSteps, Marks,
         RestoreStarts, RestoreSteps, Verdicts, Verifies
<1>4. MongoDBNext => Inspects \/ DumpStarts \/ MongoDBDumpSteps \/ ResetStarts \/ ResetSteps \/ Marks
                     \/ RestoreStarts \/ RestoreSteps \/ Verdicts \/ Verifies
  BY Zenon DEF MongoDBNext, Inspects, DumpStarts, MongoDBDumpSteps, ResetStarts, ResetSteps, Marks,
         RestoreStarts, RestoreSteps, Verdicts, Verifies
<1>5. RedisNext => Inspects \/ DumpStarts \/ WriteRedisArchive \/ ResetStarts \/ ResetSteps \/ Marks
                   \/ RestoreStarts \/ RestoreSteps \/ Verdicts \/ Verifies
  BY Zenon DEF RedisNext, Inspects, DumpStarts, ResetStarts, ResetSteps, Marks,
         RestoreStarts, RestoreSteps, Verdicts, Verifies
<1> QED
  BY Zenon, <1>1, <1>2, <1>3, <1>4, <1>5 DEF Next

LEMMA SourceFrame ==
  /\ Writes => UNCHANGED <<hosts, acl, oldest, ttl, target, grants, records, job, done>>
  /\ AclChanges => UNCHANGED <<hosts, source, oplog, oldest, ttl, target, grants, records, dump, job, done>>
  /\ ForeignWrites => UNCHANGED <<hosts, atSource, ttl, grants, records, dump, job, done>>
  /\ OplogMoves => UNCHANGED <<hosts, source, acl, ttl, target, grants, records, dump, job, done>>
  /\ KeyAges => UNCHANGED <<hosts, acl, oplog, oldest, grants, records, dump, job, done, count>>
  /\ Interrupt => UNCHANGED <<hosts, atSource, ttl, target, grants, records, done>>
BY Zenon DEF Writes, AclChanges, ForeignWrites, SourceWrite, SourceAcl, ForeignWrite, OplogMoves, KeyAges,
       Interrupt, atTarget

LEMMA DumpFrame ==
  /\ Inspects => UNCHANGED <<hosts, atSource, ttl, target, grants, marker, artifact, dump, job, done, count>>
  /\ DumpStarts => UNCHANGED <<hosts, atSource, ttl, target, grants, records, job, done>>
  /\ SqlDumpSteps \/ MongoDBDumpSteps \/ WriteRedisArchive =>
       UNCHANGED <<hosts, atSource, ttl, target, grants, marker, approved, job, done, count>>
<1>1. Inspects => UNCHANGED <<hosts, atSource, ttl, target, grants, marker, artifact, dump, job, done, count>>
  BY Zenon DEF Inspects, PostgresInspect, MySQLInspect, MongoDBInspect, RedisInspect, atTarget
<1>2. DumpStarts => UNCHANGED <<hosts, atSource, ttl, target, grants, records, job, done>>
  BY Zenon DEF DumpStarts, PostgresDump, MySQLDump, MongoDBDump, RedisDump, atTarget
<1>3. SqlDumpSteps \/ MongoDBDumpSteps \/ WriteRedisArchive =>
        UNCHANGED <<hosts, atSource, ttl, target, grants, marker, approved, job, done, count>>
  BY Zenon DEF SqlDumpSteps, MongoDBDumpSteps, WriteRedisArchive, PostgresDumpInspect, PostgresDumpMember,
     MySQLDumpInspect, MySQLGrantInventory, MySQLDumpTables, MongoDBDumpInspect,
     CaptureMongoDBOplogTimestamp, MongoDBDumpDocument, CaptureMongoDBOplogDelta,
     CaptureMongoDBMutation, CloseMongoDBOplogDelta, MongoDBDumpFinalInspect,
     VerifyMongoDBOplogStableAfter, atTarget, records
<1> QED
  BY Zenon, <1>1, <1>2, <1>3

LEMMA ResetFrame ==
  /\ ResetStarts => UNCHANGED <<hosts, atSource, ttl, target, grants, approved, artifact, dump>>
  /\ ResetSteps => UNCHANGED <<hosts, atSource, ttl, records, dump, done, count>>
  /\ Marks => UNCHANGED <<hosts, atSource, ttl, target, grants, approved, artifact, dump, done, count>>
<1>1. ResetStarts => UNCHANGED <<hosts, atSource, ttl, target, grants, approved, artifact, dump>>
  BY Zenon DEF ResetStarts, PostgresReset, PostgresResetDatabaseSet, MySQLReset, MongoDBReset, RedisReset,
     atTarget, records
<1>2. ResetSteps => UNCHANGED <<hosts, atSource, ttl, records, dump, done, count>>
  BY Zenon DEF ResetSteps, PostgresResetDrop, PostgresResetCreate, MySQLRevoke, MySQLResetDrop,
     MySQLResetCreate, MongoDBResetDrop, FlushRedisDatabases
<1>3. Marks => UNCHANGED <<hosts, atSource, ttl, target, grants, approved, artifact, dump, done, count>>
  BY Zenon DEF Marks, PostgresResetMark, MySQLResetMark, MongoDBResetMark, RedisResetMark, atTarget
<1> QED
  BY Zenon, <1>1, <1>2, <1>3

LEMMA RestoreFrame ==
  /\ RestoreStarts => UNCHANGED <<hosts, atSource, ttl, target, grants, records, dump, count>>
  /\ RestoreSteps => UNCHANGED <<hosts, atSource, ttl, records, dump, done, count>>
  /\ Verdicts => UNCHANGED <<hosts, atSource, ttl, target, grants, records, dump, count>>
  /\ Verifies => UNCHANGED <<hosts, atSource, ttl, target, grants, records, dump, job, count>>
<1>1. RestoreStarts => UNCHANGED <<hosts, atSource, ttl, target, grants, records, dump, count>>
  BY Zenon DEF RestoreStarts, PostgresRestore, PostgresRestoreDatabaseSet, MySQLRestore, MongoDBRestore,
     RedisRestore, atTarget
<1>2. RestoreSteps => UNCHANGED <<hosts, atSource, ttl, records, dump, done, count>>
  BY Zenon DEF RestoreSteps, PostgresRestoreLoad, PostgresRestoreACL, MySQLRestoreLoad, MySQLRestoreGrant,
     MongoDBRestoreLoad, ApplyMongoDBOplogDelta, ApplyMongoDBIdentities, RedisRetryReset, RedisRestoreLoad
<1>3. Verdicts => UNCHANGED <<hosts, atSource, ttl, target, grants, records, dump, count>>
  BY Zenon DEF Verdicts, PostgresRestoreCheck, PostgresRestoreVerify, MySQLRestoreVerify,
     MongoDBRestoreVerify, RedisRestoreVerify, atTarget
<1>4. Verifies => UNCHANGED <<hosts, atSource, ttl, target, grants, records, dump, job, count>>
  BY Zenon DEF Verifies, PostgresVerify, MySQLVerify, MongoDBVerify, RedisVerify, atTarget
<1> QED
  BY Zenon, <1>1, <1>2, <1>3, <1>4

LEMMA HostsStay == ASSUME Next PROVE UNCHANGED <<engine, variant>>
<1>1. UNCHANGED hosts
  BY Zenon, NextCases, SourceFrame, DumpFrame, ResetFrame, RestoreFrame
<1> QED
  BY Zenon, <1>1 DEF hosts

----------------------------------------------------------------------------
(* The source *)

Events == {"write", "foreign", "interrupt", "dump", "reset"}

LEMMA HostFacts ==
  ASSUME <<engine, variant>> \in Variants
  PROVE  /\ Last \in {1, 2} /\ Scope \subseteq Units /\ 1 \in Scope /\ Last \in Scope
         /\ Units = {1, 2} /\ (variant # "single" => Last = 2 /\ Scope = Units) /\ (variant = "single" => Scope = {1})
         /\ engine = "postgres" <=> variant \in {"single", "set"}
         /\ engine = "redis" <=> variant \in {"durable", "cache"}
         /\ variant = "oplog" => engine = "mongodb"
         /\ engine \in {"postgres", "mysql", "mongodb", "redis"}
<1>1. /\ engine = "postgres" <=> variant \in {"single", "set"}
      /\ engine = "redis" <=> variant \in {"durable", "cache"}
      /\ variant = "oplog" => engine = "mongodb"
      /\ engine \in {"postgres", "mysql", "mongodb", "redis"}
  BY Zenon DEF Variants
<1>2. /\ Last \in {1, 2} /\ Scope \subseteq Units /\ 1 \in Scope /\ Last \in Scope
      /\ Units = {1, 2} /\ (variant # "single" => Last = 2 /\ Scope = Units) /\ (variant = "single" => Scope = {1})
  BY DEF Last, Scope, Units
<1> QED
  BY Zenon, <1>1, <1>2

LEMMA Counted ==
  ASSUME CountOK, NEW e \in Events, NEW b, Happens(e, b)
  PROVE  /\ count' \in [Events -> Nat] /\ count'[e] = count[e] + 1 /\ count[e] < b
         /\ \A f \in Events \ {e} : count'[f] = count[f]
BY DEF CountOK, Happens, Events

\* Counts only grow, and none past its bound.
LEMMA NextCounts ==
  ASSUME TypeOK, Next
  PROVE  CountOK' /\ \A e \in Events : count'[e] \in Nat /\ count'[e] >= count[e]
<1>0. CountOK /\ count \in [Events -> Nat] /\ MaxWrites \in Nat /\ MaxMishaps \in Nat /\ MaxDumps \in Nat
      /\ MaxResets \in Nat
  BY Zenon, DatabaseHostsAssumption DEF TypeOK, CountOK, Events
<1>1. \/ UNCHANGED count \/ Happens("write", MaxWrites) \/ Happens("dump", MaxDumps) \/ Happens("reset", MaxResets)
      \/ Happens("foreign", MaxMishaps - count["interrupt"]) \/ Happens("interrupt", MaxMishaps - count["foreign"])
  <2>1. Writes \/ AclChanges => Happens("write", MaxWrites)
    BY Zenon DEF Writes, AclChanges, SourceWrite, SourceAcl
  <2>2. OplogMoves => Happens("write", MaxWrites) \/ UNCHANGED count
    BY Zenon DEF OplogMoves
  <2>3. ForeignWrites => Happens("foreign", MaxMishaps - count["interrupt"])
    BY Zenon DEF ForeignWrites, ForeignWrite
  <2>4. Interrupt => Happens("interrupt", MaxMishaps - count["foreign"])
    BY Zenon DEF Interrupt
  <2>5. DumpStarts => Happens("dump", MaxDumps)
    BY Zenon DEF DumpStarts, PostgresDump, MySQLDump, MongoDBDump, RedisDump, StartDump
  <2>6. ResetStarts => Happens("reset", MaxResets)
    BY Zenon DEF ResetStarts, PostgresReset, PostgresResetDatabaseSet, MySQLReset, MongoDBReset, RedisReset
  <2> QED
    BY <2>1, <2>2, <2>3, <2>4, <2>5, <2>6, NextCases, SourceFrame, DumpFrame, ResetFrame, RestoreFrame, Zenon
<1>2. \A e \in Events : count[e] \in Nat
  BY Zenon, <1>0
<1>3. CASE Happens("write", MaxWrites)
  BY <1>0, <1>2, <1>3, Counted DEF CountOK, Events
<1>4. CASE Happens("dump", MaxDumps)
  BY <1>0, <1>2, <1>4, Counted DEF CountOK, Events
<1>5. CASE Happens("reset", MaxResets)
  BY <1>0, <1>2, <1>5, Counted DEF CountOK, Events
<1>6. CASE Happens("foreign", MaxMishaps - count["interrupt"])
  BY <1>0, <1>2, <1>6, Counted DEF CountOK, Events
<1>7. CASE Happens("interrupt", MaxMishaps - count["foreign"])
  BY SMTT(30), <1>0, <1>2, <1>7, Counted DEF CountOK, Events
<1>8. CASE UNCHANGED count
  BY SMTT(30), <1>0, <1>2, <1>8 DEF CountOK
<1> QED
  BY Zenon, <1>1, <1>3, <1>4, <1>5, <1>6, <1>7, <1>8

\* Versions are pairs of numbers; Foreign is none of them.
LEMMA VersionFacts ==
  /\ \A c \in Versions : Seen(c) \in 0..MaxWrites + 1 /\ Seen(c) \in Nat /\ c # Foreign
  /\ \A i, j \in 0..MaxWrites + 1 : <<i, j>> \in Versions /\ Seen(<<i, j>>) = i
  /\ Nothing \in Versions /\ Seen(Nothing) = 0 /\ Foreign # Nothing /\ Seen(Foreign) = MaxWrites + 2
  /\ Foreign \in Contents /\ Versions \subseteq Contents
BY DatabaseHostsAssumption DEF Versions, Contents, Seen, Nothing, Foreign

\* A write gives a unit a version it has not had, or deletes it.
LEMMA WriteFacts ==
  ASSUME TypeOK, NEW u \in Units, NEW v \in Contents, SourceWrite(u, v)
  PROVE  /\ v \in Versions /\ source' = [source EXCEPT ![u] = v] /\ count["write"] < MaxWrites
         /\ count'["write"] = count["write"] + 1 /\ count["write"] \in Nat /\ dump # IdleDump /\ u \in Scope
         /\ Seen(v) \in {count["write"] + 2, Seen(source[u]), 0}
         /\ Sql => Seen(v) \in {count["write"] + 2, Seen(source[u])}
<1>0. CountOK /\ SourceOK /\ MaxWrites \in Nat
  BY Zenon, DatabaseHostsAssumption DEF TypeOK
<1>1. /\ Happens("write", MaxWrites) /\ source' = [source EXCEPT ![u] = v] /\ dump # IdleDump /\ u \in Scope
      /\ \/ v = <<count["write"] + 2, 0>>
         \/ v = <<Seen(source[u]), count["write"] + 2>>
         \/ v = Nothing /\ engine \in {"mongodb", "redis"}
  BY Zenon DEF SourceWrite
<1>2. count["write"] < MaxWrites /\ count'["write"] = count["write"] + 1 /\ count["write"] \in Nat
  BY Zenon, <1>0, <1>1, Counted DEF CountOK, Events
<1>3. source[u] \in Versions
  BY Zenon, <1>0 DEF SourceOK
<1>4. Seen(source[u]) \in 0..MaxWrites + 1 /\ count["write"] + 2 \in 0..MaxWrites + 1 /\ 0 \in 0..MaxWrites + 1
  BY SMTT(30), <1>0, <1>2, <1>3, VersionFacts
<1>5. \/ v \in Versions /\ Seen(v) \in {count["write"] + 2, Seen(source[u])}
      \/ v \in Versions /\ Seen(v) = 0 /\ engine \in {"mongodb", "redis"}
  BY <1>1, <1>4, VersionFacts
<1> QED
  BY Zenon, <1>1, <1>2, <1>5 DEF Sql

LEMMA SourceNext ==
  ASSUME TypeOK, SourceInv, Next
  PROVE  SourceOK' /\ SourceInv'
<1>0. /\ SourceOK /\ CountOK /\ count["write"] \in Nat /\ MaxWrites \in Nat /\ <<engine, variant>> \in Variants
      /\ oplog \in Seq(0..3)
  BY Zenon, DatabaseHostsAssumption DEF TypeOK, CountOK, SourceOK
<1>a. UNCHANGED <<engine, variant>>
  BY Zenon, HostsStay
<1>b. Len(oplog) \in Nat /\ \A u \in Units : Append(oplog, u) \in Seq(0..3) /\ Len(Append(oplog, u)) = Len(oplog) + 1
  BY <1>0 DEF Units
<1>1. CASE Writes
  <2>1. PICK u \in Units, v \in Contents : SourceWrite(u, v)
    BY Zenon, <1>1 DEF Writes
  <2>2. /\ v \in Versions /\ source' = [source EXCEPT ![u] = v] /\ count["write"] < MaxWrites
        /\ count'["write"] = count["write"] + 1
        /\ Seen(v) \in {count["write"] + 2, Seen(source[u]), 0}
        /\ Sql => Seen(v) \in {count["write"] + 2, Seen(source[u])}
    BY Zenon, <2>1, WriteFacts
  <2>3. UNCHANGED <<acl, oldest, ttl>> /\ (oplog' = oplog \/ oplog' = Append(oplog, u))
    BY Zenon, <2>1 DEF SourceWrite
  <2>4. source' \in [Units -> Versions] /\ source'[u] = v /\ \A w \in Units \ {u} : source'[w] = source[w]
    BY Zenon, <1>0, <2>2 DEF SourceOK
  <2>5. \A w \in Units : Seen(source[w]) \in Nat
    BY Zenon, <1>0, VersionFacts DEF SourceOK
  <2>6. \A w \in Units : Seen(source'[w]) <= count'["write"] + 1 /\ (Sql => Seen(source'[w]) >= 1)
    BY SMTT(30), <1>0, <2>2, <2>4, <2>5 DEF SourceInv
  <2>7. oplog' \in Seq(0..3) /\ Len(oplog') \in Nat /\ Len(oplog) <= Len(oplog') /\ Len(oplog') <= Len(oplog) + 1
    <3>1. Len(oplog) \in Nat /\ oplog' \in Seq(0..3) /\ (Len(oplog') = Len(oplog) \/ Len(oplog') = Len(oplog) + 1)
      BY Zenon, <1>0, <1>b, <2>1, <2>3
    <3> QED
      BY SMTT(30), <3>1
  <2>8. Len(oplog') <= count'["write"] + 1 /\ Len(oplog') \in oldest + 1 .. MaxWrites + 1
    BY SMTT(30), <1>0, <1>b, <2>2, <2>7 DEF SourceInv, SourceOK
  <2> QED
    BY ZenonT(40), <1>0, <1>a, <2>3, <2>4, <2>6, <2>7, <2>8 DEF SourceOK, SourceInv, Sql
<1>2. CASE AclChanges
  <2>1. /\ UNCHANGED <<source, oplog, oldest, ttl>> /\ acl' \in [Units -> Acls]
        /\ Happens("write", MaxWrites)
    BY <1>0, <1>2 DEF AclChanges, SourceAcl, SourceOK
  <2>2. count'["write"] = count["write"] + 1
    BY Zenon, <1>0, <2>1, Counted DEF Events
  <2>3. \A w \in Units : Seen(source[w]) \in Nat
    BY Zenon, <1>0, VersionFacts DEF SourceOK
  <2> QED
    BY SMTT(30), <1>0, <1>a, <1>b, <2>1, <2>2, <2>3 DEF SourceOK, SourceInv, Sql
<1>3. CASE OplogMoves
  <2>0. UNCHANGED <<source, acl, ttl>>
    BY Zenon, <1>3 DEF OplogMoves
  <2>1. CASE oldest' = Len(oplog) - 1 /\ UNCHANGED <<oplog, count>> /\ oldest + 1 < Len(oplog)
    BY SMTT(30), <1>0, <1>a, <1>b, <2>0, <2>1 DEF SourceOK, SourceInv, Sql
  <2>2. CASE Happens("write", MaxWrites) /\ oplog' = Append(oplog, 3) /\ UNCHANGED oldest
    <3>1. count'["write"] = count["write"] + 1 /\ count["write"] < MaxWrites
      BY Zenon, <1>0, <2>2, Counted DEF Events
    <3>2. oplog' \in Seq(0..3) /\ Len(oplog') = Len(oplog) + 1
      BY SMTT(30), <1>0, <2>2
    <3>3. \A w \in Units : Seen(source[w]) \in Nat
      BY Zenon, <1>0, VersionFacts DEF SourceOK
    <3> QED
      BY SMTT(30), <1>0, <1>a, <1>b, <2>0, <2>2, <3>1, <3>2, <3>3 DEF SourceOK, SourceInv, Sql
  <2> QED
    BY Zenon, <1>3, <2>1, <2>2 DEF OplogMoves
<1>4. CASE KeyAges
  <2>1. /\ UNCHANGED <<acl, oplog, oldest, count>> /\ ttl' \in {"near", "gone"} /\ engine = "redis"
        /\ source' = source \/ source' = [source EXCEPT ![2] = Nothing]
    BY Zenon, <1>4 DEF KeyAges
  <2>2. source' \in [Units -> Versions]
    BY <1>0, <2>1, VersionFacts DEF SourceOK, Units
  <2>3. \A w \in Units : source'[w] = source[w] \/ source'[w] = Nothing
    BY Zenon, <1>0, <2>1 DEF SourceOK, Units
  <2>4. \A w \in Units : Seen(source'[w]) <= count["write"] + 1
    BY <1>0, <2>3, VersionFacts DEF SourceInv
  <2> QED
    BY Zenon, <1>0, <1>a, <2>1, <2>2, <2>4 DEF SourceOK, SourceInv, Sql
<1>5. CASE UNCHANGED <<source, acl, oplog, oldest, ttl>>
  <2>1. count'["write"] >= count["write"] /\ count'["write"] \in Nat
    BY Zenon, NextCounts DEF Events
  <2>2. \A w \in Units : Seen(source[w]) \in Nat
    BY Zenon, <1>0, VersionFacts DEF SourceOK
  <2> QED
    BY SMTT(30), <1>0, <1>a, <1>b, <1>5, <2>1, <2>2 DEF SourceOK, SourceInv, Sql
<1> QED
  BY <1>1, <1>2, <1>3, <1>4, <1>5, NextCases, SourceFrame, DumpFrame, ResetFrame, RestoreFrame, Zenon DEF atSource

----------------------------------------------------------------------------
(* The primitive at work at the target host *)

LEMMA GotoRecord ==
  ASSUME job \in Jobs, NEW at \in JobSteps, NEW u \in Units, Goto(at, u)
  PROVE  /\ job' \in Jobs /\ job'.at = at /\ job'.unit = u /\ job'.op = job.op /\ job'.mig = job.mig
         /\ job'.owned = job.owned /\ job'.art = job.art
BY Zenon DEF Jobs, Goto

LEMMA IdleRecord ==
  /\ IdleJob \in Jobs /\ IdleJob.op = "idle" /\ IdleJob.at = "idle" /\ IdleJob.unit = 1 /\ IdleJob.mig = None
  /\ IdleJob.art = None
BY Zenon DEF IdleJob, Jobs, Units

LEMMA StartRecord ==
  ASSUME NEW op \in {"reset", "restore"}, NEW m \in Migrations, NEW at \in JobSteps, NEW o \in BOOLEAN,
         NEW a \in Artifacts \cup {None}, StartJob(op, m, at, o, a)
  PROVE  /\ job' \in Jobs /\ job'.at = at /\ job'.unit = 1 /\ job'.op = op /\ job'.mig = m /\ job'.art = a
         /\ job'.owned = o /\ job = IdleJob
BY Zenon DEF Jobs, StartJob, IdleJob, Units

\* A primitive at work goes to its next unit or its next step.
LEMMA NextUnitGoes ==
  ASSUME TypeOK, job.op # "idle", NEW a \in JobSteps, NEW b \in JobSteps, NextUnit(a, b)
  PROVE  \/ job.unit < Last /\ job.unit = 1 /\ Last = 2 /\ Goto(a, 2)
         \/ job.unit = Last /\ Goto(b, 1)
<1>1. job.unit \in Scope /\ Last \in {1, 2} /\ Scope = 1..Last
  BY Zenon, HostFacts, IdleRecord DEF TypeOK, JobOK, Scope
<1> QED
  BY <1>1 DEF NextUnit

JobGoes == job.op # "idle" /\ \E at \in JobSteps, u \in Scope : Goto(at, u)

LEMMA StepsMoveJob ==
  ASSUME TypeOK, ResetSteps \/ RestoreSteps \/ Verdicts
  PROVE  job.op # "idle" /\ (UNCHANGED job \/ EndJob \/ JobGoes)
<1>0. job = IdleJob \/ job.op # "idle"
  BY Zenon DEF TypeOK, JobOK
<1>1. job.op # "idle"
  BY Zenon, <1>0, IdleRecord DEF ResetSteps, RestoreSteps, Verdicts, PostgresResetDrop, PostgresResetCreate, MySQLRevoke,
     MySQLResetDrop, MySQLResetCreate, MongoDBResetDrop, FlushRedisDatabases, PostgresRestoreLoad,
     PostgresRestoreACL, MySQLRestoreLoad, MySQLRestoreGrant, MongoDBRestoreLoad, ApplyMongoDBOplogDelta,
     ApplyMongoDBIdentities, RedisRetryReset, RedisRestoreLoad, PostgresRestoreCheck,
     PostgresRestoreVerify, MySQLRestoreVerify, MongoDBRestoreVerify, RedisRestoreVerify, JobAt
<1>2. 1 \in Scope /\ Last \in Scope /\ job.unit \in Scope /\ Last \in {1, 2}
  BY Zenon, <1>1, HostFacts, IdleRecord DEF TypeOK, JobOK
<1>3. \A a, b \in JobSteps : NextUnit(a, b) => JobGoes
  BY Zenon, <1>1, <1>2, NextUnitGoes DEF JobGoes
<1>4. \A a \in JobSteps, u \in {1, job.unit} : Goto(a, u) => JobGoes
  BY Zenon, <1>1, <1>2 DEF JobGoes
<1>5. CASE PostgresResetDrop \/ PostgresResetCreate \/ MySQLRevoke \/ MySQLResetDrop \/ MySQLResetCreate
           \/ MongoDBResetDrop \/ FlushRedisDatabases
  BY Zenon, <1>1, <1>3, <1>4, <1>5 DEF PostgresResetDrop, PostgresResetCreate, MySQLRevoke, MySQLResetDrop,
     MySQLResetCreate, MongoDBResetDrop, FlushRedisDatabases, u_, JobSteps
<1>6. CASE PostgresRestoreLoad \/ PostgresRestoreACL \/ MySQLRestoreLoad \/ MySQLRestoreGrant
           \/ MongoDBRestoreLoad \/ ApplyMongoDBOplogDelta \/ ApplyMongoDBIdentities
  BY Zenon, <1>1, <1>3, <1>4, <1>6 DEF PostgresRestoreLoad, PostgresRestoreACL, MySQLRestoreLoad, MySQLRestoreGrant,
     MongoDBRestoreLoad, ApplyMongoDBOplogDelta, ApplyMongoDBIdentities, u_, JobSteps
<1>7. CASE RedisRetryReset \/ RedisRestoreLoad \/ Verdicts
  BY Zenon, <1>1, <1>3, <1>4, <1>7 DEF RedisRetryReset, RedisRestoreLoad, Verdicts, PostgresRestoreCheck,
     PostgresRestoreVerify, MySQLRestoreVerify, MongoDBRestoreVerify, RedisRestoreVerify, JobSteps
<1> QED
  BY Zenon, <1>5, <1>6, <1>7 DEF ResetSteps, RestoreSteps

\* A reset or a restore begins on an idle host, and makes its migration forget its last restore.
JobStarts(op) ==
  \E m \in Migrations, at \in JobSteps, o \in BOOLEAN, a \in Artifacts \cup {None} :
    StartJob(op, m, at, o, a) /\ Forget(m) /\ (op = "restore" => a = artifact[m] /\ a # None /\ LoadMarker(m).mig = m)

LEMMA StartsJob ==
  ASSUME TypeOK
  PROVE  (ResetStarts => JobStarts("reset")) /\ (RestoreStarts => JobStarts("restore"))
<1>1. ASSUME NEW m \in Migrations,
             PostgresReset(m) \/ PostgresResetDatabaseSet(m) \/ MySQLReset(m) \/ MongoDBReset(m) \/ RedisReset(m)
      PROVE  JobStarts("reset")
  <2>1. \E at \in JobSteps, o \in BOOLEAN : StartJob("reset", m, at, o, None) /\ Forget(m)
    BY Zenon, <1>1 DEF PostgresReset, PostgresResetDatabaseSet, MySQLReset, MongoDBReset, RedisReset, JobSteps, OwnedByRun
  <2> QED
    BY Zenon, <2>1 DEF JobStarts
<1>2. ASSUME NEW m \in Migrations,
             \/ PostgresRestore(m) \/ PostgresRestoreDatabaseSet(m) \/ MySQLRestore(m) \/ MongoDBRestore(m)
             \/ RedisRestore(m)
      PROVE  JobStarts("restore")
  <2>1. \E at \in JobSteps : StartJob("restore", m, at, FALSE, artifact[m]) /\ Forget(m)
    BY Zenon, <1>2 DEF PostgresRestore, PostgresRestoreDatabaseSet, MySQLRestore, MongoDBRestore, RedisRestore, JobSteps
  <2>2. artifact[m] # None /\ LoadMarker(m).mig = m
    BY Zenon, <1>2 DEF PostgresRestore, PostgresRestoreDatabaseSet, MySQLRestore, MongoDBRestore, RedisRestore
  <2>3. artifact[m] \in Artifacts \cup {None}
    BY Zenon DEF TypeOK, RecordsOK
  <2> QED
    BY Zenon, <2>1, <2>2, <2>3 DEF JobStarts
<1> QED
  BY Zenon, <1>1, <1>2 DEF ResetStarts, RestoreStarts

LEMMA JobCases ==
  ASSUME TypeOK, Next
  PROVE  \/ UNCHANGED job \/ EndJob \/ JobGoes
         \/ JobStarts("reset") /\ ResetStarts
         \/ JobStarts("restore") /\ RestoreStarts
<1>1. Interrupt \/ Marks => UNCHANGED job \/ EndJob
  BY Zenon DEF Interrupt, Marks, PostgresResetMark, MySQLResetMark, MongoDBResetMark, RedisResetMark, EndJob
<1> QED
  BY <1>1, NextCases, StepsMoveJob, StartsJob, SourceFrame, DumpFrame, ResetFrame, RestoreFrame, Zenon

LEMMA JobNext ==
  ASSUME TypeOK, Next
  PROVE  JobOK'
<1>0. JobOK /\ Scope' = Scope /\ Scope \subseteq Units /\ 1 \in Scope
  BY Zenon, HostsStay, HostFacts DEF TypeOK, Scope, Last
<1>1. CASE UNCHANGED job
  BY Zenon, <1>0, <1>1 DEF JobOK
<1>2. CASE EndJob
  BY Zenon, <1>0, <1>2, IdleRecord DEF JobOK, EndJob
<1>3. CASE JobGoes
  <2>1. PICK at \in JobSteps, u \in Scope : Goto(at, u) /\ job.op # "idle"
    BY Zenon, <1>3 DEF JobGoes
  <2>2. /\ job' \in Jobs /\ job'.at = at /\ job'.unit = u /\ job'.op = job.op /\ job'.mig = job.mig
        /\ job'.art = job.art
    BY Zenon, <1>0, <2>1, GotoRecord DEF JobOK
  <2> QED
    BY Zenon, <1>0, <2>1, <2>2, IdleRecord DEF JobOK
<1>4. ASSUME NEW op \in {"reset", "restore"}, JobStarts(op)
      PROVE  JobOK'
  <2>1. PICK m \in Migrations, at \in JobSteps, o \in BOOLEAN, a \in Artifacts \cup {None} :
               StartJob(op, m, at, o, a) /\ (op = "restore" => a \in Artifacts)
    BY Zenon, <1>4 DEF JobStarts
  <2>2. /\ job' \in Jobs /\ job'.at = at /\ job'.unit = 1 /\ job'.op = op /\ job'.mig = m /\ job'.art = a
    BY SMTT(30), <2>1, StartRecord
  <2> QED
    BY Zenon, <1>0, <2>1, <2>2 DEF JobOK
<1> QED
  BY Zenon, <1>1, <1>2, <1>3, <1>4, JobCases

----------------------------------------------------------------------------
(* The target *)

LEMMA UnitRecords ==
  /\ Absent \in UnitState /\ ~Absent.made /\ Absent.val = Nothing /\ Absent.by = None
  /\ Fresh \in UnitState /\ Fresh.made /\ Fresh.val = Nothing /\ Fresh.by = None
  /\ \A v, m : Holding(v, m).made /\ Holding(v, m).val = v /\ Holding(v, m).by = m
  /\ \A v \in Contents, m \in Migrations \cup {"other"} : Holding(v, m) \in UnitState
<1>1. Nothing \in Contents
  BY Zenon, VersionFacts
<1> QED
  BY Zenon, <1>1 DEF Absent, Fresh, Holding, UnitState

\* What a step leaves in a unit it changes.
Emptied(u) == target'[u] \in {Absent, Fresh}
Filled(u) ==
  \/ target'[u] = Holding(Foreign, "other")
  \/ job.op = "restore" /\ target'[u] \in {Holding(job.art.data[u], job.mig), Holding(job.art.delta[u], job.mig)}

TargetChange ==
  /\ DOMAIN target' = Units /\ target' = [u \in Units |-> target'[u]]
  /\ \A u \in Units : target'[u] = target[u] \/ Emptied(u) \/ Filled(u)

LEMMA TargetMoves ==
  ASSUME Next
  PROVE  UNCHANGED target \/ ForeignWrites \/ KeyAges \/ ResetSteps \/ RestoreSteps
BY NextCases, SourceFrame, DumpFrame, ResetFrame, RestoreFrame, Zenon

LEMMA TargetChanges ==
  ASSUME TypeOK, Next
  PROVE  TargetChange
<1>0. target \in [Units -> UnitState] /\ Units = {1, 2}
  BY Zenon DEF TypeOK, TargetOK, Units
<1>1. ASSUME NEW w \in Units, NEW x, target' = [target EXCEPT ![w] = x],
             \/ x \in {Absent, Fresh, Holding(Foreign, "other")}
             \/ job.op = "restore" /\ x \in {Holding(job.art.data[w], job.mig), Holding(job.art.delta[w], job.mig)}
      PROVE  TargetChange
  <2>1. /\ DOMAIN target' = Units /\ target'[w] = x /\ \A u \in Units \ {w} : target'[u] = target[u]
        /\ target' = [u \in Units |-> target'[u]]
    BY Zenon, <1>0, <1>1
  <2> QED
    BY <1>1, <2>1, Zenon DEF TargetChange, Emptied, Filled
<1>2. CASE UNCHANGED target
  BY <1>0, <1>2, Zenon DEF TargetChange
<1>3. ASSUME NEW x \in {Absent, Fresh}, target' = [u \in Units |-> x]
      PROVE  TargetChange
  BY Zenon, <1>3 DEF TargetChange, Emptied
<1>4. CASE ForeignWrites \/ KeyAges
  <2>1. \/ UNCHANGED target
        \/ \E w \in Units, x \in {Absent, Fresh, Holding(Foreign, "other")} : target' = [target EXCEPT ![w] = x]
    BY Zenon, <1>0, <1>4 DEF ForeignWrites, ForeignWrite, KeyAges
  <2> QED
    BY Zenon, <1>1, <1>2, <2>1
<1>5. job.op # "idle" => job.unit \in Units
  BY Zenon, HostFacts, IdleRecord DEF TypeOK, JobOK
<1>6. CASE ResetSteps
  <2>1. job.unit \in Units
    BY Zenon, <1>5, <1>6, StepsMoveJob
  <2>2. \/ UNCHANGED target
        \/ \E x \in {Absent, Fresh} : target' = [target EXCEPT ![job.unit] = x] \/ target' = [u \in Units |-> x]
    BY Zenon, <1>6 DEF ResetSteps, PostgresResetDrop, PostgresResetCreate, FlushRedisDatabases, u_,
       MySQLRevoke, MySQLResetDrop, MySQLResetCreate, MongoDBResetDrop
  <2> QED
    BY Zenon, <1>1, <1>2, <1>3, <2>1, <2>2
<1>7. CASE RestoreSteps
  <2>1. job.unit \in Units
    BY Zenon, <1>5, <1>7, StepsMoveJob
  <2>2. \/ UNCHANGED target
        \/ job.op = "restore" /\ target' = [target EXCEPT ![job.unit] = Holding(job.art.data[job.unit], job.mig)]
        \/ job.op = "restore" /\ target' = [target EXCEPT ![job.unit] = Holding(job.art.delta[job.unit], job.mig)]
    BY Zenon, <1>7 DEF RestoreSteps, PostgresRestoreLoad, PostgresRestoreACL, MySQLRestoreLoad, MySQLRestoreGrant,
       MongoDBRestoreLoad, ApplyMongoDBOplogDelta, ApplyMongoDBIdentities, RedisRetryReset, RedisRestoreLoad,
       JobAt, u_, atTarget
  <2> QED
    BY Zenon, <1>1, <1>2, <2>1, <2>2
<1> QED
  BY Zenon, <1>2, <1>4, <1>6, <1>7, TargetMoves

LEMMA EntryFacts ==
  /\ \A w, b : [who |-> w, opt |-> b].who = w /\ [who |-> w, opt |-> b].opt = b
  /\ \A e \in Entries : e.who \in {"owner", "reader", "PUBLIC", "target", "target2"} /\ e.opt \in BOOLEAN
  /\ \A w \in {"owner", "reader", "PUBLIC", "target", "target2"}, b \in BOOLEAN : [who |-> w, opt |-> b] \in Entries
  /\ \A e \in Entries : e = [who |-> e.who, opt |-> e.opt]
BY DEF Entries

LEMMA ArtifactRecord ==
  ASSUME NEW a \in Artifacts
  PROVE  /\ a.want \in [Units -> Nat] /\ a.acl \in [Units -> SUBSET Entries] /\ a.data \in [Units -> Versions]
         /\ a.ids \in SUBSET (0..3) /\ a.delta \in [Units -> Versions] /\ a.cut \in [Units -> Nat]
         /\ a.calm \in BOOLEAN
BY Zenon DEF Artifacts

LEMMA TargetNext ==
  TypeOK /\ Next => TargetOK'
<1>GrantsMove.
      ASSUME Next
      PROVE  \/ UNCHANGED grants \/ PostgresResetDrop \/ PostgresResetCreate \/ PostgresRestoreACL \/ MySQLRevoke
             \/ MySQLRestoreGrant \/ ApplyMongoDBIdentities
  <2> USE <1>GrantsMove
  <2>1. MySQLResetDrop \/ MySQLResetCreate \/ MongoDBResetDrop \/ FlushRedisDatabases => UNCHANGED grants
    BY Zenon DEF MySQLResetDrop, MySQLResetCreate, MongoDBResetDrop, FlushRedisDatabases
  <2>2. PostgresRestoreLoad \/ MySQLRestoreLoad \/ MongoDBRestoreLoad \/ ApplyMongoDBOplogDelta \/ RedisRetryReset
        \/ RedisRestoreLoad => UNCHANGED grants
    BY Zenon DEF PostgresRestoreLoad, MySQLRestoreLoad, MongoDBRestoreLoad, ApplyMongoDBOplogDelta, RedisRetryReset,
       RedisRestoreLoad, atTarget
  <2>3. UNCHANGED grants \/ ResetSteps \/ RestoreSteps
    BY NextCases, SourceFrame, DumpFrame, ResetFrame, RestoreFrame, Zenon
  <2> QED
    BY Zenon, <2>1, <2>2, <2>3 DEF ResetSteps, RestoreSteps
<1>ApplyTypes.
      ASSUME NEW old \in SUBSET Entries, NEW new \in SUBSET Entries
      PROVE  ApplyPostgresACL(old, new) \in SUBSET Entries
  <2> USE <1>ApplyTypes
  <2>1. ASSUME NEW e \in old \cup new, NEW b \in BOOLEAN
        PROVE  [who |-> e.who, opt |-> b] \in Entries
    BY Zenon, EntryFacts
  <2> QED
    BY <2>1, Zenon DEF ApplyPostgresACL
<1>GrantTypes.
      ASSUME NEW old \in SUBSET Entries, NEW new \in SUBSET Entries
      PROVE  /\ DefaultACL \in SUBSET Entries
             /\ \A e \in new : MySQLGrant(old, e) \in SUBSET Entries
             /\ \A e \in old : (old \ {e}) \cup {MySQLGrantOptionRevoke(e)} \in SUBSET Entries
  <2> USE <1>GrantTypes
  <2>2. DefaultACL \in SUBSET Entries
    BY DEF DefaultACL, Entries
  <2>3. ASSUME NEW e \in Entries, NEW b \in BOOLEAN
        PROVE  [e EXCEPT !.opt = b] \in Entries
    BY Zenon DEF Entries
  <2>4. \A e \in new : MySQLGrant(old, e) \in SUBSET Entries
    <3>1. ASSUME NEW e \in new
          PROVE  [e EXCEPT !.opt = @ \/ \E g \in old : g.who = e.who /\ g.opt] \in Entries
      BY Zenon, <2>3, EntryFacts
    <3> QED
      BY Zenon, <3>1 DEF MySQLGrant
  <2>5. \A e \in old : (old \ {e}) \cup {MySQLGrantOptionRevoke(e)} \in SUBSET Entries
    BY Zenon, <2>3 DEF MySQLGrantOptionRevoke
  <2> QED
    BY Zenon, <2>2, <2>4, <2>5
<1> SUFFICES ASSUME TypeOK, Next
             PROVE  TargetOK'
  BY Zenon
<1>0. TargetOK /\ grants \in [Units -> SUBSET Entries] /\ Units = {1, 2}
  BY Zenon DEF TypeOK, TargetOK, Units
<1>a. /\ job.op = "restore" => job.art \in Artifacts /\ job.mig \in Migrations
      /\ job.op # "idle" => job.unit \in Units
  BY Zenon, HostFacts, IdleRecord DEF TypeOK, JobOK
<1>1. \A u \in Units : target'[u] \in UnitState /\ (~target'[u].made => target'[u] = Absent)
  <2>1. ASSUME NEW u \in Units, Emptied(u)
        PROVE  target'[u] \in UnitState /\ (~target'[u].made => target'[u] = Absent)
    BY Zenon, <2>1, UnitRecords DEF Emptied
  <2>2. ASSUME NEW u \in Units, Filled(u)
        PROVE  target'[u] \in UnitState /\ target'[u].made
    <3>1. job.op = "restore" => job.art.data[u] \in Contents /\ job.art.delta[u] \in Contents
      BY Zenon, <1>a, ArtifactRecord, VersionFacts
    <3> QED
      BY SMTT(30), <1>a, <2>2, <3>1, UnitRecords, VersionFacts DEF Filled
  <2>3. ASSUME NEW u \in Units, target'[u] = target[u]
        PROVE  target'[u] \in UnitState /\ (~target'[u].made => target'[u] = Absent)
    BY Zenon, <1>0, <2>3 DEF TargetOK
  <2> QED
    BY Zenon, <2>1, <2>2, <2>3, TargetChanges DEF TargetChange
<1>2. target' \in [Units -> UnitState]
  BY Zenon, <1>1, TargetChanges DEF TargetChange
<1>3. grants' \in [Units -> SUBSET Entries]
  <2>1. ASSUME NEW w \in Units, NEW x \in SUBSET Entries, grants' = [grants EXCEPT ![w] = x]
        PROVE  grants' \in [Units -> SUBSET Entries]
    BY Zenon, <1>0, <2>1
  <2>2. CASE PostgresResetDrop \/ PostgresResetCreate
    <3>1. job.unit \in Units
      BY Zenon, <1>a, <2>2, StepsMoveJob DEF ResetSteps
    <3>2. grants' = [grants EXCEPT ![job.unit] = {}] \/ grants' = [grants EXCEPT ![job.unit] = DefaultACL]
      BY Zenon, <2>2 DEF PostgresResetDrop, PostgresResetCreate, u_
    <3>3. {} \in SUBSET Entries /\ DefaultACL \in SUBSET Entries
      BY Zenon, <1>GrantTypes
    <3> QED
      BY Zenon, <2>1, <3>1, <3>2, <3>3
  <2>3. CASE PostgresRestoreACL
    <3>1. job.op = "restore" /\ grants' = [grants EXCEPT ![job.unit] = ApplyPostgresACL(@, job.art.acl[job.unit])]
      BY Zenon, <2>3 DEF PostgresRestoreACL, JobAt, u_
    <3>2. job.art.acl[job.unit] \in SUBSET Entries /\ grants[job.unit] \in SUBSET Entries /\ job.unit \in Units
      BY ZenonT(40), <1>0, <1>a, <3>1, ArtifactRecord
    <3>3. ApplyPostgresACL(grants[job.unit], job.art.acl[job.unit]) \in SUBSET Entries
      BY <3>2, <1>ApplyTypes, Zenon
    <3> QED
      BY Zenon, <2>1, <3>1, <3>2, <3>3
  <2>4. CASE MySQLRevoke
    <3>1. \/ \E g \in grants[1] : grants' = [grants EXCEPT ![1] = (@ \ {g}) \cup {MySQLGrantOptionRevoke(g)}]
          \/ \E g \in grants[1] : grants' = [grants EXCEPT ![1] = @ \ {g}]
          \/ UNCHANGED grants
      BY Zenon, <2>4 DEF MySQLRevoke
    <3>2. grants[1] \in SUBSET Entries
      BY Zenon, <1>0
    <3>3. \A g \in grants[1] : (grants[1] \ {g}) \cup {MySQLGrantOptionRevoke(g)} \in SUBSET Entries
                               /\ grants[1] \ {g} \in SUBSET Entries
      BY Zenon, <3>2, <1>GrantTypes
    <3> QED
      BY SMTT(30), <1>0, <2>1, <3>1, <3>3
  <2>5. CASE MySQLRestoreGrant
    <3>1. /\ job.op = "restore"
          /\ \/ \E e \in job.art.acl[1] : grants' = [grants EXCEPT ![1] = MySQLGrant(@, e)]
             \/ UNCHANGED grants
      BY Zenon, <2>5 DEF MySQLRestoreGrant, JobAt
    <3>2. job.art.acl[1] \in SUBSET Entries /\ grants[1] \in SUBSET Entries
      BY Zenon, <1>0, <1>a, <3>1, ArtifactRecord
    <3>3. \A e \in job.art.acl[1] : MySQLGrant(grants[1], e) \in SUBSET Entries
      BY Zenon, <3>2, <1>GrantTypes
    <3> QED
      BY <1>0, <2>1, <3>1, <3>3
  <2>6. CASE ApplyMongoDBIdentities
    <3>1. job.op = "restore" /\ grants' = [grants EXCEPT ![1] = job.art.acl[1]]
      BY Zenon, <2>6 DEF ApplyMongoDBIdentities, JobAt
    <3>2. job.art.acl[1] \in SUBSET Entries
      BY <1>0, <1>a, <3>1, ArtifactRecord
    <3> QED
      BY Zenon, <1>0, <2>1, <3>1, <3>2
  <2> QED
    BY Zenon, <1>0, <2>2, <2>3, <2>4, <2>5, <2>6, <1>GrantsMove
<1> QED
  BY Zenon, <1>1, <1>2, <1>3 DEF TargetOK

----------------------------------------------------------------------------
(* The dump at work at the source host *)

\* What a function of a type holds at one place may be replaced by another value of the type.
LEMMA ExceptType ==
  ASSUME NEW S, NEW T, NEW f \in [S -> T], NEW s \in S, NEW t \in T
  PROVE  [f EXCEPT ![s] = t] \in [S -> T]
  BY Zenon

LEMMA IdleDumpRecord ==
  /\ IdleDump \in Dumps /\ IdleDump.at = "idle" /\ IdleDump.unit = 1 /\ IdleDump.mig = None /\ IdleDump.ids = {}
  /\ IdleDump.calm /\ IdleDump.want = IdleDump.cut /\ IdleDump.cut = [u \in Units |-> 0]
  /\ \A u \in Units : IdleDump.data[u] = Nothing /\ IdleDump.acl[u] = {}
<1>1. /\ [u \in Units |-> Nothing] \in [Units -> Versions] /\ [u \in Units |-> 0] \in [Units -> Nat]
      /\ [u \in Units |-> {}] \in [Units -> SUBSET Entries] /\ 1 \in Units /\ {} \in SUBSET (0..3) /\ 0 \in Nat
  BY Zenon, VersionFacts DEF Units
<1>2. IdleDump \in Dumps
  BY <1>1, Zenon DEF IdleDump, Dumps
<1>3. /\ IdleDump.at = "idle" /\ IdleDump.unit = 1 /\ IdleDump.mig = None /\ IdleDump.ids = {} /\ IdleDump.calm
      /\ IdleDump.want = [u \in Units |-> 0] /\ IdleDump.cut = [u \in Units |-> 0]
      /\ IdleDump.data = [u \in Units |-> Nothing] /\ IdleDump.acl = [u \in Units |-> {}]
  BY Zenon DEF IdleDump
<1>4. \A u \in Units : IdleDump.data[u] = Nothing /\ IdleDump.acl[u] = {}
  BY <1>3
<1> QED
  BY Zenon, <1>2, <1>3, <1>4

\* Two dumps that differ in their step and unit at most.
SameRead(d, e) ==
  /\ d.mig = e.mig /\ d.want = e.want /\ d.acl = e.acl /\ d.data = e.data /\ d.start = e.start
  /\ d.end = e.end /\ d.ids = e.ids /\ d.delta = e.delta /\ d.cut = e.cut /\ d.calm = e.calm
Advances(after) ==
  \/ dump.unit = 1 /\ Last = 2 /\ dump'.unit = 2 /\ dump'.at = dump.at
  \/ dump.unit = Last /\ dump'.unit = 1 /\ dump'.at = after

\* What Complete makes of a dump.
ArtifactOf(d) ==
  [want |-> d.want, acl |-> d.acl, data |-> d.data, ids |-> d.ids, delta |-> d.delta, cut |-> d.cut, calm |-> d.calm]

\* A step of the source host leaves the artifacts alone or completes one that is good.
ArtifactGrows ==
  \/ UNCHANGED artifact
  \/ \E m \in Migrations, a \in Artifacts : Good(a) /\ artifact' = [artifact EXCEPT ![m] = a]

----------------------------------------------------------------------------
(* The dump at work and the rest of the system *)

LEMMA DumpNext ==
  TypeOK /\ SourceInv /\ DumpInv /\ Next => DumpOK' /\ DumpInv' /\ ArtifactGrows
\* An entry appended to the oplog explains a change of the source, and ends the window.
<1>DumpRecord.
      ASSUME NEW d \in Dumps
      PROVE  /\ d.mig \in Migrations \cup {None} /\ d.at \in DumpSteps \cup {"idle"} /\ d.unit \in Units
             /\ d.start \in Nat /\ d.end \in Nat /\ d.want \in [Units -> Nat] /\ d.acl \in [Units -> SUBSET Entries]
             /\ d.data \in [Units -> Versions] /\ d.ids \in SUBSET (0..3) /\ d.delta \in [Units -> Versions]
             /\ d.cut \in [Units -> Nat] /\ d.calm \in BOOLEAN
  BY <1>DumpRecord, Zenon DEF Dumps
<1>DumpAtWork.
      ASSUME TypeOK, dump.at # "idle"
      PROVE  /\ dump \in Dumps /\ dump.mig \in Migrations /\ dump.at \in DumpSteps /\ dump.unit \in Scope
             /\ dump.unit \in Units /\ Last \in {1, 2} /\ (dump.unit < Last => dump.unit = 1 /\ Last = 2)
             /\ (~(dump.unit < Last) => dump.unit = Last)
  <2> USE <1>DumpAtWork
  <2>1. dump \in Dumps /\ dump.mig \in Migrations /\ dump.at \in DumpSteps /\ dump.unit \in Scope
    BY Zenon, IdleDumpRecord DEF TypeOK, DumpOK
  <2>2. Last \in {1, 2} /\ Scope \subseteq Units
    BY Zenon, HostFacts DEF TypeOK
  <2> QED
    BY SMTT(30), <2>1, <2>2 DEF Scope
<1>DumpOnRecord.
      ASSUME TypeOK, dump.at # "idle", NEW after \in DumpSteps, NEW d \in Dumps,
             d.unit = dump.unit, d.at = dump.at, dump' = DumpOn(d, after)
      PROVE  dump' \in Dumps /\ SameRead(dump', d) /\ Advances(after)
  <2> USE <1>DumpOnRecord
  <2>1. /\ Last \in {1, 2} /\ (dump.unit < Last => dump.unit = 1 /\ Last = 2)
        /\ (~(dump.unit < Last) => dump.unit = Last) /\ 1 \in Units /\ 2 \in Units
    BY Zenon, <1>DumpAtWork DEF Units
  <2>2. CASE dump.unit < Last
    <3>1. dump' = [d EXCEPT !.unit = 2]
      BY SMTT(30), <2>1, <2>2 DEF DumpOn
    <3>2. dump' \in Dumps /\ dump'.unit = 2 /\ dump'.at = d.at
      BY <2>1, <3>1, Zenon DEF Dumps
    <3>3. SameRead(dump', d)
      BY <3>1, Zenon DEF Dumps, SameRead
    <3> QED
      BY Zenon, <2>1, <2>2, <3>2, <3>3 DEF Advances
  <2>3. CASE ~(dump.unit < Last)
    <3>1. dump' = [d EXCEPT !.unit = 1, !.at = after]
      BY Zenon, <2>1, <2>3 DEF DumpOn
    <3>2. dump' \in Dumps /\ dump'.unit = 1 /\ dump'.at = after
      BY <2>1, <3>1, Zenon DEF Dumps
    <3>3. SameRead(dump', d)
      BY <3>1, Zenon DEF Dumps, SameRead
    <3> QED
      BY Zenon, <2>1, <2>3, <3>2, <3>3 DEF Advances
  <2> QED
    BY Zenon, <2>2, <2>3
<1>SeenNowType.
      ASSUME SourceOK
      PROVE  SeenNow \in [Units -> Nat] /\ \A u \in Units : SeenNow[u] = Seen(source[u]) /\ Seen(source[u]) \in Nat
  BY Zenon, <1>SeenNowType, VersionFacts DEF SourceOK, SeenNow
<1>ArtifactOfRecord.
      ASSUME NEW d \in Dumps
      PROVE  LET a == ArtifactOf(d) IN
               /\ a \in Artifacts /\ a.want = d.want /\ a.acl = d.acl /\ a.data = d.data /\ a.ids = d.ids
               /\ a.delta = d.delta /\ a.cut = d.cut /\ a.calm = d.calm
  BY <1>ArtifactOfRecord, Zenon DEF Dumps, Artifacts, ArtifactOf
<1>Completes.
      ASSUME NEW d, Complete(d)
      PROVE  dump' = IdleDump /\ artifact' = [artifact EXCEPT ![d.mig] = ArtifactOf(d)]
  BY Zenon, <1>Completes DEF Complete, ArtifactOf
<1>IdleDumpNext.
      ASSUME TypeOK, UNCHANGED <<engine, variant>>, dump' = IdleDump
      PROVE  DumpOK' /\ DumpInv'
  <2> USE <1>IdleDumpNext
  <2>1. /\ dump' \in Dumps /\ dump'.at = "idle" /\ dump'.unit = 1 /\ dump'.ids = {} /\ dump'.want = dump'.cut
        /\ \A u \in Units : dump'.data[u] = Nothing /\ dump'.acl[u] = {}
    BY Zenon, IdleDumpRecord
  <2>2. DumpOK'
    BY Zenon, <2>1 DEF DumpOK
  <2>3. SqlDumping'
    BY Zenon, <2>1 DEF SqlDumping, Merged
  <2>4. OplogDumping' /\ RedisDumping'
    BY SMTT(30), <2>1 DEF OplogDumping, RedisDumping
  <2> QED
    BY Zenon, <2>1, <2>2, <2>3, <2>4 DEF DumpInv
<1>SqlDumpKeeps.
      ASSUME TypeOK, Sql, UNCHANGED <<engine, variant>>, SqlDumping', dump'.ids = {}
      PROVE  DumpInv'
  <2> USE <1>SqlDumpKeeps
  <2>1. Sql' /\ engine' \notin {"mongodb", "redis"} /\ variant' # "oplog"
    BY Zenon, HostFacts DEF TypeOK, Sql
  <2> QED
    BY Zenon, <2>1 DEF DumpInv
\* An artifact of tables or databases is good when what was read is not older than its inspection.
<1>SqlArtifact.
      ASSUME TypeOK, Sql, NEW d \in Dumps, d.mig \in Migrations, d.ids = {}, Complete(d),
             \A u \in Scope : 1 <= d.want[u] /\ d.want[u] <= d.cut[u] /\ d.cut[u] <= Seen(d.data[u]),
             \A u \in Units : Merged(d.acl[u])
      PROVE  ArtifactGrows
  <2> USE <1>SqlArtifact
  <2>1. Sql /\ engine \notin {"mongodb", "redis"} /\ variant # "oplog"
    BY Zenon, HostFacts DEF TypeOK, Sql
  <2>2. PICK a : a = ArtifactOf(d)
    BY Zenon
  <2>3. /\ a \in Artifacts /\ a.want = d.want /\ a.acl = d.acl /\ a.data = d.data /\ a.ids = d.ids
        /\ a.delta = d.delta /\ a.cut = d.cut /\ a.calm = d.calm
    BY Zenon, <2>2, <1>ArtifactOfRecord
  <2>4. Good(a)
    BY Zenon, <2>1, <2>3 DEF Good
  <2>5. artifact' = [artifact EXCEPT ![d.mig] = a]
    BY Zenon, <2>2, <1>Completes
  <2> QED
    BY Zenon, <2>3, <2>4, <2>5 DEF ArtifactGrows
\* The steps of a PostgreSQL dump keep what is known of it; the last one leaves a good artifact.
<1>PostgresDumpNext.
        TypeOK /\ SourceInv /\ DumpInv /\ (PostgresDumpInspect \/ PostgresDumpMember)
          => DumpOK' /\ DumpInv' /\ ArtifactGrows
      \* inspectPostgresPrivileges merges the entries of an account, and no source role is left
  <2>InspectedPrivileges.
        ASSUME NEW entries \in SUBSET Entries
        PROVE  LET p == InspectPostgresPrivileges(entries) IN
                 /\ p \in SUBSET Entries /\ \A e, f \in p : e.who = f.who => e = f
                 /\ \A e \in p : e.who \notin {"owner", "reader"}
    <3> USE <2>InspectedPrivileges
    <3> DEFINE N(w) == NormalizePostgresACLGrantee(w)
               P == InspectPostgresPrivileges(entries)
               O(w) == \E e \in entries : N(e.who) = w /\ e.opt
    <3>1. \A w \in {"owner", "reader", "PUBLIC", "target", "target2"} : N(w) \in {"PUBLIC", "target", "target2"}
      BY SMTT(30) DEF NormalizePostgresACLGrantee, RoleMap
    <3>2. \A e \in entries : N(e.who) \in {"PUBLIC", "target", "target2"}
      BY Zenon, <3>1, EntryFacts
    <3>3. \A p \in P : \E e \in entries : p = [who |-> N(e.who), opt |-> O(N(e.who))]
      BY Zenon DEF InspectPostgresPrivileges
    <3> HIDE DEF P, N, O
    <3>4. \A p \in P : p.who \in {"PUBLIC", "target", "target2"} /\ p = [who |-> p.who, opt |-> O(p.who)]
      BY <3>2, <3>3
    <3>5. \A w : O(w) \in BOOLEAN
      BY Zenon DEF O
    <3>6. P \in SUBSET Entries
      BY SMTT(30), <3>4, <3>5, EntryFacts
    <3>7. \A e, f \in P : e.who = f.who => e = f
      BY Zenon, <3>4
    <3>8. \A e \in P : e.who \notin {"owner", "reader"}
      BY Zenon, <3>4
    <3> QED
      BY Zenon, <3>6, <3>7, <3>8 DEF P
  <2>PostgresInspected.
        ASSUME TypeOK, PostgresDumpInspect
        PROVE  /\ dump' \in Dumps /\ Advances("dump") /\ dump.at = "inspect"
               /\ dump'.want = [dump.want EXCEPT ![dump.unit] = Seen(source[dump.unit])] /\ dump'.cut = SeenNow
               /\ dump'.acl = [dump.acl EXCEPT ![dump.unit] = InspectPostgresPrivileges(acl[dump.unit])]
               /\ dump'.data = dump.data /\ dump'.mig = dump.mig /\ dump'.ids = dump.ids
    <3> USE <2>PostgresInspected
    <3>1. /\ dump.at = "inspect" /\ dump \in Dumps /\ dump.unit \in Units /\ dump.at # "idle" /\ "dump" \in DumpSteps
          /\ SourceOK /\ acl[dump.unit] \in SUBSET Entries
      <4>1. dump.at = "inspect" /\ dump.at # "idle"
        BY Zenon DEF PostgresDumpInspect, DumpAt
      <4>2. dump \in Dumps /\ dump.unit \in Units /\ SourceOK
        BY Zenon, <4>1, <1>DumpAtWork DEF TypeOK
      <4>3. acl[dump.unit] \in Acls /\ Acls \subseteq SUBSET Entries
        BY Zenon, <4>2, DatabaseHostsAssumption DEF SourceOK
      <4> QED
        BY ZenonT(40), <4>1, <4>2, <4>3 DEF DumpSteps
    <3>2. PICK w, a : /\ w = [dump.want EXCEPT ![dump.unit] = Seen(source[dump.unit])]
                      /\ a = [dump.acl EXCEPT ![dump.unit] = InspectPostgresPrivileges(acl[dump.unit])]
      BY Zenon
    <3>3. w \in [Units -> Nat] /\ a \in [Units -> SUBSET Entries] /\ SeenNow \in [Units -> Nat]
      <4>1. dump.want \in [Units -> Nat] /\ dump.acl \in [Units -> SUBSET Entries]
        BY Zenon, <3>1, <1>DumpRecord
      <4>2. Seen(source[dump.unit]) \in Nat /\ SeenNow \in [Units -> Nat]
        BY Zenon, <3>1, <1>SeenNowType
      <4>3. InspectPostgresPrivileges(acl[dump.unit]) \in SUBSET Entries
        BY <3>1, <2>InspectedPrivileges, Zenon
      <4> QED
        BY <3>1, <3>2, <4>1, <4>2, <4>3, Zenon
    <3>4. PICK d : d = InspectPostgresMember(dump)
      BY Zenon
    <3>5. d = [dump EXCEPT !.want = w, !.acl = a, !.cut = SeenNow]
      BY Zenon, <3>2, <3>4 DEF InspectPostgresMember
    <3>6. /\ d \in Dumps /\ d.want = w /\ d.acl = a /\ d.cut = SeenNow /\ d.mig = dump.mig /\ d.at = dump.at
          /\ d.unit = dump.unit /\ d.data = dump.data /\ d.ids = dump.ids
      <4>1. dump \in Dumps
        BY Zenon, <3>1
      <4> QED
        BY <4>1, <3>3, <3>5, Zenon DEF Dumps
    <3>7. dump' = DumpOn(d, "dump")
      BY Zenon, <3>4 DEF PostgresDumpInspect
    <3>8. dump' \in Dumps /\ SameRead(dump', d) /\ Advances("dump")
      BY Zenon, <3>1, <3>6, <3>7, <1>DumpOnRecord
    <3> QED
      BY Zenon, <3>1, <3>2, <3>6, <3>8 DEF SameRead
  <2>PostgresMemberRead.
        ASSUME TypeOK, PostgresDumpMember
        PROVE  \E d \in Dumps :
                 /\ d.data = [dump.data EXCEPT ![dump.unit] = source[dump.unit]] /\ dump.at = "dump"
                 /\ d.want = dump.want /\ d.acl = dump.acl /\ d.cut = dump.cut /\ d.ids = dump.ids /\ d.mig = dump.mig
                 /\ \/ /\ dump.unit = 1 /\ Last = 2 /\ UNCHANGED artifact
                       /\ dump' \in Dumps /\ SameRead(dump', d) /\ dump'.unit = 2 /\ dump'.at = "dump"
                    \/ dump.unit = Last /\ Complete(d)
    <3> USE <2>PostgresMemberRead
    <3>1. dump.at = "dump" /\ dump.at # "idle" /\ "dump" \in DumpSteps
      BY Zenon DEF PostgresDumpMember, DumpAt, DumpSteps
    <3>2. /\ dump \in Dumps /\ dump.unit \in Units /\ (dump.unit < Last => dump.unit = 1 /\ Last = 2)
          /\ (~(dump.unit < Last) => dump.unit = Last)
      BY Zenon, <3>1, <1>DumpAtWork
    <3>3. PICK x : x = [dump.data EXCEPT ![dump.unit] = source[dump.unit]]
      BY Zenon
    <3>4. x \in [Units -> Versions]
      <4>1. dump.data \in [Units -> Versions] /\ source[dump.unit] \in Versions
        BY Zenon, <3>2, <1>DumpRecord DEF TypeOK, SourceOK
      <4> QED
        BY Zenon, <3>2, <3>3, <4>1, ExceptType
    <3>5. PICK d : d = [dump EXCEPT !.data = x]
      BY Zenon
    <3>6. /\ d \in Dumps /\ d.data = x /\ d.want = dump.want /\ d.acl = dump.acl /\ d.cut = dump.cut
          /\ d.ids = dump.ids /\ d.mig = dump.mig /\ d.unit = dump.unit /\ d.at = dump.at
      <4>1. dump \in Dumps
        BY Zenon, <3>2
      <4> QED
        BY <4>1, <3>4, <3>5, Zenon DEF Dumps
    <3>7. d = [dump EXCEPT !.data[dump.unit] = source[dump.unit]]
      BY Zenon, <3>3, <3>5
    <3>8. CASE dump.unit < Last
      <4>1. dump' = DumpOn(d, "dump") /\ UNCHANGED artifact
        BY Zenon, <3>7, <3>8 DEF PostgresDumpMember
      <4>2. dump' \in Dumps /\ SameRead(dump', d) /\ Advances("dump")
        BY Zenon, <3>1, <3>6, <4>1, <1>DumpOnRecord
      <4>3. dump'.unit = 2 /\ dump'.at = "dump"
        BY Zenon, <3>1, <3>2, <3>8, <4>2 DEF Advances
      <4> QED
        BY Zenon, <3>1, <3>2, <3>3, <3>6, <3>8, <4>1, <4>2, <4>3
    <3>9. CASE ~(dump.unit < Last)
      <4>1. Complete(d)
        BY Zenon, <3>7, <3>9 DEF PostgresDumpMember
      <4> QED
        BY Zenon, <3>1, <3>2, <3>3, <3>6, <3>9, <4>1
    <3> QED
      BY ZenonT(40), <3>8, <3>9
  <2>PostgresInspectNext.
        ASSUME TypeOK, SourceInv, DumpInv, PostgresDumpInspect
        PROVE  DumpOK' /\ DumpInv' /\ ArtifactGrows
    <3> USE <2>PostgresInspectNext
    <3>1. /\ engine = "postgres" /\ Sql /\ dump.at = "inspect" /\ dump.at # "idle"
          /\ UNCHANGED <<engine, variant, source, artifact>>
      BY Zenon DEF PostgresDumpInspect, DumpAt, hosts, atSource, records, Sql
    <3>0. Scope' = Scope
      BY Zenon, <3>1 DEF Scope, Last
    <3>2. /\ dump' \in Dumps /\ Advances("dump") /\ dump.at = "inspect"
          /\ dump'.want = [dump.want EXCEPT ![dump.unit] = Seen(source[dump.unit])] /\ dump'.cut = SeenNow
          /\ dump'.acl = [dump.acl EXCEPT ![dump.unit] = InspectPostgresPrivileges(acl[dump.unit])]
          /\ dump'.mig = dump.mig /\ dump'.ids = dump.ids
      BY Zenon, <2>PostgresInspected
    <3>3. /\ dump.mig \in Migrations /\ dump.unit \in Scope /\ Last \in {1, 2} /\ dump.unit \in Units
          /\ dump.want \in [Units -> Nat] /\ dump.acl \in [Units -> SUBSET Entries] /\ dump.at \in DumpSteps
      BY Zenon, <3>1, <1>DumpAtWork, <1>DumpRecord
    <3>4. SqlDumping /\ dump.ids = {} /\ SourceOK /\ Scope \subseteq Units /\ Scope = 1..Last
      BY Zenon, <3>1, HostFacts DEF DumpInv, TypeOK, Sql, Scope
    <3>5. \A u \in Units : SeenNow[u] = Seen(source[u]) /\ Seen(source[u]) \in Nat /\ Seen(source[u]) >= 1
      BY Zenon, <3>1, <3>4, <1>SeenNowType DEF SourceInv
    <3>6. (\A u \in Units : Merged(dump.acl[u]))'
      <4>1. acl[dump.unit] \in SUBSET Entries
        BY Zenon, <3>3, <3>4, DatabaseHostsAssumption DEF SourceOK
      <4>2. LET p == InspectPostgresPrivileges(acl[dump.unit]) IN
              (\A e, f \in p : e.who = f.who => e = f) /\ \A e \in p : e.who \notin {"owner", "reader"}
        BY <4>1, <2>InspectedPrivileges, Zenon
      <4>3. Merged(InspectPostgresPrivileges(acl[dump.unit]))
        BY <4>2, Zenon DEF Merged
      <4>4. \A u \in Units : Merged(dump.acl[u])
        BY Zenon, <3>4 DEF SqlDumping
      <4>5. \A u \in Units : dump'.acl[u] = IF u = dump.unit THEN InspectPostgresPrivileges(acl[dump.unit]) ELSE dump.acl[u]
        BY <3>2, <3>3, Zenon
      <4>6. \A u \in Units : Merged(dump'.acl[u])
        BY <4>3, <4>4, <4>5, Zenon
      <4> QED
        BY <3>1, <4>6, Zenon DEF Merged
    <3>7. \A u \in Units : dump'.want[u] = IF u = dump.unit THEN Seen(source[u]) ELSE dump.want[u]
      BY Zenon, <3>2, <3>3
    <3>8. \A u \in Scope : u < dump.unit => 1 <= dump.want[u] /\ dump.want[u] <= Seen(source[u])
      BY Zenon, <3>2, <3>4 DEF SqlDumping
    <3>9. \A u \in Scope : u <= dump.unit => 1 <= dump'.want[u] /\ dump'.want[u] <= Seen(source'[u])
      <4> SUFFICES ASSUME NEW u \in Scope, u <= dump.unit
                   PROVE  1 <= dump'.want[u] /\ dump'.want[u] <= Seen(source[u])
        BY Zenon, <3>1
      <4>1. u \in Units /\ (u = dump.unit \/ u < dump.unit)
        BY SMTT(30), <3>3, <3>4 DEF Units
      <4>2. dump'.want[u] = Seen(source[u]) \/ (1 <= dump'.want[u] /\ dump'.want[u] <= Seen(source[u]))
        BY Zenon, <3>7, <3>8, <4>1
      <4>3. Seen(source[u]) \in Nat /\ Seen(source[u]) >= 1
        BY Zenon, <3>5, <4>1
      <4> QED
        BY SMTT(30), <4>2, <4>3
    <3>10. SqlDumping'
      <4>1. CASE dump.unit = 1 /\ Last = 2 /\ dump'.unit = 2 /\ dump'.at = dump.at
        <5>1. \A u \in Scope' : u < dump'.unit => 1 <= dump'.want[u] /\ dump'.want[u] <= Seen(source'[u])
          BY SMTT(30), <3>0, <3>4, <3>9, <4>1
        <5>2. dump'.at \notin {"grants", "dump"}
          BY Zenon, <3>1, <4>1
        <5> QED
          BY <3>6, <5>1, <5>2, Zenon DEF SqlDumping
      <4>2. CASE dump.unit = Last /\ dump'.unit = 1 /\ dump'.at = "dump"
        <5>1. \A u \in Scope : u <= dump.unit /\ dump'.cut[u] = Seen(source'[u]) /\ dump'.want[u] <= dump'.cut[u] /\ u >= 1
          <6>1. \A u \in Scope : u \in Units /\ u <= dump.unit /\ u >= 1
            BY SMTT(30), <3>4, <4>2 DEF Units
          <6>2. \A u \in Scope : dump'.cut[u] = Seen(source'[u]) /\ dump'.want[u] <= Seen(source'[u])
            BY Zenon, <3>1, <3>2, <3>5, <3>9, <6>1
          <6> QED
            BY Zenon, <6>1, <6>2
        <5>2. \A u \in Scope' :
                /\ 1 <= dump'.want[u] /\ dump'.want[u] <= dump'.cut[u]
                /\ (u >= dump'.unit => dump'.cut[u] <= Seen(source'[u])) /\ ~(u < dump'.unit)
          BY SMTT(30), <3>0, <3>1, <3>4, <3>5, <3>9, <4>2, <5>1
        <5>3. dump'.at # "inspect" /\ engine' # "mysql"
          BY Zenon, <3>1, <4>2
        <5> QED
          BY <3>6, <5>2, <5>3, Zenon DEF SqlDumping
      <4> QED
        BY Zenon, <3>2, <4>1, <4>2 DEF Advances
    <3>11. DumpOK'
      <4>1. dump'.at \in DumpSteps /\ dump'.unit \in Scope' /\ dump'.mig \in Migrations
        BY SMTT(30), <3>1, <3>2, <3>3 DEF Advances, DumpSteps, Scope, Last
      <4> QED
        BY Zenon, <3>2, <4>1 DEF DumpOK
    <3> QED
      BY Zenon, <3>1, <3>2, <3>4, <3>10, <3>11, <1>SqlDumpKeeps DEF ArtifactGrows
  <2>PostgresMemberNext.
        ASSUME TypeOK, SourceInv, DumpInv, PostgresDumpMember
        PROVE  DumpOK' /\ DumpInv' /\ ArtifactGrows
    <3> USE <2>PostgresMemberNext
    <3>1. engine = "postgres" /\ Sql /\ dump.at = "dump" /\ dump.at # "idle" /\ UNCHANGED <<engine, variant, source>>
      BY Zenon DEF PostgresDumpMember, DumpAt, hosts, atSource, Sql
    <3>0. Scope' = Scope
      BY Zenon, <3>1 DEF Scope, Last
    <3>2. PICK d \in Dumps :
            /\ d.data = [dump.data EXCEPT ![dump.unit] = source[dump.unit]] /\ dump.at = "dump"
            /\ d.want = dump.want /\ d.acl = dump.acl /\ d.cut = dump.cut /\ d.ids = dump.ids /\ d.mig = dump.mig
            /\ \/ /\ dump.unit = 1 /\ Last = 2 /\ UNCHANGED artifact
                  /\ dump' \in Dumps /\ SameRead(dump', d) /\ dump'.unit = 2 /\ dump'.at = "dump"
               \/ dump.unit = Last /\ Complete(d)
      BY Zenon, <2>PostgresMemberRead
    <3>3. /\ dump.mig \in Migrations /\ dump.unit \in Scope /\ dump.unit \in Units /\ dump.data \in [Units -> Versions]
          /\ Last \in {1, 2} /\ Scope \subseteq Units /\ Scope = 1..Last
      BY Zenon, <3>1, <1>DumpAtWork, <1>DumpRecord, HostFacts DEF TypeOK, Scope
    <3>4. SqlDumping /\ dump.ids = {}
      BY ZenonT(40), <3>1, HostFacts DEF DumpInv, TypeOK, Sql
    <3>5. \A u \in Scope :
            /\ 1 <= dump.want[u] /\ dump.want[u] <= dump.cut[u]
            /\ (u >= dump.unit => dump.cut[u] <= Seen(source[u]))
            /\ (u < dump.unit => dump.cut[u] <= Seen(dump.data[u]))
      BY <3>1, <3>4, Zenon DEF SqlDumping
    <3>6. \A u \in Units : d.data[u] = IF u = dump.unit THEN source[u] ELSE dump.data[u]
      BY ZenonT(40), <3>2, <3>3
    <3>7. \A u \in Scope : u <= dump.unit => dump.cut[u] <= Seen(d.data[u])
      <4>1. \A u \in Scope : u = dump.unit => d.data[u] = source[u] /\ u >= dump.unit
        BY SMTT(30), <3>3, <3>6
      <4>2. \A u \in Scope : u <= dump.unit /\ u # dump.unit => d.data[u] = dump.data[u] /\ u < dump.unit
        BY SMTT(30), <3>3, <3>6
      <4> QED
        BY <3>5, <4>1, <4>2, Zenon
    <3>8. \A u \in Units : Merged(dump.acl[u])
      BY Zenon, <3>4 DEF SqlDumping
    <3>9. CASE /\ dump.unit = 1 /\ Last = 2 /\ UNCHANGED artifact
               /\ dump' \in Dumps /\ SameRead(dump', d) /\ dump'.unit = 2 /\ dump'.at = "dump"
      <4>1. /\ dump'.want = dump.want /\ dump'.cut = dump.cut /\ dump'.data = d.data /\ dump'.acl = dump.acl
            /\ dump'.ids = {} /\ dump'.mig \in Migrations
        BY ZenonT(40), <3>2, <3>3, <3>4, <3>9 DEF SameRead
      <4>2. \A u \in Scope : (u < 2 => u <= dump.unit) /\ (u >= 2 => u >= dump.unit)
        BY <3>3, <3>9
      <4>3. \A u \in Scope' :
              /\ 1 <= dump'.want[u] /\ dump'.want[u] <= dump'.cut[u]
              /\ (u >= dump'.unit => dump'.cut[u] <= Seen(source'[u]))
              /\ (u < dump'.unit => dump'.cut[u] <= Seen(dump'.data[u]))
        BY <3>0, <3>1, <3>5, <3>7, <3>9, <4>1, <4>2, Zenon
      <4>4. dump'.at # "inspect" /\ engine' # "mysql"
        BY Zenon, <3>1, <3>9
      <4>5. (\A u \in Units : Merged(dump.acl[u]))'
        BY <3>1, <3>8, <4>1, Zenon DEF Merged
      <4>6. SqlDumping'
        BY <4>3, <4>4, <4>5, Zenon DEF SqlDumping
      <4>7. dump'.at \in DumpSteps /\ dump'.unit \in Scope'
        BY SMTT(30), <3>0, <3>3, <3>9 DEF DumpSteps
      <4>8. DumpOK'
        BY Zenon, <3>9, <4>1, <4>7 DEF DumpOK
      <4> QED
        BY Zenon, <3>1, <3>9, <4>1, <4>6, <4>8, <1>SqlDumpKeeps DEF ArtifactGrows
    <3>10. CASE dump.unit = Last /\ Complete(d)
      <4>1. \A u \in Scope : 1 <= d.want[u] /\ d.want[u] <= d.cut[u] /\ d.cut[u] <= Seen(d.data[u])
        <5>1. \A u \in Scope : u <= dump.unit
          BY SMTT(30), <3>3, <3>10
        <5> QED
          BY Zenon, <3>2, <3>5, <3>7, <5>1
      <4>2. d.mig \in Migrations /\ d.ids = {} /\ \A u \in Units : Merged(d.acl[u])
        BY Zenon, <3>2, <3>3, <3>4, <3>8
      <4>3. ArtifactGrows
        BY Zenon, <3>1, <3>2, <3>10, <4>1, <4>2, <1>SqlArtifact
      <4>4. dump' = IdleDump
        BY Zenon, <3>10, <1>Completes
      <4> QED
        BY Zenon, <3>1, <4>3, <4>4, <1>IdleDumpNext
    <3> QED
      BY Zenon, <3>2, <3>9, <3>10
  <2> QED
    BY Zenon, <2>PostgresInspectNext, <2>PostgresMemberNext
\* The same for MySQL.
<1>MySQLDumpNext.
      TypeOK /\ SourceInv /\ DumpInv /\ (MySQLDumpInspect \/ MySQLGrantInventory \/ MySQLDumpTables)
        => DumpOK' /\ DumpInv' /\ ArtifactGrows
  <2>MySQLInspected.
        ASSUME TypeOK, MySQLDumpInspect
        PROVE  /\ dump' \in Dumps /\ Advances("grants") /\ dump.at = "inspect"
               /\ dump'.want = [dump.want EXCEPT ![dump.unit] = Seen(source[dump.unit])] /\ dump'.cut = SeenNow
               /\ dump'.acl = dump.acl /\ dump'.data = dump.data /\ dump'.mig = dump.mig /\ dump'.ids = dump.ids
    <3> USE <2>MySQLInspected
    <3>1. dump.at = "inspect" /\ dump.at # "idle" /\ "grants" \in DumpSteps
      BY Zenon DEF MySQLDumpInspect, DumpAt, DumpSteps
    <3>2. dump \in Dumps /\ dump.unit \in Units /\ SourceOK
      BY Zenon, <3>1, <1>DumpAtWork DEF TypeOK
    <3>3. PICK w : w = [dump.want EXCEPT ![dump.unit] = Seen(source[dump.unit])]
      BY Zenon
    <3>4. w \in [Units -> Nat] /\ SeenNow \in [Units -> Nat]
      <4>1. dump.want \in [Units -> Nat] /\ Seen(source[dump.unit]) \in Nat /\ SeenNow \in [Units -> Nat]
        BY Zenon, <3>2, <1>DumpRecord, <1>SeenNowType
      <4> QED
        BY Zenon, <3>2, <3>3, <4>1, ExceptType
    <3>5. PICK d : d = [dump EXCEPT !.want = w, !.cut = SeenNow]
      BY Zenon
    <3>6. /\ d \in Dumps /\ d.data = dump.data /\ d.want = w /\ d.acl = dump.acl /\ d.cut = SeenNow
          /\ d.ids = dump.ids /\ d.mig = dump.mig /\ d.unit = dump.unit /\ d.at = dump.at
      <4>1. dump \in Dumps
        BY Zenon, <3>2
      <4> QED
        BY <4>1, <3>4, <3>5, Zenon DEF Dumps
    <3>7. dump' = DumpOn(d, "grants")
      BY Zenon, <3>3, <3>5 DEF MySQLDumpInspect, MySQLTableDataDigest
    <3>8. dump' \in Dumps /\ SameRead(dump', d) /\ Advances("grants")
      BY Zenon, <3>1, <3>6, <3>7, <1>DumpOnRecord
    <3> QED
      BY Zenon, <3>1, <3>3, <3>6, <3>8 DEF SameRead
  \* the grants of the source are mapped one to one
  <2>MySQLMapping.
        ASSUME NEW entries \in Acls, MySQLMapped(entries)
        PROVE  LET p == MapMySQLPrincipal(entries) IN p \in SUBSET Entries /\ \A e, f \in p : e.who = f.who => e = f
    <3> USE <2>MySQLMapping
    <3>1. entries \in SUBSET Entries /\ \A e, f \in entries : e.who = f.who => e = f
      BY Zenon, DatabaseHostsAssumption, MySQLAssumption
    <3>2. \A e \in entries : e.who \in {"owner", "reader"}
      BY Zenon DEF MySQLMapped, AccountMap
    <3>3. AccountMap["owner"] = "target" /\ AccountMap["reader"] = "target2"
      BY Zenon DEF AccountMap
    <3>4. \A e \in Entries : \A w : [e EXCEPT !.who = w] = [who |-> w, opt |-> e.opt]
      BY DEF Entries
    <3>5. \A p \in MapMySQLPrincipal(entries) : \E e \in entries : p = [who |-> AccountMap[e.who], opt |-> e.opt]
      BY Zenon, <3>1, <3>4 DEF MapMySQLPrincipal
    <3>6. \A e \in entries : AccountMap[e.who] \in {"target", "target2"}
      BY Zenon, <3>2, <3>3
    <3>7. \A e, f \in entries : AccountMap[e.who] = AccountMap[f.who] => e = f
      BY Zenon, <3>1, <3>2, <3>3
    <3>8. MapMySQLPrincipal(entries) \in SUBSET Entries
      BY <3>1, <3>5, <3>6, EntryFacts
    <3>9. \A e, f \in MapMySQLPrincipal(entries) : e.who = f.who => e = f
      BY <3>5, <3>7, EntryFacts
    <3> QED
      BY Zenon, <3>8, <3>9
  <2>MySQLInventoried.
        ASSUME TypeOK, MySQLGrantInventory
        PROVE  \/ dump' = IdleDump
               \/ /\ dump' \in Dumps /\ dump.at = "grants" /\ dump'.at = "dump" /\ dump'.unit = dump.unit
                  /\ dump'.want = dump.want /\ dump'.cut = dump.cut /\ dump'.data = dump.data /\ dump'.mig = dump.mig
                  /\ dump'.ids = dump.ids /\ MySQLMapped(acl[1])
                  /\ dump'.acl = [dump.acl EXCEPT ![1] = MapMySQLPrincipal(acl[1])]
    <3> USE <2>MySQLInventoried
    <3>1. dump.at = "grants" /\ dump.at # "idle" /\ "dump" \in DumpSteps
      BY Zenon DEF MySQLGrantInventory, DumpAt, DumpSteps
    <3>2. dump \in Dumps /\ dump.acl \in [Units -> SUBSET Entries] /\ acl[1] \in Acls
      <4>1. dump \in Dumps /\ dump.acl \in [Units -> SUBSET Entries] /\ acl \in [Units -> Acls]
        BY Zenon, <3>1, <1>DumpAtWork, <1>DumpRecord DEF TypeOK, SourceOK
      <4>2. 1 \in Units
        BY Zenon DEF Units
      <4> QED
        BY Zenon, <4>1, <4>2
    <3>3. CASE MySQLMapped(acl[1])
      <4>1. PICK a : a = [dump.acl EXCEPT ![1] = MapMySQLPrincipal(acl[1])]
        BY Zenon
      <4>2. MapMySQLPrincipal(acl[1]) \in SUBSET Entries
        BY ZenonT(40), <3>2, <3>3, <2>MySQLMapping
      <4>3. a \in [Units -> SUBSET Entries]
        BY <3>2, <4>1, <4>2, Zenon
      <4>4. dump' = [dump EXCEPT !.at = "dump", !.acl = a]
        BY Zenon, <3>3, <4>1 DEF MySQLGrantInventory
      <4>5. /\ dump' \in Dumps /\ dump'.at = "dump" /\ dump'.unit = dump.unit /\ dump'.acl = a
            /\ dump'.want = dump.want /\ dump'.cut = dump.cut /\ dump'.data = dump.data /\ dump'.mig = dump.mig
            /\ dump'.ids = dump.ids
        <5>1. dump \in Dumps
          BY Zenon, <3>2
        <5> QED
          BY <3>1, <4>3, <4>4, <5>1, Zenon DEF Dumps
      <4> QED
        BY ZenonT(40), <3>1, <3>3, <4>1, <4>5
    <3>4. CASE ~MySQLMapped(acl[1])
      BY Zenon, <3>4 DEF MySQLGrantInventory
    <3> QED
      BY Zenon, <3>3, <3>4
  <2>MySQLTablesRead.
        ASSUME TypeOK, MySQLDumpTables
        PROVE  \E d \in Dumps :
                 /\ d.data = source /\ dump.at = "dump" /\ d.want = dump.want /\ d.acl = dump.acl /\ d.cut = dump.cut
                 /\ d.ids = dump.ids /\ d.mig = dump.mig /\ Complete(d)
    <3> USE <2>MySQLTablesRead
    <3>1. dump.at = "dump" /\ dump.at # "idle" /\ Complete([dump EXCEPT !.data = source])
      BY Zenon DEF MySQLDumpTables, DumpAt
    <3>2. dump \in Dumps
      BY ZenonT(40), <3>1, <1>DumpAtWork
    <3>3. source \in [Units -> Versions]
      BY Zenon DEF TypeOK, SourceOK
    <3>4. PICK d : d = [dump EXCEPT !.data = source]
      BY Zenon
    <3>5. /\ d \in Dumps /\ d.data = source /\ d.want = dump.want /\ d.acl = dump.acl /\ d.cut = dump.cut
          /\ d.ids = dump.ids /\ d.mig = dump.mig
      BY <3>2, <3>3, <3>4, Zenon DEF Dumps
    <3> QED
      BY Zenon, <3>1, <3>4, <3>5
  <2>MySQLInspectNext.
        ASSUME TypeOK, SourceInv, DumpInv, MySQLDumpInspect
        PROVE  DumpOK' /\ DumpInv' /\ ArtifactGrows
    <3> USE <2>MySQLInspectNext
    <3>1. /\ engine = "mysql" /\ Sql /\ dump.at = "inspect" /\ dump.at # "idle"
          /\ UNCHANGED <<engine, variant, source, artifact>>
      BY Zenon DEF MySQLDumpInspect, DumpAt, hosts, atSource, records, Sql
    <3>0. Scope' = Scope
      BY Zenon, <3>1 DEF Scope, Last
    <3>2. /\ dump' \in Dumps /\ Advances("grants") /\ dump.at = "inspect"
          /\ dump'.want = [dump.want EXCEPT ![dump.unit] = Seen(source[dump.unit])] /\ dump'.cut = SeenNow
          /\ dump'.acl = dump.acl /\ dump'.mig = dump.mig /\ dump'.ids = dump.ids
      BY Zenon, <2>MySQLInspected
    <3>3. /\ dump.mig \in Migrations /\ dump.unit \in Scope /\ Last \in {1, 2} /\ dump.unit \in Units
          /\ dump.want \in [Units -> Nat] /\ dump.at \in DumpSteps
      BY Zenon, <3>1, <1>DumpAtWork, <1>DumpRecord
    <3>4. SqlDumping /\ dump.ids = {} /\ SourceOK /\ Scope \subseteq Units /\ Scope = 1..Last
      BY Zenon, <3>1, HostFacts DEF DumpInv, TypeOK, Sql, Scope
    <3>5. \A u \in Units : SeenNow[u] = Seen(source[u]) /\ Seen(source[u]) \in Nat /\ Seen(source[u]) >= 1
      BY ZenonT(40), <3>1, <3>4, <1>SeenNowType DEF SourceInv
    <3>6. (\A u \in Units : Merged(dump.acl[u]))'
      <4>1. \A u \in Units : Merged(dump.acl[u])
        BY Zenon, <3>4 DEF SqlDumping
      <4> QED
        BY <3>1, <3>2, <4>1, Zenon DEF Merged
    <3>7. \A u \in Units : dump'.want[u] = IF u = dump.unit THEN Seen(source[u]) ELSE dump.want[u]
      BY Zenon, <3>2, <3>3
    <3>8. \A u \in Scope : u < dump.unit => 1 <= dump.want[u] /\ dump.want[u] <= Seen(source[u])
      BY Zenon, <3>2, <3>4 DEF SqlDumping
    <3>9. \A u \in Scope : u <= dump.unit => 1 <= dump'.want[u] /\ dump'.want[u] <= Seen(source'[u])
      <4> SUFFICES ASSUME NEW u \in Scope, u <= dump.unit
                   PROVE  1 <= dump'.want[u] /\ dump'.want[u] <= Seen(source[u])
        BY Zenon, <3>1
      <4>1. u \in Units /\ (u = dump.unit \/ u < dump.unit)
        BY SMTT(30), <3>3, <3>4 DEF Units
      <4>2. dump'.want[u] = Seen(source[u]) \/ (1 <= dump'.want[u] /\ dump'.want[u] <= Seen(source[u]))
        BY Zenon, <3>7, <3>8, <4>1
      <4>3. Seen(source[u]) \in Nat /\ Seen(source[u]) >= 1
        BY Zenon, <3>5, <4>1
      <4> QED
        BY SMTT(30), <4>2, <4>3
    <3>10. SqlDumping'
      <4>1. CASE dump.unit = 1 /\ Last = 2 /\ dump'.unit = 2 /\ dump'.at = dump.at
        <5>1. \A u \in Scope' : u < dump'.unit => 1 <= dump'.want[u] /\ dump'.want[u] <= Seen(source'[u])
          BY <3>0, <3>4, <3>9, <4>1
        <5>2. dump'.at \notin {"grants", "dump"}
          BY Zenon, <3>1, <4>1
        <5> QED
          BY <3>6, <5>1, <5>2, Zenon DEF SqlDumping
      <4>2. CASE dump.unit = Last /\ dump'.unit = 1 /\ dump'.at = "grants"
        <5>1. \A u \in Scope : u <= dump.unit /\ dump'.cut[u] = Seen(source'[u]) /\ dump'.want[u] <= dump'.cut[u] /\ u >= 1
          <6>1. \A u \in Scope : u \in Units /\ u <= dump.unit /\ u >= 1
            BY SMTT(30), <3>4, <4>2 DEF Units
          <6>2. \A u \in Scope : dump'.cut[u] = Seen(source'[u]) /\ dump'.want[u] <= Seen(source'[u])
            BY Zenon, <3>1, <3>2, <3>5, <3>9, <6>1
          <6> QED
            BY Zenon, <6>1, <6>2
        <5>2. \A u \in Scope' :
                /\ 1 <= dump'.want[u] /\ dump'.want[u] <= dump'.cut[u]
                /\ (u >= dump'.unit => dump'.cut[u] <= Seen(source'[u])) /\ ~(u < dump'.unit)
          BY SMTT(30), <3>0, <3>1, <3>4, <3>5, <3>9, <4>2, <5>1
        <5>3. dump'.at # "inspect" /\ dump'.unit = 1
          BY Zenon, <3>1, <4>2
        <5> QED
          BY <3>6, <5>2, <5>3, Zenon DEF SqlDumping
      <4> QED
        BY Zenon, <3>2, <4>1, <4>2 DEF Advances
    <3>11. DumpOK'
      <4>1. dump'.at \in DumpSteps /\ dump'.unit \in Scope' /\ dump'.mig \in Migrations
        BY SMTT(30), <3>0, <3>1, <3>2, <3>3, <3>4 DEF Advances, DumpSteps
      <4> QED
        BY Zenon, <3>2, <4>1 DEF DumpOK
    <3> QED
      BY Zenon, <3>1, <3>2, <3>4, <3>10, <3>11, <1>SqlDumpKeeps DEF ArtifactGrows
  <2>MySQLInventoryNext.
        ASSUME TypeOK, DumpInv, MySQLGrantInventory
        PROVE  DumpOK' /\ DumpInv' /\ ArtifactGrows
    <3> USE <2>MySQLInventoryNext
    <3>1. /\ engine = "mysql" /\ Sql /\ dump.at = "grants" /\ dump.at # "idle"
          /\ UNCHANGED <<engine, variant, source, artifact>>
      BY Zenon DEF MySQLGrantInventory, DumpAt, hosts, atSource, records, Sql
    <3>0. Scope' = Scope
      BY Zenon, <3>1 DEF Scope, Last
    <3>2. CASE dump' = IdleDump
      BY Zenon, <3>1, <3>2, <1>IdleDumpNext DEF ArtifactGrows
    <3>3. CASE dump' # IdleDump
      <4>1. /\ dump' \in Dumps /\ dump'.at = "dump" /\ dump'.unit = dump.unit
            /\ dump'.want = dump.want /\ dump'.cut = dump.cut /\ dump'.data = dump.data /\ dump'.mig = dump.mig
            /\ dump'.ids = dump.ids /\ MySQLMapped(acl[1])
            /\ dump'.acl = [dump.acl EXCEPT ![1] = MapMySQLPrincipal(acl[1])]
        BY Zenon, <3>3, <2>MySQLInventoried
      <4>2. /\ SqlDumping /\ dump.ids = {} /\ dump.mig \in Migrations /\ dump.unit \in Scope /\ SourceOK
            /\ dump.acl \in [Units -> SUBSET Entries]
        BY ZenonT(40), <3>1, <1>DumpAtWork, <1>DumpRecord, HostFacts DEF DumpInv, TypeOK, Sql
      <4>3. \A u \in Scope' :
              /\ 1 <= dump'.want[u] /\ dump'.want[u] <= dump'.cut[u]
              /\ (u >= dump'.unit => dump'.cut[u] <= Seen(source'[u]))
              /\ (u < dump'.unit => dump'.cut[u] <= Seen(dump'.data[u]))
        BY <3>0, <3>1, <4>1, <4>2, Zenon DEF SqlDumping
      <4>4. dump'.at # "inspect" /\ dump'.unit = 1
        BY Zenon, <3>1, <4>1, <4>2 DEF SqlDumping
      <4>5. Merged(MapMySQLPrincipal(acl[1]))
        <5>1. acl[1] \in Acls
          BY Zenon, <4>2 DEF SourceOK, Units
        <5>2. \A e, f \in MapMySQLPrincipal(acl[1]) : e.who = f.who => e = f
          BY <4>1, <5>1, <2>MySQLMapping, Zenon
        <5> QED
          BY Zenon, <3>1, <5>2 DEF Merged
      <4>6. \A u \in Units : Merged(dump'.acl[u])
        <5>1. \A u \in Units : Merged(dump.acl[u])
          BY Zenon, <4>2 DEF SqlDumping
        <5>2. \A u \in Units : dump'.acl[u] = IF u = 1 THEN MapMySQLPrincipal(acl[1]) ELSE dump.acl[u]
          BY <4>1, <4>2, Zenon
        <5> QED
          BY <4>5, <5>1, <5>2, Zenon
      <4>7. (\A u \in Units : Merged(dump.acl[u]))'
        BY <3>1, <4>6, Zenon DEF Merged
      <4>8. SqlDumping'
        BY <4>3, <4>4, <4>7, Zenon DEF SqlDumping
      <4>9. DumpOK'
        BY Zenon, <3>0, <4>1, <4>2 DEF DumpOK, DumpSteps
      <4> QED
        BY Zenon, <3>1, <4>1, <4>2, <4>8, <4>9, <1>SqlDumpKeeps DEF ArtifactGrows
    <3> QED
      BY Zenon, <3>2, <3>3
  <2>MySQLTablesNext.
        ASSUME TypeOK, DumpInv, MySQLDumpTables
        PROVE  DumpOK' /\ DumpInv' /\ ArtifactGrows
    <3> USE <2>MySQLTablesNext
    <3>1. engine = "mysql" /\ Sql /\ dump.at = "dump" /\ dump.at # "idle" /\ UNCHANGED <<engine, variant>>
      BY Zenon DEF MySQLDumpTables, DumpAt, hosts, Sql
    <3>2. PICK d \in Dumps :
            /\ d.data = source /\ d.want = dump.want /\ d.acl = dump.acl /\ d.cut = dump.cut
            /\ d.ids = dump.ids /\ d.mig = dump.mig /\ Complete(d)
      BY Zenon, <2>MySQLTablesRead
    <3>3. SqlDumping /\ dump.ids = {} /\ dump.mig \in Migrations /\ dump.unit = 1 /\ \A u \in Scope : u >= 1
      BY SMTT(30), <3>1, <1>DumpAtWork, HostFacts DEF DumpInv, TypeOK, Sql, SqlDumping, Scope
    <3>4. \A u \in Scope : 1 <= d.want[u] /\ d.want[u] <= d.cut[u] /\ d.cut[u] <= Seen(d.data[u])
      BY <3>1, <3>2, <3>3, Zenon DEF SqlDumping
    <3>5. \A u \in Units : Merged(d.acl[u])
      BY Zenon, <3>2, <3>3 DEF SqlDumping
    <3>6. ArtifactGrows
      BY Zenon, <3>1, <3>2, <3>3, <3>4, <3>5, <1>SqlArtifact
    <3> QED
      BY ZenonT(40), <3>1, <3>2, <3>6, <1>Completes, <1>IdleDumpNext
  <2> QED
    BY Zenon, <2>MySQLInspectNext, <2>MySQLInventoryNext, <2>MySQLTablesNext
<1>MongoDBDumpKeeps.
      ASSUME TypeOK, engine = "mongodb", UNCHANGED <<engine, variant>>, dump'.want = dump'.cut,
             dump'.at = "window" => variant = "oplog", variant = "oplog" => OplogDumping', variant # "oplog" => dump'.ids = {}
      PROVE  DumpInv'
  <2> USE <1>MongoDBDumpKeeps
  <2>1. ~Sql' /\ engine' = "mongodb" /\ engine' # "redis"
    BY Zenon DEF Sql
  <2> QED
    BY Zenon, <2>1 DEF DumpInv
\* A dump that goes on has its type.
<1>DumpGoesOn.
      ASSUME TypeOK, UNCHANGED <<engine, variant>>, dump.at # "idle", dump' \in Dumps, dump'.mig = dump.mig,
             dump'.at \in DumpSteps, dump'.unit = dump.unit \/ dump'.unit \in {1, Last}
      PROVE  DumpOK'
  <2> USE <1>DumpGoesOn
  <2>1. Scope' = Scope /\ dump.mig \in Migrations /\ dump.unit \in Scope
    BY Zenon, <1>DumpAtWork DEF Scope, Last
  <2>2. 1 \in Scope /\ Last \in Scope
    BY Zenon, HostFacts DEF TypeOK
  <2> QED
    BY Zenon, <2>1, <2>2 DEF DumpOK
\* The same for MongoDB.
<1>MongoDBDumpNext.
      TypeOK /\ DumpInv /\ MongoDBDumpSteps
        => DumpOK' /\ DumpInv' /\ ArtifactGrows
  <2>MongoDBInspected.
        ASSUME TypeOK, DumpAt("mongodb", "inspect") \/ DumpAt("mongodb", "final"), NEW at \in DumpSteps,
               dump' = [InspectMongoDB(dump) EXCEPT !.at = at], MongoMapped(acl[1])
        PROVE  /\ dump' \in Dumps /\ dump'.at = at /\ dump'.unit = dump.unit /\ dump'.want = SeenNow /\ dump'.cut = SeenNow
               /\ dump'.data = dump.data /\ dump'.ids = dump.ids /\ dump'.delta = dump.delta /\ dump'.end = dump.end
               /\ dump'.mig = dump.mig
    <3> USE <2>MongoDBInspected
    <3>1. dump.at # "idle"
      BY Zenon DEF DumpAt
    <3>2. dump \in Dumps /\ dump.acl \in [Units -> SUBSET Entries] /\ SeenNow \in [Units -> Nat] /\ acl[1] \in SUBSET Entries
      BY SMTT(30), <3>1, <1>DumpAtWork, <1>DumpRecord, <1>SeenNowType, DatabaseHostsAssumption DEF TypeOK, SourceOK, Units
    <3>3. NormalizeMongoDBIdentities(acl[1]) \in SUBSET Entries
      <4>1. \A e \in acl[1] : IdentityMap[e.who] \in {"target", "target2"}
        BY DEF MongoMapped, IdentityMap
      <4>2. \A e \in Entries : \A w \in {"target", "target2"} : [e EXCEPT !.who = w] \in Entries
        BY Zenon DEF Entries
      <4>3. \A e \in acl[1] : [e EXCEPT !.who = IdentityMap[e.who]] \in Entries
        BY Zenon, <3>2, <4>1, <4>2
      <4> QED
        BY Zenon, <4>3 DEF NormalizeMongoDBIdentities
    <3>4. PICK a : a = [dump.acl EXCEPT ![1] = NormalizeMongoDBIdentities(acl[1])]
      BY Zenon
    <3>5. a \in [Units -> SUBSET Entries]
      BY <3>2, <3>3, <3>4, Zenon
    <3>6. dump' = [dump EXCEPT !.want = SeenNow, !.acl = a, !.cut = SeenNow, !.at = at]
      BY Zenon, <3>4 DEF InspectMongoDB
    <3>7. dump \in Dumps /\ SeenNow \in [Units -> Nat] /\ at \in DumpSteps
      BY Zenon, <3>2
    <3> QED
      BY <3>5, <3>6, <3>7, ZenonT(40) DEF Dumps
  <2>MongoDBDocumentRead.
        ASSUME TypeOK, MongoDBDumpDocument
        PROVE  \E d \in Dumps :
                 /\ d.data = [dump.data EXCEPT ![dump.unit] = source[dump.unit]] /\ dump.at = "dump" /\ d.delta = dump.delta
                 /\ d.want = dump.want /\ d.cut = dump.cut /\ d.ids = dump.ids /\ d.mig = dump.mig /\ d.start = dump.start
                 /\ \/ /\ UNCHANGED artifact /\ dump' \in Dumps /\ SameRead(dump', d) /\ Advances("window")
                       /\ (variant = "plain" => dump.unit # Last)
                    \/ variant = "plain" /\ Complete(d)
    <3> USE <2>MongoDBDocumentRead
    <3>1. dump.at = "dump" /\ dump.at # "idle" /\ "window" \in DumpSteps
      BY Zenon DEF MongoDBDumpDocument, DumpAt, DumpSteps
    <3>2. dump \in Dumps /\ dump.unit \in Units
      BY Zenon, <3>1, <1>DumpAtWork
    <3>3. PICK x : x = [dump.data EXCEPT ![dump.unit] = source[dump.unit]]
      BY Zenon
    <3>4. x \in [Units -> Versions]
      <4>1. dump.data \in [Units -> Versions] /\ source[dump.unit] \in Versions
        BY ZenonT(40), <3>2, <1>DumpRecord DEF TypeOK, SourceOK
      <4> QED
        BY Zenon, <3>2, <3>3, <4>1
    <3>5. PICK d : d = [dump EXCEPT !.data = x]
      BY Zenon
    <3>6. /\ d \in Dumps /\ d.data = x /\ d.want = dump.want /\ d.cut = dump.cut /\ d.delta = dump.delta
          /\ d.ids = dump.ids /\ d.mig = dump.mig /\ d.unit = dump.unit /\ d.at = dump.at /\ d.start = dump.start
      <4>1. dump \in Dumps
        BY ZenonT(40), <3>2
      <4> QED
        BY <4>1, <3>4, <3>5, Zenon DEF Dumps
    <3>7. d = [dump EXCEPT !.data[dump.unit] = source[dump.unit]]
      BY Zenon, <3>3, <3>5
    <3>8. (variant = "plain" /\ Complete(d)) \/ (dump' = DumpOn(d, "window") /\ UNCHANGED artifact /\ ~(variant = "plain" /\ dump.unit = Last))
      <4>1. CASE variant = "plain" /\ dump.unit = Last
        BY <3>7, <4>1, Zenon DEF MongoDBDumpDocument
      <4>2. CASE ~(variant = "plain" /\ dump.unit = Last)
        BY <3>7, <4>2, Zenon DEF MongoDBDumpDocument
      <4> QED
        BY Zenon, <4>1, <4>2
    <3>9. dump' = DumpOn(d, "window") => dump' \in Dumps /\ SameRead(dump', d) /\ Advances("window")
      BY Zenon, <3>1, <3>6, <1>DumpOnRecord
    <3> QED
      BY ZenonT(40), <3>1, <3>3, <3>6, <3>8, <3>9
  \* The steps of an oplog dump that only move on, or take the window.
  <2>MongoDBWindow.
        ASSUME TypeOK
        PROVE  /\ CaptureMongoDBOplogTimestamp =>
                    /\ dump' \in Dumps /\ dump.at = "start" /\ dump'.at = "dump" /\ dump'.start = Len(oplog)
                    /\ dump'.unit = dump.unit /\ dump'.want = dump.want /\ dump'.cut = dump.cut /\ dump'.ids = dump.ids
                    /\ dump'.mig = dump.mig
               /\ CaptureMongoDBOplogDelta /\ dump' # IdleDump =>
                    /\ dump' \in Dumps /\ dump.at = "window" /\ dump'.at = "delta" /\ dump'.end = Len(oplog)
                    /\ dump'.ids = {oplog[i] : i \in dump.start + 1 .. Len(oplog)} /\ dump'.data = dump.data
                    /\ dump'.unit = dump.unit /\ dump'.want = dump.want /\ dump'.cut = dump.cut /\ dump'.mig = dump.mig
               /\ CloseMongoDBOplogDelta /\ dump' # IdleDump =>
                    /\ dump' \in Dumps /\ dump.at = "close" /\ dump'.at = "final" /\ SameRead(dump', dump)
                    /\ dump'.unit = dump.unit
    <3> USE <2>MongoDBWindow
    <3>1. SourceOK /\ Len(oplog) \in Nat /\ oplog \in Seq(0..3) /\ Len(oplog) >= 1
      BY DEF TypeOK, SourceOK
    <3>2. dump.at # "idle" => dump \in Dumps
      BY Zenon, <1>DumpAtWork
    <3>3. CaptureMongoDBOplogTimestamp =>
            /\ dump' \in Dumps /\ dump.at = "start" /\ dump'.at = "dump" /\ dump'.start = Len(oplog)
            /\ dump'.unit = dump.unit /\ dump'.want = dump.want /\ dump'.cut = dump.cut /\ dump'.ids = dump.ids
            /\ dump'.mig = dump.mig
      <4>1. SUFFICES ASSUME dump.at = "start", dump' = [dump EXCEPT !.at = "dump", !.start = Len(oplog)]
                     PROVE  /\ dump' \in Dumps /\ dump'.at = "dump" /\ dump'.start = Len(oplog)
                            /\ dump'.unit = dump.unit /\ dump'.want = dump.want /\ dump'.cut = dump.cut
                            /\ dump'.ids = dump.ids /\ dump'.mig = dump.mig
        BY Zenon DEF CaptureMongoDBOplogTimestamp, DumpAt
      <4>2. dump \in Dumps /\ Len(oplog) \in Nat /\ "dump" \in DumpSteps
        BY ZenonT(40), <3>1, <3>2, <4>1 DEF DumpSteps
      <4> QED
        BY <4>1, <4>2, Zenon DEF Dumps
    <3>4. CaptureMongoDBOplogDelta /\ dump' # IdleDump =>
            /\ dump' \in Dumps /\ dump.at = "window" /\ dump'.at = "delta" /\ dump'.end = Len(oplog)
            /\ dump'.ids = {oplog[i] : i \in dump.start + 1 .. Len(oplog)} /\ dump'.data = dump.data
            /\ dump'.unit = dump.unit /\ dump'.want = dump.want /\ dump'.cut = dump.cut /\ dump'.mig = dump.mig
      <4>1. SUFFICES ASSUME dump.at = "window", NEW ids, ids = {oplog[i] : i \in dump.start + 1 .. Len(oplog)},
                            dump' = [dump EXCEPT !.at = "delta", !.end = Len(oplog), !.ids = ids]
                     PROVE  /\ dump' \in Dumps /\ dump'.at = "delta" /\ dump'.end = Len(oplog)
                            /\ dump'.ids = ids /\ dump'.data = dump.data /\ dump'.unit = dump.unit
                            /\ dump'.want = dump.want /\ dump'.cut = dump.cut /\ dump'.mig = dump.mig
        BY Zenon DEF CaptureMongoDBOplogDelta, DumpAt
      <4>2. dump \in Dumps /\ Len(oplog) \in Nat /\ "delta" \in DumpSteps /\ dump.start \in Nat
        BY Zenon, <3>1, <3>2, <4>1, <1>DumpRecord DEF DumpSteps
      <4>3. ids \in SUBSET (0..3)
        BY SMTT(30), <3>1, <4>1, <4>2
      <4> QED
        BY <4>1, <4>2, <4>3, Zenon DEF Dumps
    <3>5. CloseMongoDBOplogDelta /\ dump' # IdleDump =>
            dump' \in Dumps /\ dump.at = "close" /\ dump'.at = "final" /\ SameRead(dump', dump) /\ dump'.unit = dump.unit
      <4>1. SUFFICES ASSUME dump.at = "close", dump' = [dump EXCEPT !.at = "final"]
                     PROVE  dump' \in Dumps /\ dump'.at = "final" /\ SameRead(dump', dump) /\ dump'.unit = dump.unit
        BY Zenon DEF CloseMongoDBOplogDelta, DumpAt
      <4>2. dump \in Dumps /\ "final" \in DumpSteps
        BY Zenon, <3>2, <4>1 DEF DumpSteps
      <4> QED
        BY <4>1, <4>2, Zenon DEF Dumps, SameRead
    <3> QED
      BY ZenonT(40), <3>3, <3>4, <3>5
  <2>MongoDBMutationRead.
        ASSUME TypeOK, CaptureMongoDBMutation
        PROVE  /\ dump' \in Dumps /\ dump.at = "delta" /\ Advances("close") /\ dump'.data = dump.data
               /\ dump'.delta = [dump.delta EXCEPT ![dump.unit] = IF dump.unit \in dump.ids THEN source[dump.unit] ELSE Nothing]
               /\ dump'.want = dump.want /\ dump'.cut = dump.cut /\ dump'.ids = dump.ids /\ dump'.end = dump.end
               /\ dump'.mig = dump.mig
    <3> USE <2>MongoDBMutationRead
    <3>1. dump.at = "delta" /\ dump.at # "idle" /\ "close" \in DumpSteps
      BY Zenon DEF CaptureMongoDBMutation, DumpAt, DumpSteps
    <3>2. dump \in Dumps /\ dump.unit \in Units
      BY Zenon, <3>1, <1>DumpAtWork
    <3>3. PICK x : x = [dump.delta EXCEPT ![dump.unit] = IF dump.unit \in dump.ids THEN source[dump.unit] ELSE Nothing]
      BY Zenon
    <3>4. x \in [Units -> Versions]
      <4>1. dump.delta \in [Units -> Versions] /\ source[dump.unit] \in Versions /\ Nothing \in Versions
        BY Zenon, <3>2, <1>DumpRecord, VersionFacts DEF TypeOK, SourceOK
      <4> QED
        BY Zenon, <3>2, <3>3, <4>1
    <3>5. PICK d : d = [dump EXCEPT !.delta = x]
      BY Zenon
    <3>6. /\ d \in Dumps /\ d.data = dump.data /\ d.want = dump.want /\ d.cut = dump.cut /\ d.delta = x
          /\ d.ids = dump.ids /\ d.mig = dump.mig /\ d.unit = dump.unit /\ d.at = dump.at /\ d.end = dump.end
      <4>1. dump \in Dumps
        BY Zenon, <3>2
      <4> QED
        BY <4>1, <3>4, <3>5, Zenon DEF Dumps
    <3>7. dump' = DumpOn(d, "close")
      BY Zenon, <3>3, <3>5 DEF CaptureMongoDBMutation
    <3>8. dump' \in Dumps /\ SameRead(dump', d) /\ Advances("close")
      BY ZenonT(40), <3>1, <3>6, <3>7, <1>DumpOnRecord
    <3> QED
      BY Zenon, <3>1, <3>3, <3>6, <3>8 DEF SameRead
  <2>MongoDBArtifact.
        ASSUME TypeOK, engine = "mongodb", NEW d \in Dumps, d.mig \in Migrations, Complete(d), d.want = d.cut,
               variant = "oplog" => \A u \in Units : Seen(Restored(d, u)) = d.want[u],
               variant # "oplog" => d.ids = {}
        PROVE  ArtifactGrows
    <3> USE <2>MongoDBArtifact
    <3>1. ~Sql /\ engine # "redis"
      BY Zenon DEF Sql
    <3>2. PICK a : a = ArtifactOf(d)
      BY Zenon
    <3>3. /\ a \in Artifacts /\ a.want = d.want /\ a.acl = d.acl /\ a.data = d.data /\ a.ids = d.ids
          /\ a.delta = d.delta /\ a.cut = d.cut /\ a.calm = d.calm
      BY ZenonT(40), <3>2, <1>ArtifactOfRecord
    <3>4. Good(a)
      BY ZenonT(40), <3>1, <3>3 DEF Good, Restored
    <3>5. artifact' = [artifact EXCEPT ![d.mig] = a]
      BY Zenon, <3>2, <1>Completes
    <3> QED
      BY Zenon, <3>3, <3>4, <3>5 DEF ArtifactGrows
  <2>MongoDBInspectNext.
        ASSUME TypeOK, DumpInv, MongoDBDumpInspect
        PROVE  DumpOK' /\ DumpInv' /\ ArtifactGrows
    <3> USE <2>MongoDBInspectNext
    <3>1. engine = "mongodb" /\ dump.at = "inspect" /\ dump.at # "idle" /\ UNCHANGED <<engine, variant, artifact>>
      BY Zenon DEF MongoDBDumpInspect, DumpAt, hosts, records
    <3>2. CASE ~MongoMapped(acl[1])
      <4>1. dump' = IdleDump
        BY Zenon, <3>2 DEF MongoDBDumpInspect
      <4> QED
        BY Zenon, <3>1, <4>1, <1>IdleDumpNext DEF ArtifactGrows
    <3>3. CASE MongoMapped(acl[1])
      <4>1. PICK at : at = IF variant = "oplog" THEN "start" ELSE "dump"
        BY Zenon
      <4>2. dump' = [InspectMongoDB(dump) EXCEPT !.at = at]
        BY Zenon, <3>3, <4>1 DEF MongoDBDumpInspect
      <4>3. at \in DumpSteps /\ DumpAt("mongodb", "inspect")
        BY Zenon, <3>1, <4>1 DEF DumpSteps, DumpAt
      <4>4. /\ dump' \in Dumps /\ dump'.at = at /\ dump'.unit = dump.unit /\ dump'.want = dump'.cut
            /\ dump'.ids = dump.ids /\ dump'.mig = dump.mig
        BY Zenon, <3>3, <4>2, <4>3, <2>MongoDBInspected
      <4>5. DumpOK'
        BY Zenon, <3>1, <4>3, <4>4, <1>DumpGoesOn
      <4>6. variant = "oplog" => OplogDumping'
        BY Zenon, <3>1, <4>1, <4>4 DEF OplogDumping, DumpInv
      <4>7. variant # "oplog" => dump'.ids = {}
        BY Zenon, <4>4 DEF DumpInv
      <4> QED
        BY ZenonT(40), <3>1, <4>1, <4>4, <4>5, <4>6, <4>7, <1>MongoDBDumpKeeps DEF ArtifactGrows
    <3> QED
      BY ZenonT(40), <3>2, <3>3
  <2>MongoDBTimestampNext.
        ASSUME TypeOK, DumpInv, CaptureMongoDBOplogTimestamp
        PROVE  DumpOK' /\ DumpInv' /\ ArtifactGrows
    <3> USE <2>MongoDBTimestampNext
    <3>1. engine = "mongodb" /\ dump.at # "idle" /\ UNCHANGED <<engine, variant, artifact, oplog>>
      BY Zenon DEF CaptureMongoDBOplogTimestamp, DumpAt, hosts, records, atSource
    <3>2. /\ dump' \in Dumps /\ dump.at = "start" /\ dump'.at = "dump" /\ dump'.start = Len(oplog)
          /\ dump'.unit = dump.unit /\ dump'.want = dump.want /\ dump'.cut = dump.cut /\ dump'.ids = dump.ids
          /\ dump'.mig = dump.mig
      BY Zenon, <2>MongoDBWindow
    <3>3. DumpOK'
      BY Zenon, <3>1, <3>2, <1>DumpGoesOn DEF DumpSteps
    <3>4. dump.want = dump.cut /\ (variant # "oplog" => dump.ids = {}) /\ (variant = "oplog" => dump.unit = 1)
      BY ZenonT(40), <3>1, <3>2 DEF DumpInv, OplogDumping
    <3>5. Len(oplog) \in Nat /\ \A u \in Units : ~(u < 1)
      BY SMTT(30) DEF TypeOK, SourceOK, Units
    <3>6. variant = "oplog" => OplogDumping'
      <4> SUFFICES ASSUME variant = "oplog"
                   PROVE  OplogDumping'
        BY Zenon
      <4>1. dump'.at = "dump" /\ dump'.start <= Len(oplog') /\ \A u \in Units : ~(u < dump'.unit \/ dump'.at = "window")
        BY SMTT(30), <3>1, <3>2, <3>4, <3>5
      <4> QED
        BY Zenon, <4>1 DEF OplogDumping
    <3> QED
      BY ZenonT(40), <3>1, <3>2, <3>3, <3>4, <3>6, <1>MongoDBDumpKeeps DEF ArtifactGrows
  <2>MongoDBDocumentNext.
        ASSUME TypeOK, DumpInv, MongoDBDumpDocument
        PROVE  DumpOK' /\ DumpInv' /\ ArtifactGrows
    <3> USE <2>MongoDBDocumentNext
    <3>1. /\ engine = "mongodb" /\ dump.at = "dump" /\ dump.at # "idle"
          /\ UNCHANGED <<engine, variant, source, oplog>>
      BY Zenon DEF MongoDBDumpDocument, DumpAt, hosts, atSource
    <3>2. PICK d \in Dumps :
            /\ d.data = [dump.data EXCEPT ![dump.unit] = source[dump.unit]] /\ dump.at = "dump" /\ d.delta = dump.delta
            /\ d.want = dump.want /\ d.cut = dump.cut /\ d.ids = dump.ids /\ d.mig = dump.mig /\ d.start = dump.start
            /\ \/ /\ UNCHANGED artifact /\ dump' \in Dumps /\ SameRead(dump', d) /\ Advances("window")
                  /\ (variant = "plain" => dump.unit # Last)
               \/ variant = "plain" /\ Complete(d)
      BY Zenon, <2>MongoDBDocumentRead
    <3>3. /\ dump.want = dump.cut /\ (variant # "oplog" => dump.ids = {}) /\ dump.mig \in Migrations
          /\ dump.unit \in Units /\ dump.data \in [Units -> Versions] /\ Units = {1, 2}
          /\ (variant = "oplog" => Last = 2 /\ OplogDumping)
      BY ZenonT(40), <3>1, <1>DumpAtWork, <1>DumpRecord, HostFacts DEF DumpInv, TypeOK
    <3>4. CASE variant = "plain" /\ Complete(d)
      BY Zenon, <3>1, <3>2, <3>3, <3>4, <2>MongoDBArtifact, <1>Completes, <1>IdleDumpNext
    <3>5. CASE /\ UNCHANGED artifact /\ dump' \in Dumps /\ SameRead(dump', d) /\ Advances("window")
               /\ (variant = "plain" => dump.unit # Last)
      <4>1. /\ dump'.mig = dump.mig /\ dump'.want = dump'.cut /\ dump'.ids = dump.ids /\ dump'.start = dump.start
            /\ dump'.data = d.data
        BY ZenonT(40), <3>2, <3>3, <3>5 DEF SameRead
      <4>2. DumpOK'
        BY Zenon, <3>1, <3>5, <4>1, <1>DumpGoesOn DEF Advances, DumpSteps
      <4>4. dump'.at = "window" => variant = "oplog"
        BY Zenon, <3>1, <3>5, HostFacts DEF Advances, TypeOK, Variants
      <4>3. variant = "oplog" => OplogDumping'
        <5> SUFFICES ASSUME variant = "oplog"
                     PROVE  OplogDumping'
          BY Zenon
        <5>1. /\ dump.start <= Len(oplog)
              /\ \A u \in Units : u < dump.unit => dump.data[u] = source[u] \/ Logged(u, dump.start)
          BY Zenon, <3>1, <3>3 DEF OplogDumping
        <5>2. \A u \in Units : u <= dump.unit => d.data[u] = source[u] \/ Logged(u, dump.start)
          BY SMTT(30), <3>2, <3>3, <5>1
        <5>3. dump'.at \in {"dump", "window"} /\ (dump'.at = "window" => dump'.unit = 1)
          BY Zenon, <3>1, <3>5 DEF Advances
        <5>4. \A u \in Units : u < dump'.unit \/ dump'.at = "window" => u <= dump.unit
          BY <3>1, <3>3, <3>5 DEF Advances
        <5>5. (\A u \in Units : u < dump.unit \/ dump.at = "window" => dump.data[u] = source[u] \/ Logged(u, dump.start))'
          BY <3>1, <4>1, <5>2, <5>4, Zenon DEF Logged
        <5>6. dump'.start <= Len(oplog')
          BY Zenon, <3>1, <4>1, <5>1
        <5> QED
          <6>1. dump'.at \notin {"delta", "close", "final", "stable", "inspect", "start"}
            BY Zenon, <5>3
          <6> QED
            BY <5>3, <5>5, <5>6, <6>1, Zenon DEF OplogDumping
      <4> QED
        BY Zenon, <3>1, <3>3, <3>5, <4>1, <4>2, <4>3, <4>4, <1>MongoDBDumpKeeps DEF ArtifactGrows
    <3> QED
      BY Zenon, <3>2, <3>4, <3>5
  <2>MongoDBDeltaNext.
        ASSUME TypeOK, DumpInv, CaptureMongoDBOplogDelta
        PROVE  DumpOK' /\ DumpInv' /\ ArtifactGrows
    <3> USE <2>MongoDBDeltaNext
    <3>1. engine = "mongodb" /\ dump.at # "idle" /\ UNCHANGED <<engine, variant, artifact, source, oplog>>
      BY Zenon DEF CaptureMongoDBOplogDelta, DumpAt, hosts, records, atSource
    <3>2. CASE dump' = IdleDump
      BY Zenon, <3>1, <3>2, <1>IdleDumpNext DEF ArtifactGrows
    <3>3. CASE dump' # IdleDump
      <4>1. /\ dump' \in Dumps /\ dump.at = "window" /\ dump'.at = "delta" /\ dump'.end = Len(oplog)
            /\ dump'.ids = {oplog[i] : i \in dump.start + 1 .. Len(oplog)} /\ dump'.data = dump.data
            /\ dump'.unit = dump.unit /\ dump'.want = dump.want /\ dump'.cut = dump.cut /\ dump'.mig = dump.mig
        BY ZenonT(40), <3>3, <2>MongoDBWindow
      <4>2. DumpOK'
        BY Zenon, <3>1, <4>1, <1>DumpGoesOn DEF DumpSteps
      <4>3. dump.want = dump.cut
        BY Zenon, <3>1 DEF DumpInv
      <4>4. variant = "oplog"
        BY Zenon, <3>1, <4>1 DEF DumpInv
      <4>5. dump.unit = 1 /\ \A u \in Units : dump.data[u] = source[u] \/ Logged(u, dump.start)
        BY Zenon, <4>1, <4>4 DEF DumpInv, OplogDumping
      <4>6. \A u \in Units : u \notin dump'.ids => dump'.data[u] = source'[u]
        BY Zenon, <3>1, <4>1, <4>5 DEF Logged
      <4>7. dump'.end <= Len(oplog') /\ \A u \in Units : ~(u < dump'.unit)
        BY SMTT(30), <3>1, <4>1, <4>5 DEF TypeOK, SourceOK, Units
      <4>8. OplogDumping'
        BY Zenon, <4>1, <4>6, <4>7 DEF OplogDumping
      <4> QED
        BY ZenonT(40), <3>1, <4>1, <4>2, <4>3, <4>4, <4>8, <1>MongoDBDumpKeeps DEF ArtifactGrows
    <3> QED
      BY Zenon, <3>2, <3>3
  <2>MongoDBMutationNext.
        ASSUME TypeOK, DumpInv, CaptureMongoDBMutation
        PROVE  DumpOK' /\ DumpInv' /\ ArtifactGrows
    <3> USE <2>MongoDBMutationNext
    <3>1. engine = "mongodb" /\ dump.at # "idle" /\ UNCHANGED <<engine, variant, artifact, source, oplog>>
      BY Zenon DEF CaptureMongoDBMutation, DumpAt, hosts, records, atSource
    <3>2. /\ dump' \in Dumps /\ dump.at = "delta" /\ Advances("close") /\ dump'.data = dump.data
          /\ dump'.delta = [dump.delta EXCEPT ![dump.unit] = IF dump.unit \in dump.ids THEN source[dump.unit] ELSE Nothing]
          /\ dump'.want = dump.want /\ dump'.cut = dump.cut /\ dump'.ids = dump.ids /\ dump'.end = dump.end
          /\ dump'.mig = dump.mig
      BY Zenon, <2>MongoDBMutationRead
    <3>3. /\ dump.want = dump.cut /\ (variant # "oplog" => dump.ids = {}) /\ dump.unit \in Units /\ Units = {1, 2}
          /\ dump.delta \in [Units -> Versions] /\ (variant = "oplog" => Last = 2 /\ OplogDumping)
      BY ZenonT(40), <3>1, <1>DumpAtWork, <1>DumpRecord, HostFacts DEF DumpInv, TypeOK
    <3>4. DumpOK'
      BY Zenon, <3>1, <3>2, <1>DumpGoesOn DEF Advances, DumpSteps
    <3>5. variant = "oplog" => OplogDumping'
      <4> SUFFICES ASSUME variant = "oplog"
                   PROVE  OplogDumping'
        BY Zenon
      <4>1. /\ dump.end <= Len(oplog)
            /\ dump.end = Len(oplog) =>
                 /\ \A u \in Units : u \notin dump.ids => dump.data[u] = source[u]
                 /\ \A u \in dump.ids \cap Units : u < dump.unit => dump.delta[u] = source[u]
        BY Zenon, <3>2, <3>3 DEF OplogDumping
      <4>2. dump.end = Len(oplog) => \A u \in dump.ids \cap Units : u <= dump.unit => dump'.delta[u] = source[u]
        BY SMTT(30), <3>2, <3>3, <4>1
      <4>3. dump'.at \in {"delta", "close"} /\ \A u \in Units : u < dump'.unit \/ dump'.at # "delta" => u <= dump.unit
        BY SMTT(30), <3>2, <3>3 DEF Advances
      <4>4. dump'.end = Len(oplog') =>
              /\ \A u \in Units : u \notin dump'.ids => dump'.data[u] = source'[u]
              /\ \A u \in dump'.ids \cap Units : u < dump'.unit \/ dump'.at # "delta" => dump'.delta[u] = source'[u]
        BY Zenon, <3>1, <3>2, <4>1, <4>2, <4>3
      <4>5. dump'.end <= Len(oplog')
        BY Zenon, <3>1, <3>2, <4>1
      <4> QED
        BY Zenon, <4>3, <4>4, <4>5 DEF OplogDumping
    <3> QED
      BY Zenon, <3>1, <3>2, <3>3, <3>4, <3>5, <1>MongoDBDumpKeeps DEF ArtifactGrows, Advances
  <2>MongoDBCloseNext.
        ASSUME TypeOK, DumpInv, CloseMongoDBOplogDelta
        PROVE  DumpOK' /\ DumpInv' /\ ArtifactGrows
    <3> USE <2>MongoDBCloseNext
    <3>1. engine = "mongodb" /\ dump.at # "idle" /\ UNCHANGED <<engine, variant, artifact, source, oplog>>
      BY Zenon DEF CloseMongoDBOplogDelta, DumpAt, hosts, records, atSource
    <3>2. CASE dump' = IdleDump
      BY Zenon, <3>1, <3>2, <1>IdleDumpNext DEF ArtifactGrows
    <3>3. CASE dump' # IdleDump
      <4>1. dump' \in Dumps /\ dump.at = "close" /\ dump'.at = "final" /\ SameRead(dump', dump) /\ dump'.unit = dump.unit
        BY Zenon, <3>3, <2>MongoDBWindow
      <4>2. /\ dump'.mig = dump.mig /\ dump'.want = dump.want /\ dump'.cut = dump.cut /\ dump'.ids = dump.ids
            /\ dump'.end = dump.end /\ dump'.data = dump.data /\ dump'.delta = dump.delta
        BY Zenon, <4>1 DEF SameRead
      <4>3. DumpOK'
        BY Zenon, <3>1, <4>1, <4>2, <1>DumpGoesOn DEF DumpSteps
      <4>4. dump.want = dump.cut /\ (variant # "oplog" => dump.ids = {}) /\ (variant = "oplog" => OplogDumping)
        BY Zenon, <3>1 DEF DumpInv
      <4>5. variant = "oplog" => OplogDumping'
        BY Zenon, <3>1, <4>1, <4>2, <4>4 DEF OplogDumping
      <4> QED
        BY ZenonT(40), <3>1, <4>1, <4>2, <4>3, <4>4, <4>5, <1>MongoDBDumpKeeps DEF ArtifactGrows
    <3> QED
      BY Zenon, <3>2, <3>3
  <2>MongoDBFinalInspectNext.
        ASSUME TypeOK, DumpInv, MongoDBDumpFinalInspect
        PROVE  DumpOK' /\ DumpInv' /\ ArtifactGrows
    <3> USE <2>MongoDBFinalInspectNext
    <3>1. /\ engine = "mongodb" /\ dump.at = "final" /\ dump.at # "idle"
          /\ UNCHANGED <<engine, variant, artifact, source, oplog>> /\ DumpAt("mongodb", "final")
      BY Zenon DEF MongoDBDumpFinalInspect, DumpAt, hosts, records, atSource
    <3>2. CASE ~MongoMapped(acl[1])
      <4>1. dump' = IdleDump
        BY Zenon, <3>2 DEF MongoDBDumpFinalInspect
      <4> QED
        BY ZenonT(40), <3>1, <4>1, <1>IdleDumpNext DEF ArtifactGrows
    <3>3. CASE MongoMapped(acl[1])
      <4>1. dump' = [InspectMongoDB(dump) EXCEPT !.at = "stable"] /\ "stable" \in DumpSteps
        BY Zenon, <3>3 DEF MongoDBDumpFinalInspect, DumpSteps
      <4>2. /\ dump' \in Dumps /\ dump'.at = "stable" /\ dump'.unit = dump.unit /\ dump'.want = SeenNow /\ dump'.cut = SeenNow
            /\ dump'.data = dump.data /\ dump'.ids = dump.ids /\ dump'.delta = dump.delta /\ dump'.end = dump.end
            /\ dump'.mig = dump.mig
        BY Zenon, <3>1, <3>3, <4>1, <2>MongoDBInspected
      <4>3. DumpOK'
        BY Zenon, <3>1, <4>1, <4>2, <1>DumpGoesOn
      <4>4. (variant # "oplog" => dump.ids = {}) /\ (variant = "oplog" => OplogDumping)
        BY Zenon, <3>1 DEF DumpInv
      <4>5. SeenNow' = SeenNow
        BY Zenon, <3>1 DEF SeenNow
      <4>6. variant = "oplog" => OplogDumping'
        BY Zenon, <3>1, <4>2, <4>4, <4>5 DEF OplogDumping
      <4> QED
        BY Zenon, <3>1, <4>2, <4>3, <4>4, <4>6, <1>MongoDBDumpKeeps DEF ArtifactGrows
    <3> QED
      BY Zenon, <3>2, <3>3
  <2>MongoDBStableNext.
        ASSUME TypeOK, DumpInv, VerifyMongoDBOplogStableAfter
        PROVE  DumpOK' /\ DumpInv' /\ ArtifactGrows
    <3> USE <2>MongoDBStableNext
    <3>1. engine = "mongodb" /\ dump.at = "stable" /\ dump.at # "idle" /\ UNCHANGED <<engine, variant>>
      BY Zenon DEF VerifyMongoDBOplogStableAfter, DumpAt, hosts
    <3>2. CASE MongoDBChangedAfterEnd
      <4>1. dump' = IdleDump /\ UNCHANGED artifact
        BY Zenon, <3>2 DEF VerifyMongoDBOplogStableAfter
      <4> QED
        BY Zenon, <3>1, <4>1, <1>IdleDumpNext DEF ArtifactGrows
    <3>3. CASE ~MongoDBChangedAfterEnd
      <4>1. Complete(dump)
        BY Zenon, <3>3 DEF VerifyMongoDBOplogStableAfter
      <4>2. dump \in Dumps /\ dump.mig \in Migrations /\ dump.end \in Nat /\ SourceOK /\ Len(oplog) \in Nat
        <5>1. dump \in Dumps /\ dump.mig \in Migrations /\ dump.end \in Nat
          BY Zenon, <3>1, <1>DumpAtWork, <1>DumpRecord
        <5>2. SourceOK /\ oplog \in Seq(0..3)
          BY Zenon DEF TypeOK, SourceOK
        <5>3. Len(oplog) \in Nat
          BY SMTT(30), <5>2
        <5> QED
          BY Zenon, <5>1, <5>2, <5>3
      <4>3. dump.want = dump.cut /\ (variant # "oplog" => dump.ids = {}) /\ (variant = "oplog" => OplogDumping)
        BY Zenon, <3>1 DEF DumpInv
      <4>4. variant = "oplog" => \A u \in Units : Seen(Restored(dump, u)) = dump.want[u]
        <5> SUFFICES ASSUME variant = "oplog", NEW u \in Units
                     PROVE  Seen(Restored(dump, u)) = dump.want[u]
          BY Zenon
        <5>1. dump.end = Len(oplog)
          BY SMTT(30), <3>1, <3>3, <4>2, <4>3 DEF MongoDBChangedAfterEnd, OplogDumping
        <5>2. /\ u \notin dump.ids => dump.data[u] = source[u]
              /\ u \in dump.ids => dump.delta[u] = source[u]
              /\ dump.want = SeenNow
          BY Zenon, <3>1, <4>3, <5>1 DEF OplogDumping
        <5>3. Restored(dump, u) = source[u]
          BY Zenon, <5>2 DEF Restored
        <5> QED
          BY Zenon, <4>2, <5>2, <5>3, <1>SeenNowType
      <4>5. ArtifactGrows
        BY ZenonT(40), <3>1, <4>1, <4>2, <4>3, <4>4, <2>MongoDBArtifact
      <4> QED
        BY Zenon, <3>1, <4>1, <4>2, <4>5, <1>Completes, <1>IdleDumpNext
    <3> QED
      BY Zenon, <3>2, <3>3
  <2> QED
    BY Zenon, <2>MongoDBInspectNext, <2>MongoDBTimestampNext, <2>MongoDBDocumentNext, <2>MongoDBDeltaNext,
       <2>MongoDBMutationNext, <2>MongoDBCloseNext, <2>MongoDBFinalInspectNext, <2>MongoDBStableNext DEF MongoDBDumpSteps
<1>RedisDumpKeeps.
      ASSUME TypeOK, engine = "redis", UNCHANGED <<engine, variant>>, dump'.ids = {}, RedisDumping'
      PROVE  DumpInv'
  <2> USE <1>RedisDumpKeeps
  <2>1. ~Sql' /\ engine' # "mongodb" /\ variant' # "oplog"
    BY Zenon, HostFacts DEF Sql, TypeOK
  <2> QED
    BY Zenon, <2>1 DEF DumpInv
<1>RedisArchiveNext. TypeOK /\ DumpInv /\ WriteRedisArchive => DumpOK' /\ DumpInv' /\ ArtifactGrows
  <2>RedisArchiveWritten.
        ASSUME TypeOK, WriteRedisArchive
        PROVE  /\ dump.at = "scan"
               /\ \/ /\ dump.unit = 1 /\ Last = 2 /\ UNCHANGED artifact /\ dump' \in Dumps /\ dump'.mig = dump.mig
                     /\ dump'.unit = 2 /\ dump'.at = "scan" /\ dump'.calm = dump.calm /\ dump'.ids = dump.ids
                     /\ dump'.data = [dump.data EXCEPT ![1] = IF variant = "cache" THEN Nothing ELSE source[1]]
                  \/ \E d \in Dumps :
                       /\ dump.unit = Last /\ Complete(d) /\ d.mig = dump.mig /\ d.calm = dump.calm /\ d.ids = dump.ids
                       /\ d.data = [dump.data EXCEPT ![dump.unit] = IF variant = "cache" THEN Nothing ELSE source[dump.unit]]
                       /\ d.want = RedisManifestDigest([u \in Units |-> Seen(d.data[u])])
                       /\ d.cut = RedisManifestDigest(SeenNow)
    <3> USE <2>RedisArchiveWritten
    <3>1. dump.at = "scan" /\ dump.at # "idle" /\ "scan" \in DumpSteps
      BY Zenon DEF WriteRedisArchive, DumpAt, DumpSteps
    <3>2. /\ dump \in Dumps /\ dump.unit \in Units /\ SourceOK /\ (dump.unit < Last => dump.unit = 1 /\ Last = 2)
          /\ (~(dump.unit < Last) => dump.unit = Last)
      BY Zenon, <3>1, <1>DumpAtWork DEF TypeOK
    <3>3. PICK x : x = [dump.data EXCEPT ![dump.unit] = IF variant = "cache" THEN Nothing ELSE source[dump.unit]]
      BY Zenon
    <3>4. x \in [Units -> Versions]
      <4>1. dump.data \in [Units -> Versions] /\ (IF variant = "cache" THEN Nothing ELSE source[dump.unit]) \in Versions
        BY Zenon, <3>2, <1>DumpRecord, VersionFacts DEF SourceOK
      <4> QED
        BY Zenon, <3>2, <3>3, <4>1, ExceptType
    <3>5. PICK d : d = [dump EXCEPT !.data = x]
      BY Zenon
    <3>6. /\ d \in Dumps /\ d.data = x /\ d.calm = dump.calm
          /\ d.ids = dump.ids /\ d.mig = dump.mig /\ d.unit = dump.unit /\ d.at = dump.at
      <4>1. dump \in Dumps
        BY Zenon, <3>2
      <4> QED
        BY <4>1, <3>4, <3>5, Zenon DEF Dumps
    <3>7. d = ScanRedisRecords(dump)
      BY Zenon, <3>3, <3>5 DEF ScanRedisRecords
    <3>8. CASE dump.unit < Last
      <4>1. dump' = DumpOn(d, "scan") /\ UNCHANGED artifact
        BY Zenon, <3>7, <3>8 DEF WriteRedisArchive
      <4>2. dump' \in Dumps /\ SameRead(dump', d) /\ Advances("scan")
        BY Zenon, <3>1, <3>6, <4>1, <1>DumpOnRecord
      <4>3. dump'.unit = 2 /\ dump'.at = "scan" /\ dump.unit = 1
        BY Zenon, <3>1, <3>2, <3>8, <4>2 DEF Advances
      <4> QED
        BY SMTT(30), <3>1, <3>2, <3>3, <3>6, <3>8, <4>1, <4>2, <4>3 DEF SameRead
    <3>9. CASE ~(dump.unit < Last)
      <4>1. PICK w, c : w = RedisManifestDigest([u \in Units |-> Seen(x[u])]) /\ c = RedisManifestDigest(SeenNow)
        BY Zenon
      <4>2. w \in [Units -> Nat] /\ c \in [Units -> Nat]
        <5>1. SeenNow \in [Units -> Nat] /\ [u \in Units |-> Seen(x[u])] \in [Units -> Nat]
          BY Zenon, <3>2, <3>4, <1>SeenNowType, VersionFacts
        <5> QED
          BY Zenon, <4>1, <5>1 DEF RedisManifestDigest
      <4>3. PICK e : e = [d EXCEPT !.want = w, !.cut = c]
        BY Zenon
      <4>4. Complete(e)
        BY Zenon, <3>6, <3>7, <3>9, <4>1, <4>3 DEF WriteRedisArchive
      <4>5. e \in Dumps /\ e.want = w /\ e.cut = c /\ e.data = d.data /\ e.mig = d.mig /\ e.calm = d.calm /\ e.ids = d.ids
        <5>1. d \in Dumps
          BY Zenon, <3>6
        <5> QED
          BY <4>2, <4>3, <5>1, Zenon DEF Dumps
      <4>6. dump.unit = Last /\ e.mig = dump.mig /\ e.calm = dump.calm /\ e.ids = dump.ids /\ e.data = x
        BY Zenon, <3>2, <3>6, <3>9, <4>5
      <4>7. e.want = RedisManifestDigest([u \in Units |-> Seen(e.data[u])]) /\ e.cut = RedisManifestDigest(SeenNow)
        BY <4>1, <4>5, <4>6, Zenon
      <4> QED
        BY <3>1, <3>3, <4>4, <4>5, <4>6, <4>7, Zenon
    <3> QED
      BY ZenonT(40), <3>8, <3>9
  <2> SUFFICES ASSUME TypeOK, DumpInv, WriteRedisArchive
               PROVE  DumpOK' /\ DumpInv' /\ ArtifactGrows
    BY Zenon
  <2>1. engine = "redis" /\ dump.at # "idle" /\ UNCHANGED <<engine, variant, source>>
    BY Zenon DEF WriteRedisArchive, DumpAt, hosts, atSource
  <2>2. /\ dump.mig \in Migrations /\ dump.unit \in Units /\ dump.data \in [Units -> Versions] /\ Units = {1, 2}
        /\ Last = 2 /\ variant \in {"durable", "cache"} /\ dump.ids = {} /\ RedisDumping
    BY ZenonT(40), <2>1, <1>DumpAtWork, <1>DumpRecord, HostFacts DEF DumpInv, TypeOK
  <2>3. CASE /\ dump.unit = 1 /\ Last = 2 /\ UNCHANGED artifact /\ dump' \in Dumps /\ dump'.mig = dump.mig
             /\ dump'.unit = 2 /\ dump'.at = "scan" /\ dump'.calm = dump.calm /\ dump'.ids = dump.ids
             /\ dump'.data = [dump.data EXCEPT ![1] = IF variant = "cache" THEN Nothing ELSE source[1]]
    <3>1. DumpOK'
      BY Zenon, <2>1, <2>3, <1>DumpGoesOn DEF DumpSteps
    <3>2. \A u \in Units : dump'.data[u] = IF u = 1 THEN (IF variant = "cache" THEN Nothing ELSE source[1]) ELSE dump.data[u]
      BY Zenon, <2>2, <2>3
    <3>3. RedisDumping'
      BY Zenon, <2>1, <2>2, <3>2 DEF RedisDumping
    <3> QED
      BY Zenon, <2>1, <2>2, <2>3, <3>1, <3>3, <1>RedisDumpKeeps DEF ArtifactGrows
  <2>4. ASSUME NEW d \in Dumps,
               dump.unit = Last, Complete(d), d.mig = dump.mig, d.calm = dump.calm, d.ids = dump.ids,
               d.data = [dump.data EXCEPT ![dump.unit] = IF variant = "cache" THEN Nothing ELSE source[dump.unit]],
               d.want = RedisManifestDigest([u \in Units |-> Seen(d.data[u])]),
               d.cut = RedisManifestDigest(SeenNow)
        PROVE  DumpOK' /\ DumpInv' /\ ArtifactGrows
    <3>1. \A u \in Units : d.data[u] = IF u = 2 THEN (IF variant = "cache" THEN Nothing ELSE source[2]) ELSE dump.data[u]
      BY ZenonT(40), <2>2, <2>4
    <3>2. variant = "cache" => \A u \in Units : d.data[u] = Nothing
      BY Zenon, <2>2, <3>1 DEF RedisDumping
    <3>3. d.calm => d.want = d.cut
      <4>1. CASE variant = "cache"
        BY Zenon, <2>4, <4>1 DEF RedisManifestDigest
      <4>2. CASE variant = "durable" /\ d.calm
        <5>1. \A u \in Units : d.data[u] = source[u]
          BY SMTT(30), <2>2, <2>4, <3>1, <4>2 DEF RedisDumping
        <5>2. [u \in Units |-> Seen(d.data[u])] = SeenNow
          BY Zenon, <5>1 DEF SeenNow
        <5> QED
          BY Zenon, <2>4, <5>2
      <4> QED
        BY Zenon, <2>2, <4>1, <4>2
    <3>4. PICK a : a = ArtifactOf(d)
      BY Zenon
    <3>5. a \in Artifacts /\ a.want = d.want /\ a.data = d.data /\ a.ids = d.ids /\ a.cut = d.cut /\ a.calm = d.calm
      BY ZenonT(40), <2>4, <3>4, <1>ArtifactOfRecord
    <3>6. ~Sql /\ engine # "mongodb" /\ variant # "oplog"
      BY Zenon, <2>1, <2>2 DEF Sql
    <3>7. a.want = RedisManifestDigest([u \in Units |-> Seen(a.data[u])])
      BY <2>4, <3>5, Zenon
    <3>8. Good(a)
      BY <2>2, <2>4, <3>2, <3>3, <3>5, <3>6, <3>7, Zenon DEF Good
    <3>9. artifact' = [artifact EXCEPT ![d.mig] = a] /\ dump' = IdleDump
      BY Zenon, <2>4, <3>4, <1>Completes
    <3> QED
      BY Zenon, <2>1, <2>2, <2>4, <3>5, <3>8, <3>9, <1>IdleDumpNext DEF ArtifactGrows
  <2> QED
    BY Zenon, <2>3, <2>4, <2>RedisArchiveWritten
<1>DumpStays.
      ASSUME TypeOK, DumpInv, UNCHANGED <<engine, variant, source, oplog, dump>>
      PROVE  DumpOK' /\ DumpInv'
  <2> USE <1>DumpStays
  <2>1. DumpOK
    BY Zenon DEF TypeOK
  <2>2. DumpOK'
    BY Zenon, <2>1 DEF DumpOK, Scope, Last
  <2>3. SqlDumping => SqlDumping'
    BY Zenon DEF SqlDumping, Merged, Scope, Last
  <2>4. OplogDumping => OplogDumping'
    BY Zenon DEF OplogDumping, Logged, SeenNow
  <2>5. RedisDumping => RedisDumping'
    BY Zenon DEF RedisDumping
  <2> QED
    BY <2>2, <2>3, <2>4, <2>5, Zenon DEF DumpInv, Sql
<1>OplogExplains.
      ASSUME TypeOK, OplogDumping, NEW w \in 0..3, oplog' = Append(oplog, w),
             \A u \in Units : u # w => source'[u] = source[u],
             dump'.at = dump.at, dump'.unit = dump.unit, dump'.start = dump.start, dump'.end = dump.end,
             dump'.data = dump.data
      PROVE  OplogDumping'
  <2> USE <1>OplogExplains
  <2>1. oplog \in Seq(0..3) /\ Len(oplog) \in Nat /\ dump.start \in Nat /\ dump.end \in Nat
    BY SMTT(30), <1>DumpRecord DEF TypeOK, SourceOK, DumpOK
  <2>2. /\ Len(oplog') = Len(oplog) + 1 /\ oplog'[Len(oplog) + 1] = w
        /\ \A i \in 1..Len(oplog) : oplog'[i] = oplog[i]
    BY SMTT(30), <2>1
  <2>3. dump.at \in {"dump", "window"} => dump.start <= Len(oplog)
    BY Zenon DEF OplogDumping
  <2>4. dump.at \in {"dump", "window"} => Logged(w, dump.start)'
    <3> SUFFICES ASSUME dump.start <= Len(oplog)
                 PROVE  Logged(w, dump.start)'
      BY Zenon, <2>3
    <3>1. Len(oplog) + 1 \in dump.start + 1 .. Len(oplog')
      BY SMTT(30), <2>1, <2>2
    <3> QED
      BY Zenon, <2>2, <3>1 DEF Logged
  <2>5. \A u : Logged(u, dump.start) => Logged(u, dump.start)'
    <3>0. \A k, n, i : k \in Nat /\ n \in Nat /\ i \in k + 1 .. n => i \in k + 1 .. n + 1 /\ i \in 1..n
      <4> HIDE <1>OplogExplains
      <4> QED
        BY SMTT(30)
    <3> SUFFICES ASSUME NEW u, NEW i \in dump.start + 1 .. Len(oplog), oplog[i] = u
                 PROVE  Logged(u, dump.start)'
      BY Zenon DEF Logged
    <3>1. i \in dump.start + 1 .. Len(oplog') /\ i \in 1..Len(oplog)
      BY Zenon, <2>1, <2>2, <3>0
    <3> QED
      BY Zenon, <2>2, <3>1 DEF Logged
  <2>6. dump'.at \in {"dump", "window"} =>
          /\ dump'.start <= Len(oplog')
          /\ (\A u \in Units : u < dump.unit \/ dump.at = "window" => dump.data[u] = source[u] \/ Logged(u, dump.start))'
    <3> SUFFICES ASSUME dump.at \in {"dump", "window"}
                 PROVE  /\ dump'.start <= Len(oplog')
                        /\ (\A u \in Units :
                              u < dump.unit \/ dump.at = "window" => dump.data[u] = source[u] \/ Logged(u, dump.start))'
      BY Zenon
    <3>1. dump'.start <= Len(oplog')
      BY SMTT(30), <2>1, <2>2, <2>3
    <3>2. \A u \in Units : u < dump.unit \/ dump.at = "window" => dump.data[u] = source[u] \/ Logged(u, dump.start)
      BY Zenon DEF OplogDumping
    <3>3. Logged(w, dump.start)'
      BY Zenon, <2>4
    <3>4. ASSUME NEW u \in Units, u < dump.unit \/ dump.at = "window"
          PROVE  dump'.data[u] = source'[u] \/ Logged(u, dump.start)'
      <4>1. CASE u = w
        BY ZenonT(40), <3>3, <4>1 DEF Logged
      <4>2. CASE u # w
        BY SMTT(30), <2>5, <3>2, <3>4, <4>2
      <4> QED
        BY Zenon, <4>1, <4>2
    <3>5. (\A u \in Units : u < dump.unit \/ dump.at = "window" => dump.data[u] = source[u] \/ Logged(u, dump.start))'
      BY Zenon, <3>4
    <3> QED
      BY Zenon, <3>1, <3>5
  <2>7. dump'.at \in {"delta", "close", "final", "stable"} => dump'.end <= Len(oplog') /\ dump'.end # Len(oplog')
    <3>1. dump.at \in {"delta", "close", "final", "stable"} => dump.end <= Len(oplog)
      BY Zenon DEF OplogDumping
    <3> QED
      BY SMTT(30), <2>1, <2>2, <3>1
  <2>8. dump'.at \in {"inspect", "start", "window"} => dump'.unit = 1
    BY Zenon DEF OplogDumping
  <2> QED
    BY <2>6, <2>7, <2>8, Zenon DEF OplogDumping
<1>DumpStarted.
      ASSUME TypeOK, DumpStarts
      PROVE  DumpOK' /\ DumpInv'
  <2> USE <1>DumpStarted
  <2>1. /\ UNCHANGED <<engine, variant>>
        /\ \E m \in Migrations, at \in {"inspect", "scan"} :
             dump' = [IdleDump EXCEPT !.mig = m, !.at = at] /\ (at = "scan" => engine = "redis")
    BY ZenonT(40) DEF DumpStarts, PostgresDump, MySQLDump, MongoDBDump, RedisDump, StartDump, hosts
  <2>2. PICK m \in Migrations, at \in {"inspect", "scan"} :
          dump' = [IdleDump EXCEPT !.mig = m, !.at = at] /\ (at = "scan" => engine = "redis")
    BY Zenon, <2>1
  <2>3. at \in DumpSteps /\ IdleDump \in Dumps
    BY Zenon, IdleDumpRecord DEF DumpSteps
  <2>4. /\ dump' \in Dumps /\ dump'.mig = m /\ dump'.at = at /\ dump'.unit = IdleDump.unit /\ dump'.ids = IdleDump.ids
        /\ dump'.want = IdleDump.want /\ dump'.cut = IdleDump.cut /\ dump'.data = IdleDump.data /\ dump'.acl = IdleDump.acl
    BY <2>2, <2>3, Zenon DEF Dumps
  <2>5. /\ dump'.unit = 1 /\ dump'.ids = {} /\ dump'.want = dump'.cut
        /\ \A u \in Units : dump'.data[u] = Nothing /\ dump'.acl[u] = {} /\ ~(u < 1)
    BY SMTT(30), <2>4, IdleDumpRecord DEF Units
  <2>6. DumpOK'
    <3>1. 1 \in Scope'
      BY Zenon, <2>1, HostFacts DEF Scope, Last, TypeOK
    <3> QED
      BY Zenon, <2>3, <2>4, <2>5, <3>1 DEF DumpOK
  <2>7. Sql' => SqlDumping'
    <3>1. Scope' \subseteq Units /\ dump'.at \notin {"grants", "dump"}
      BY Zenon, <2>1, <2>4, HostFacts DEF Scope, Last, TypeOK
    <3>2. (\A u \in Units : Merged(dump.acl[u]))'
      BY Zenon, <2>5 DEF Merged
    <3> QED
      BY <2>5, <3>1, <3>2, Zenon DEF SqlDumping
  <2>8. OplogDumping' /\ RedisDumping' /\ dump'.at # "window"
    BY SMTT(30), <2>4, <2>5 DEF OplogDumping, RedisDumping
  <2> QED
    BY Zenon, <2>5, <2>6, <2>7, <2>8 DEF DumpInv
<1>DumpKeepsOnWrite.
      ASSUME TypeOK, SourceInv, DumpInv, Writes
      PROVE  DumpOK' /\ DumpInv'
  <2> USE <1>DumpKeepsOnWrite
  <2>1. PICK u \in Units, v \in Contents : SourceWrite(u, v)
    BY Zenon DEF Writes
  <2>2. /\ v \in Versions /\ source' = [source EXCEPT ![u] = v] /\ count["write"] \in Nat /\ dump # IdleDump
        /\ Sql => Seen(v) \in {count["write"] + 2, Seen(source[u])}
    BY Zenon, <2>1, WriteFacts
  <2>3. /\ UNCHANGED <<engine, variant>> /\ oplog' = IF variant = "oplog" THEN Append(oplog, u) ELSE oplog
        /\ dump' = [dump EXCEPT !.calm = engine # "redis"]
    BY Zenon, <2>1 DEF SourceWrite, hosts
  <2>4. SourceOK /\ DumpOK /\ dump \in Dumps
    BY Zenon DEF TypeOK, DumpOK
  <2>5. /\ dump' \in Dumps /\ dump'.mig = dump.mig /\ dump'.at = dump.at /\ dump'.unit = dump.unit
        /\ dump'.want = dump.want /\ dump'.acl = dump.acl /\ dump'.data = dump.data /\ dump'.start = dump.start
        /\ dump'.end = dump.end /\ dump'.ids = dump.ids /\ dump'.delta = dump.delta /\ dump'.cut = dump.cut
        /\ dump'.calm = (engine # "redis")
    <3>1. PICK b \in BOOLEAN : b = (engine # "redis")
      BY Zenon
    <3>2. dump \in Dumps /\ dump' = [dump EXCEPT !.calm = b]
      BY ZenonT(40), <2>3, <2>4, <3>1
    <3>3. dump' \in Dumps /\ dump'.calm = b
      BY <3>2, Zenon DEF Dumps
    <3> QED
      BY <3>1, <3>2, <3>3, Zenon DEF Dumps
  <2>6. Scope' = Scope /\ Scope \subseteq Units
    BY Zenon, <2>3, HostFacts DEF Scope, Last, TypeOK
  <2>7. DumpOK'
    BY ZenonT(40), <2>2, <2>4, <2>5, <2>6 DEF DumpOK
  <2>8. Sql => SqlDumping'
    <3> SUFFICES ASSUME Sql
                 PROVE  SqlDumping'
      BY Zenon
    <3>1. SqlDumping
      BY Zenon DEF DumpInv
    <3>2. \A w \in Units : Seen(source[w]) \in Nat /\ Seen(source'[w]) \in Nat /\ Seen(source[w]) <= Seen(source'[w])
      <4>1. \A w \in Units : Seen(source[w]) \in Nat /\ Seen(source[w]) <= count["write"] + 1 /\ source[w] \in Versions
        BY Zenon, <2>4, <1>SeenNowType DEF SourceInv, SourceOK
      <4>2. Seen(source[u]) <= Seen(v) /\ Seen(v) \in Nat
        BY SMTT(30), <2>2, <4>1, VersionFacts
      <4> QED
        BY SMTT(30), <2>2, <2>4, <4>1, <4>2 DEF SourceOK
    <3>3. \A w \in Units : dump.want[w] \in Nat /\ dump.cut[w] \in Nat
      BY Zenon, <2>4, <1>DumpRecord
    <3>4. dump.at = "inspect" =>
            \A w \in Scope : w < dump.unit => 1 <= dump.want[w] /\ dump.want[w] <= Seen(source'[w])
      <4>1. dump.at = "inspect" =>
              \A w \in Scope : w < dump.unit => 1 <= dump.want[w] /\ dump.want[w] <= Seen(source[w])
        BY Zenon, <3>1 DEF SqlDumping
      <4> QED
        BY SMTT(30), <2>6, <3>2, <3>3, <4>1
    <3>5. dump.at \in {"grants", "dump"} =>
            \A w \in Scope : w >= dump.unit => dump.cut[w] <= Seen(source'[w])
      <4>1. dump.at \in {"grants", "dump"} =>
              \A w \in Scope : w >= dump.unit => dump.cut[w] <= Seen(source[w])
        BY <3>1, Zenon DEF SqlDumping
      <4> QED
        BY SMTT(30), <2>6, <3>2, <3>3, <4>1
    <3>6. (\A w \in Units : Merged(dump.acl[w]))'
      BY <2>3, <2>5, <3>1, Zenon DEF SqlDumping, Merged
    <3> QED
      BY <2>3, <2>5, <2>6, <3>1, <3>4, <3>5, <3>6, Zenon DEF SqlDumping
  <2>9. variant = "oplog" => OplogDumping'
    <3> SUFFICES ASSUME variant = "oplog"
                 PROVE  OplogDumping'
      BY Zenon
    <3>1. u \in 0..3 /\ oplog' = Append(oplog, u) /\ OplogDumping
      BY SMTT(30), <2>3 DEF Units, DumpInv
    <3>2. \A w \in Units : w # u => source'[w] = source[w]
      BY Zenon, <2>2, <2>4 DEF SourceOK
    <3> QED
      BY Zenon, <2>5, <3>1, <3>2, <1>OplogExplains
  <2>10. engine = "redis" => RedisDumping'
    BY Zenon, <2>3, <2>5 DEF RedisDumping, DumpInv
  <2> QED
    BY <2>3, <2>5, <2>7, <2>8, <2>9, <2>10, Zenon DEF DumpInv, Sql
<1>DumpKeepsOnOplog.
      ASSUME TypeOK, DumpInv, OplogMoves
      PROVE  DumpOK' /\ DumpInv'
  <2> USE <1>DumpKeepsOnOplog
  <2>1. UNCHANGED <<engine, variant, source, dump>> /\ (oplog' = oplog \/ oplog' = Append(oplog, 3)) /\ variant = "oplog"
    BY Zenon DEF OplogMoves, hosts
  <2>2. CASE oplog' = oplog
    BY Zenon, <2>1, <2>2, <1>DumpStays
  <2>3. CASE oplog' = Append(oplog, 3)
    <3>1. engine = "mongodb" /\ OplogDumping /\ DumpOK
      BY Zenon, <2>1, HostFacts DEF TypeOK, DumpInv
    <3>2. OplogDumping'
      BY SMTT(30), <2>1, <2>3, <3>1, <1>OplogExplains
    <3>3. DumpOK'
      BY Zenon, <2>1, <3>1 DEF DumpOK, Scope, Last
    <3> QED
      BY Zenon, <2>1, <3>1, <3>2, <3>3, <1>MongoDBDumpKeeps DEF DumpInv
  <2> QED
    BY Zenon, <2>1, <2>2, <2>3
<1>DumpKeepsOnAge.
      ASSUME TypeOK, DumpInv, KeyAges
      PROVE  DumpOK' /\ DumpInv'
  <2> USE <1>DumpKeepsOnAge
  <2>1. UNCHANGED <<engine, variant, dump>> /\ engine = "redis" /\ source'[1] = source[1]
    BY SMTT(30) DEF KeyAges, hosts, TypeOK, SourceOK, Units
  <2>2. DumpOK /\ variant # "oplog" /\ RedisDumping /\ dump.ids = {}
    BY Zenon, <2>1, HostFacts DEF TypeOK, DumpInv
  <2>3. DumpOK' /\ RedisDumping'
    BY Zenon, <2>1, <2>2 DEF DumpOK, Scope, Last, RedisDumping
  <2> QED
    BY Zenon, <2>1, <2>2, <2>3, <1>RedisDumpKeeps
<1> SUFFICES ASSUME TypeOK, SourceInv, DumpInv, Next
             PROVE  DumpOK' /\ DumpInv' /\ ArtifactGrows
  BY Zenon
<1>0. UNCHANGED <<engine, variant>>
  BY Zenon, HostsStay
<1>1. CASE SqlDumpSteps
  BY Zenon, <1>1, <1>PostgresDumpNext, <1>MySQLDumpNext DEF SqlDumpSteps
<1>2. CASE MongoDBDumpSteps
  BY Zenon, <1>2, <1>MongoDBDumpNext
<1>3. CASE WriteRedisArchive
  BY Zenon, <1>3, <1>RedisArchiveNext
<1>4. CASE DumpStarts
  BY Zenon, <1>4, <1>DumpStarted, DumpFrame DEF ArtifactGrows, records
<1>5. CASE Writes
  BY Zenon, <1>5, <1>DumpKeepsOnWrite, SourceFrame DEF ArtifactGrows, records
<1>6. CASE OplogMoves
  BY Zenon, <1>6, <1>DumpKeepsOnOplog, SourceFrame DEF ArtifactGrows, records
<1>7. CASE KeyAges
  BY Zenon, <1>7, <1>DumpKeepsOnAge, SourceFrame DEF ArtifactGrows, records
<1>8. CASE Interrupt
  <2>1. UNCHANGED <<artifact, source, oplog>> /\ (dump' = IdleDump \/ dump' = dump)
    BY Zenon, <1>8 DEF Interrupt, records, atSource
  <2> QED
    BY Zenon, <1>0, <2>1, <1>IdleDumpNext, <1>DumpStays DEF ArtifactGrows
<1>9. CASE AclChanges \/ ForeignWrites \/ Inspects \/ ResetStarts \/ ResetSteps \/ Marks \/ RestoreStarts
           \/ RestoreSteps \/ Verdicts \/ Verifies
  <2>1. UNCHANGED <<artifact, source, oplog, dump>>
    BY <1>9, SourceFrame, DumpFrame, ResetFrame, RestoreFrame, Zenon DEF records, atSource
  <2> QED
    BY Zenon, <1>0, <2>1, <1>DumpStays DEF ArtifactGrows
<1> QED
  BY <1>1, <1>2, <1>3, <1>4, <1>5, <1>6, <1>7, <1>8, <1>9, NextCases, Zenon

----------------------------------------------------------------------------
(* Markers, approvals, artifacts and outcomes *)

LEMMA MarkerMoves ==
  ASSUME TypeOK, Next
  PROVE  \/ UNCHANGED marker
         \/ Marks /\ SaveMarker(job.mig) /\ EndJob /\ job.op = "reset" /\ job.at = "mark"
         \/ \E m \in Migrations : PostgresResetDatabaseSet(m) /\ SaveMarker(m)
<1>1. CASE Marks
  BY Zenon, <1>1 DEF Marks, PostgresResetMark, MySQLResetMark, MongoDBResetMark, RedisResetMark, JobAt
<1>2. CASE ResetStarts
  BY Zenon, <1>2 DEF ResetStarts, PostgresReset, PostgresResetDatabaseSet, MySQLReset, MongoDBReset, RedisReset, records
<1>3. CASE \/ Writes \/ AclChanges \/ ForeignWrites \/ OplogMoves \/ KeyAges \/ Interrupt
           \/ Inspects \/ DumpStarts \/ SqlDumpSteps \/ MongoDBDumpSteps \/ WriteRedisArchive
           \/ ResetSteps \/ RestoreStarts \/ RestoreSteps \/ Verdicts \/ Verifies
  BY <1>3, SourceFrame, DumpFrame, ResetFrame, RestoreFrame, Zenon DEF records
<1> QED
  BY <1>1, <1>2, <1>3, NextCases, Zenon

LEMMA ApprovedMoves ==
  ASSUME Next
  PROVE  UNCHANGED approved \/ \E m \in Migrations : \E x : Inspects /\ approved[m] = None /\ approved' = [approved EXCEPT ![m] = x]
<1>1. CASE Inspects
  BY Zenon, <1>1 DEF Inspects, PostgresInspect, MySQLInspect, MongoDBInspect, RedisInspect
<1>2. CASE \/ Writes \/ AclChanges \/ ForeignWrites \/ OplogMoves \/ KeyAges \/ Interrupt
           \/ DumpStarts \/ SqlDumpSteps \/ MongoDBDumpSteps \/ WriteRedisArchive \/ ResetStarts \/ Marks
           \/ ResetSteps \/ RestoreStarts \/ RestoreSteps \/ Verdicts \/ Verifies
  BY <1>2, SourceFrame, DumpFrame, ResetFrame, RestoreFrame, Zenon DEF records
<1> QED
  BY <1>1, <1>2, NextCases, Zenon

LEMMA RecordsNext ==
  ASSUME TypeOK, SourceInv, DumpInv, Next
  PROVE  RecordsOK'
<1>1. RecordsOK /\ (job.op # "idle" => job.mig \in Migrations)
  BY SMTT(30) DEF TypeOK, JobOK, IdleJob
<1>2. DOMAIN marker' = Bindings /\ \A b \in Bindings : marker'[b].mig \in Migrations \cup {None}
  <2>1. CASE UNCHANGED marker
    BY ZenonT(40), <1>1, <2>1 DEF RecordsOK
  <2>2. ASSUME NEW m \in Migrations, SaveMarker(m)
        PROVE  DOMAIN marker' = Bindings /\ \A b \in Bindings : marker'[b].mig \in Migrations \cup {None}
    BY Zenon, <1>1, <2>2 DEF RecordsOK, SaveMarker, Bindings
  <2>3. CASE Marks /\ SaveMarker(job.mig) /\ job.op = "reset"
    BY Zenon, <1>1, <2>2, <2>3
  <2> QED
    BY ZenonT(40), <2>1, <2>2, <2>3, MarkerMoves
<1>3. DOMAIN approved' = Migrations
  BY Zenon, <1>1, ApprovedMoves DEF RecordsOK
<1>4. artifact' \in [Migrations -> Artifacts \cup {None}]
  <2>1. artifact \in [Migrations -> Artifacts \cup {None}] /\ ArtifactGrows
    BY Zenon, <1>1, DumpNext DEF RecordsOK
  <2> QED
    BY Zenon, <2>1 DEF ArtifactGrows
<1> QED
  BY Zenon, <1>2, <1>3, <1>4 DEF RecordsOK

\* How the outcome of the last restore of a migration changes.
DoneChange(m) ==
  \/ done'[m] = done[m]
  \/ done'[m] = NotDone /\ (ResetStarts \/ RestoreStarts)
  \/ Verdicts /\ job.op = "restore" /\ m = job.mig /\ done'[m].at \in {"ok", "rejected"} /\ done'[m].art = job.art
  \/ /\ Verifies /\ done[m].at \in {"ok", "verified"}
     /\ done'[m].at \in {"verified", "failed"} /\ done'[m].art = done[m].art

LEMMA VerdictRecord ==
  ASSUME NEW x \in {"ok", "rejected"}, NEW a \in Artifacts
  PROVE  LET o == [at |-> x, art |-> a] IN o \in Outcomes /\ o.at = x /\ o.art = a
BY Zenon DEF Outcomes

LEMMA VerifiedRecord ==
  ASSUME NEW x \in {"verified", "failed"}, NEW o \in Outcomes
  PROVE  LET p == [o EXCEPT !.at = x] IN p \in Outcomes /\ p.at = x /\ p.art = o.art
BY Zenon DEF Outcomes

LEMMA NotDoneRecord == NotDone \in Outcomes /\ NotDone.at = "no"
BY Zenon DEF NotDone, Outcomes

LEMMA DoneMoves ==
  ASSUME TypeOK, Next
  PROVE  done' \in [Migrations -> Outcomes] /\ \A m \in Migrations : DoneChange(m)
<1>0. done \in [Migrations -> Outcomes]
  BY Zenon DEF TypeOK, DoneOK
<1>1. ASSUME NEW m \in Migrations, Forget(m), ResetStarts \/ RestoreStarts
      PROVE  done' \in [Migrations -> Outcomes] /\ \A n \in Migrations : DoneChange(n)
  <2>1. done' = [done EXCEPT ![m] = NotDone]
    BY Zenon, <1>1 DEF Forget
  <2>2. done' \in [Migrations -> Outcomes] /\ done'[m] = NotDone /\ \A n \in Migrations \ {m} : done'[n] = done[n]
    BY Zenon, <1>0, <2>1, NotDoneRecord
  <2> QED
    BY Zenon, <1>1, <2>2 DEF DoneChange
<1>2. CASE ResetStarts \/ RestoreStarts
  <2>1. \E m \in Migrations : Forget(m)
    BY Zenon, <1>2, StartsJob DEF JobStarts
  <2> QED
    BY Zenon, <1>1, <1>2, <2>1
<1>3. CASE Verdicts
  <2>1. job.op = "restore" /\ (UNCHANGED done \/ \E ok \in BOOLEAN : Verdict(ok))
    <3>1. job.op = "restore"
      BY Zenon, <1>3 DEF Verdicts, PostgresRestoreCheck, PostgresRestoreVerify, MySQLRestoreVerify, MongoDBRestoreVerify,
         RedisRestoreVerify, JobAt
    <3>2. PostgresRestoreCheck => UNCHANGED done \/ Verdict(FALSE)
      BY Zenon DEF PostgresRestoreCheck
    <3>3. PostgresManifestMatches(job.art) \in BOOLEAN /\ MySQLManifestMatches(job.art) \in BOOLEAN
          /\ MongoDBManifestMatches(job.art) \in BOOLEAN /\ RedisManifestMatches(job.art) \in BOOLEAN
      BY Zenon DEF PostgresManifestMatches, MySQLManifestMatches, MongoDBManifestMatches, RedisManifestMatches
    <3>4. PostgresRestoreVerify \/ MySQLRestoreVerify \/ MongoDBRestoreVerify \/ RedisRestoreVerify =>
            \/ Verdict(PostgresManifestMatches(job.art)) \/ Verdict(MySQLManifestMatches(job.art))
            \/ Verdict(MongoDBManifestMatches(job.art)) \/ Verdict(RedisManifestMatches(job.art))
      BY Zenon DEF PostgresRestoreVerify, MySQLRestoreVerify, MongoDBRestoreVerify, RedisRestoreVerify
    <3>5. UNCHANGED done \/ \E ok \in BOOLEAN : Verdict(ok)
      BY <1>3, <3>2, <3>3, <3>4, Zenon DEF Verdicts
    <3> QED
      BY Zenon, <3>1, <3>5
  <2>2. job.mig \in Migrations /\ job.art \in Artifacts
    BY SMTT(30), <2>1 DEF TypeOK, JobOK, IdleJob
  <2>3. ASSUME NEW ok \in BOOLEAN, Verdict(ok)
        PROVE  done' \in [Migrations -> Outcomes] /\ \A n \in Migrations : DoneChange(n)
    <3>1. PICK x \in {"ok", "rejected"} : x = IF ok THEN "ok" ELSE "rejected"
      BY Zenon
    <3>2. PICK o : o = [at |-> x, art |-> job.art]
      BY Zenon
    <3>3. o \in Outcomes /\ o.at = x /\ o.art = job.art
      BY Zenon, <2>2, <3>1, <3>2, VerdictRecord
    <3>4. done' = [done EXCEPT ![job.mig] = o]
      BY <2>3, <3>1, <3>2, Zenon DEF Verdict
    <3>5. done' \in [Migrations -> Outcomes] /\ done'[job.mig] = o /\ \A n \in Migrations \ {job.mig} : done'[n] = done[n]
      BY Zenon, <1>0, <2>2, <3>3, <3>4
    <3> QED
      BY Zenon, <1>3, <2>1, <3>1, <3>3, <3>5 DEF DoneChange
  <2> QED
    BY Zenon, <1>0, <2>1, <2>3 DEF DoneChange
<1>4. CASE Verifies
  <2>1. PICK m \in Migrations : done[m].at \in {"ok", "verified"} /\ \E x \in {"verified", "failed"} : done' = [done EXCEPT ![m].at = x]
    BY Zenon, <1>4 DEF Verifies, PostgresVerify, MySQLVerify, MongoDBVerify, RedisVerify, Verified
  <2>2. PICK x \in {"verified", "failed"} : done' = [done EXCEPT ![m].at = x]
    BY Zenon, <2>1
  <2>3. PICK o : o = [done[m] EXCEPT !.at = x]
    BY Zenon
  <2>4. o \in Outcomes /\ o.at = x /\ o.art = done[m].art
    BY <1>0, <2>3, VerifiedRecord
  <2>5. done' = [done EXCEPT ![m] = o]
    BY Zenon, <2>2, <2>3
  <2>6. done' \in [Migrations -> Outcomes] /\ done'[m] = o /\ \A n \in Migrations \ {m} : done'[n] = done[n]
    BY Zenon, <1>0, <2>4, <2>5
  <2> QED
    BY Zenon, <1>4, <2>1, <2>2, <2>4, <2>6 DEF DoneChange
<1>5. CASE \/ Writes \/ AclChanges \/ ForeignWrites \/ OplogMoves \/ KeyAges \/ Interrupt \/ Inspects
           \/ DumpStarts \/ SqlDumpSteps \/ MongoDBDumpSteps \/ WriteRedisArchive \/ Marks \/ ResetSteps \/ RestoreSteps
  <2>1. UNCHANGED done
    BY <1>5, SourceFrame, DumpFrame, ResetFrame, RestoreFrame, Zenon
  <2> QED
    BY Zenon, <1>0, <2>1 DEF DoneChange
<1> QED
  BY <1>2, <1>3, <1>4, <1>5, NextCases, Zenon

LEMMA DoneNext ==
  ASSUME TypeOK, Next
  PROVE  DoneOK'
<1>1. done' \in [Migrations -> Outcomes] /\ \A m \in Migrations : DoneChange(m)
  BY Zenon, DoneMoves
<1>2. DoneOK /\ (job.op = "restore" => job.art \in Artifacts)
  BY Zenon DEF TypeOK, JobOK
<1>3. ASSUME NEW m \in Migrations, done'[m].at # "no"
      PROVE  done'[m].art \in Artifacts
  <2>1. CASE done'[m] = done[m]
    BY Zenon, <1>2, <1>3, <2>1 DEF DoneOK
  <2>2. CASE job.op = "restore" /\ done'[m].art = job.art
    BY Zenon, <1>2, <2>2
  <2>3. CASE done[m].at \in {"ok", "verified"} /\ done'[m].art = done[m].art
    BY Zenon, <1>2, <2>3 DEF DoneOK
  <2> QED
    BY Zenon, <1>1, <1>3, <2>1, <2>2, <2>3, NotDoneRecord DEF DoneChange
<1> QED
  BY Zenon, <1>1, <1>3 DEF DoneOK

LEMMA TypeNext ==
  ASSUME TypeOK, SourceInv, DumpInv, Next
  PROVE  TypeOK'
<1>1. (<<engine, variant>> \in Variants)'
  BY Zenon, HostsStay DEF TypeOK
<1>2. SourceOK' /\ TargetOK'
  BY Zenon, SourceNext, TargetNext
<1>3. RecordsOK' /\ DumpOK'
  BY Zenon, RecordsNext, DumpNext
<1>4. JobOK' /\ DoneOK' /\ CountOK'
  BY Zenon, JobNext, DoneNext, NextCounts
<1> QED
  BY Zenon, <1>1, <1>2, <1>3, <1>4 DEF TypeOK

----------------------------------------------------------------------------
(* Artifacts *)

LEMMA GoodStays ==
  ASSUME UNCHANGED <<engine, variant>>, NEW a, Good(a)
  PROVE  Good(a)'
BY Zenon DEF Good, Sql, Scope, Last, Merged, Restored, RedisManifestDigest

LEMMA ArtNext ==
  ASSUME TypeOK, SourceInv, DumpInv, ArtInv, Next
  PROVE  ArtInv'
<1>0. UNCHANGED <<engine, variant>> /\ RecordsOK /\ JobOK
  BY Zenon, HostsStay DEF TypeOK
<1>1. ASSUME NEW m \in Migrations, artifact'[m] # None
      PROVE  Good(artifact'[m])
  <2>1. CASE UNCHANGED artifact
    BY Zenon, <1>1, <2>1 DEF ArtInv
  <2>2. CASE \E n \in Migrations, a \in Artifacts : Good(a) /\ artifact' = [artifact EXCEPT ![n] = a]
    <3>1. PICK n \in Migrations, a \in Artifacts : Good(a) /\ artifact' = [artifact EXCEPT ![n] = a]
      BY Zenon, <2>2
    <3>2. artifact'[m] = IF m = n THEN a ELSE artifact[m]
      BY Zenon, <1>0, <3>1 DEF RecordsOK
    <3> QED
      BY Zenon, <1>1, <3>1, <3>2 DEF ArtInv
  <2> QED
    BY Zenon, <2>1, <2>2, DumpNext DEF ArtifactGrows
<1>2. job'.op = "restore" => Good(job'.art)
  <2>1. CASE UNCHANGED job
    BY Zenon, <2>1 DEF ArtInv
  <2>2. CASE EndJob
    BY Zenon, <2>2, IdleRecord DEF EndJob
  <2>3. CASE JobGoes
    <3>1. PICK at \in JobSteps, u \in Scope : Goto(at, u)
      BY Zenon, <2>3 DEF JobGoes
    <3>2. job \in Jobs /\ u \in Units
      BY Zenon, <1>0, HostFacts DEF JobOK, TypeOK
    <3> QED
      BY Zenon, <3>1, <3>2, GotoRecord DEF ArtInv
  <2>4. CASE JobStarts("reset")
    <3>1. PICK m \in Migrations, at \in JobSteps, o \in BOOLEAN, a \in Artifacts \cup {None} : StartJob("reset", m, at, o, a)
      BY ZenonT(40), <2>4 DEF JobStarts
    <3> QED
      BY ZenonT(40), <3>1, StartRecord
  <2>5. CASE JobStarts("restore")
    <3>1. PICK m \in Migrations, at \in JobSteps, o \in BOOLEAN, a \in Artifacts \cup {None} :
            StartJob("restore", m, at, o, a) /\ a = artifact[m] /\ a # None
      BY Zenon, <2>5 DEF JobStarts
    <3> QED
      <4>1. job'.art = artifact[m] /\ artifact[m] # None
        BY ZenonT(40), <3>1, StartRecord
      <4> QED
        BY Zenon, <3>1, <4>1 DEF ArtInv
  <2> QED
    BY <2>1, <2>2, <2>3, <2>4, <2>5, JobCases, Zenon
<1>3. ASSUME NEW m \in Migrations, done'[m].at # "no"
      PROVE  Good(done'[m].art)
  <2>1. CASE done'[m] = done[m]
    BY Zenon, <1>3, <2>1 DEF ArtInv
  <2>2. CASE job.op = "restore" /\ done'[m].art = job.art
    BY Zenon, <2>2 DEF ArtInv
  <2>3. CASE done[m].at \in {"ok", "verified"} /\ done'[m].art = done[m].art
    BY Zenon, <2>3 DEF ArtInv
  <2> QED
    BY Zenon, <1>3, <2>1, <2>2, <2>3, NotDoneRecord, DoneMoves DEF DoneChange
<1>4. \A m \in Migrations : artifact'[m] # None => Good(artifact[m])'
  <2> SUFFICES ASSUME NEW m \in Migrations, artifact'[m] # None
               PROVE  Good(artifact[m])'
    BY Zenon
  <2>1. PICK a : a = artifact'[m]
    BY Zenon
  <2>2. Good(a)'
    BY Zenon, <1>0, <1>1, <2>1, GoodStays
  <2> QED
    BY Zenon, <2>1, <2>2
<1>5. job'.op = "restore" => Good(job.art)'
  <2> SUFFICES ASSUME job'.op = "restore"
               PROVE  Good(job.art)'
    BY Zenon
  <2>1. PICK a : a = job'.art
    BY Zenon
  <2>2. Good(a)'
    BY Zenon, <1>0, <1>2, <2>1, GoodStays
  <2> QED
    BY Zenon, <2>1, <2>2
<1>6. \A m \in Migrations : done'[m].at # "no" => Good(done[m].art)'
  <2> SUFFICES ASSUME NEW m \in Migrations, done'[m].at # "no"
               PROVE  Good(done[m].art)'
    BY Zenon
  <2>1. PICK a : a = done'[m].art
    BY Zenon
  <2>2. Good(a)'
    BY Zenon, <1>0, <1>3, <2>1, GoodStays
  <2> QED
    BY Zenon, <2>1, <2>2
<1> QED
  BY Zenon, <1>4, <1>5, <1>6 DEF ArtInv

----------------------------------------------------------------------------
(* The invariant *)

LEMMA InitFacts ==
  ASSUME Init
  PROVE  /\ TypeOK /\ <<engine, variant>> \in Variants
         /\ ttl = "far" /\ dump = IdleDump /\ job = IdleJob
         /\ Len(oplog) = 1 /\ count["write"] = 0 /\ \A u \in Units : Seen(source[u]) = 1
         /\ grants = [u \in Units |-> {}] /\ \E t \in {Absent, Fresh} : target = [u \in Units |-> t]
         /\ \A m \in Migrations : artifact[m] = None /\ done[m].at = "no"
<1>0. /\ <<engine, variant>> \in Variants
      /\ source = [u \in Units |-> <<1, 0>>] /\ oplog = <<0>> /\ oldest = 0 /\ ttl = "far"
      /\ dump = IdleDump /\ job = IdleJob /\ MaxWrites \in Nat
  BY SMTT(30), DatabaseHostsAssumption DEF Init, Variants
<1>1. source \in [Units -> Versions] /\ \A u \in Units : Seen(source[u]) = 1
  <2>1. 1 \in 0..MaxWrites + 1 /\ 0 \in 0..MaxWrites + 1
    BY <1>0
  <2>2. <<1, 0>> \in Versions /\ Seen(<<1, 0>>) = 1
    BY Zenon, <2>1, VersionFacts
  <2> QED
    BY Zenon, <1>0, <2>2
<1>2. SourceOK
  <2>1. acl \in [Units -> Acls]
    BY Zenon DEF Init
  <2>2. oldest \in 0..MaxWrites /\ oplog \in Seq(0..3) /\ Len(oplog) = 1
    BY SMTT(30), <1>0
  <2>3. Len(oplog) \in oldest + 1 .. MaxWrites + 1
    BY SMTT(30), <1>0, <2>2
  <2> QED
    BY Zenon, <1>0, <1>1, <2>1, <2>2, <2>3 DEF SourceOK
<1>3. /\ TargetOK /\ grants = [u \in Units |-> {}] /\ \E t \in {Absent, Fresh} : target = [u \in Units |-> t]
  <2>1. PICK t \in {Absent, Fresh} : target = [u \in Units |-> t] /\ grants = [u \in Units |-> {}]
    BY Zenon DEF Init
  <2>2. t \in UnitState /\ (~t.made => t = Absent)
    BY Zenon, UnitRecords
  <2> QED
    BY Zenon, <2>1, <2>2 DEF TargetOK
<1>4. RecordsOK /\ \A m \in Migrations : artifact[m] = None
  <2>1. /\ marker = [b \in Bindings |-> [mig |-> None, empty |-> None]]
        /\ approved = [m \in Migrations |-> None] /\ artifact = [m \in Migrations |-> None]
    BY Zenon DEF Init
  <2>2. \A b \in Bindings : marker[b].mig = None
    BY Zenon, <2>1
  <2> QED
    BY Zenon, <2>1, <2>2 DEF RecordsOK
<1>5. DumpOK /\ JobOK
  BY Zenon, <1>0, IdleDumpRecord, IdleRecord DEF DumpOK, JobOK
<1>6. DoneOK /\ \A m \in Migrations : done[m].at = "no"
  <2>1. done = [m \in Migrations |-> NotDone]
    BY Zenon DEF Init
  <2> QED
    BY Zenon, <2>1, NotDoneRecord DEF DoneOK
<1>7. CountOK /\ count["write"] = 0
  <2>1. count = [e \in Events |-> 0]
    BY Zenon DEF Init, Events
  <2> QED
    BY SMTT(30), <2>1, DatabaseHostsAssumption DEF CountOK, Events
<1>8. TypeOK
  BY Zenon, <1>0, <1>2, <1>3, <1>4, <1>5, <1>6, <1>7 DEF TypeOK
<1>9. Len(oplog) = 1
  BY Zenon, <1>0
<1> QED
  BY ZenonT(40), <1>0, <1>1, <1>3, <1>4, <1>6, <1>7, <1>8, <1>9

LEMMA InitArtifacts ==
  ASSUME Init
  PROVE  ArtifactInv
<1>1. SourceInv
  <2>1. count["write"] = 0 /\ Len(oplog) = 1 /\ \A u \in Units : Seen(source[u]) = 1
    BY Zenon, InitFacts
  <2> QED
    BY <2>1 DEF SourceInv
<1>2. DumpInv
  <2>1. /\ dump.at = "idle" /\ dump.unit = 1 /\ dump.ids = {} /\ dump.want = dump.cut
        /\ \A u \in Units : dump.data[u] = Nothing /\ dump.acl[u] = {}
    BY ZenonT(40), InitFacts, IdleDumpRecord
  <2>2. SqlDumping
    BY ZenonT(40), <2>1 DEF SqlDumping, Merged
  <2>3. OplogDumping /\ RedisDumping
    BY SMTT(30), <2>1 DEF OplogDumping, RedisDumping
  <2> QED
    BY Zenon, <2>1, <2>2, <2>3 DEF DumpInv
<1>3. ArtInv
  BY Zenon, InitFacts, IdleRecord DEF ArtInv
<1> QED
  BY Zenon, <1>1, <1>2, <1>3, InitFacts DEF ArtifactInv

LEMMA ArtifactsNext == ArtifactInv /\ [Next]_vars => ArtifactInv'
<1>1. ASSUME ArtifactInv, Next
      PROVE  ArtifactInv'
  <2>1. TypeOK /\ SourceInv /\ DumpInv /\ ArtInv
    BY Zenon, <1>1 DEF ArtifactInv
  <2>2. TypeOK' /\ SourceInv' /\ DumpInv'
    BY Zenon, <1>1, <2>1, TypeNext, SourceNext, DumpNext
  <2>3. ArtInv'
    BY Zenon, <1>1, <2>1, ArtNext
  <2> QED
    BY Zenon, <2>2, <2>3 DEF ArtifactInv
<1>2. ASSUME ArtifactInv, UNCHANGED vars
      PROVE  ArtifactInv'
  <2>0. /\ UNCHANGED <<engine, variant, source, acl, oplog, oldest, ttl, target, grants>>
        /\ UNCHANGED <<marker, approved, artifact, dump, job, done, count>>
    BY Zenon, <1>2 DEF vars, hosts, atSource, atTarget, records
  <2>1. TypeOK'
    BY <1>2, <2>0, Zenon DEF ArtifactInv, TypeOK, SourceOK, TargetOK, RecordsOK, DumpOK, JobOK, DoneOK, CountOK, Scope, Last
  <2>2. SourceInv'
    BY <1>2, <2>0, Zenon DEF ArtifactInv, SourceInv, Sql
  <2>3. DumpInv'
    <3>1. SqlDumping => SqlDumping'
      BY <2>0, Zenon DEF SqlDumping, Merged, Scope, Last
    <3>2. OplogDumping => OplogDumping'
      BY <2>0, Zenon DEF OplogDumping, Logged, SeenNow
    <3>3. RedisDumping => RedisDumping'
      BY <2>0, Zenon DEF RedisDumping
    <3> QED
      BY <1>2, <2>0, <3>1, <3>2, <3>3, Zenon DEF ArtifactInv, DumpInv, Sql
  <2>a. ArtInv'
    <3>1. \A a : Good(a) => Good(a)'
      BY <2>0, ZenonT(40) DEF Good, Sql, Merged, Restored, RedisManifestDigest, Scope, Last
    <3> QED
      BY <1>2, <2>0, <3>1, Zenon DEF ArtifactInv, ArtInv
  <2> QED
    BY Zenon, <2>1, <2>2, <2>3, <2>a DEF ArtifactInv
<1> QED
  BY Zenon, <1>1, <1>2

----------------------------------------------------------------------------
(* The theorems *)

\* What every artifact holds, from the source to the outcome of its restore: versions of the source that are
\* not older than its inspection (PostgreSQL, MySQL), or a window that explains every difference (MongoDB),
\* whatever is written to the source meanwhile and wherever a host dies.
THEOREM ArtifactInvariant == Spec => []ArtifactInv
<1>1. Init => ArtifactInv
  BY Zenon, InitArtifacts
<1> QED
  BY <1>1, ArtifactsNext, PTL DEF Spec

\* The types of DatabaseMigration are kept by every primitive of the four engines and by everything that
\* happens around them: each host has at most one primitive at work, and what is not there holds nothing.
THEOREM DatabaseTypes == Spec => []TypeOK
<1>1. ArtifactInv => TypeOK
  BY Zenon DEF ArtifactInv
<1> QED
  BY <1>1, ArtifactInvariant, PTL

=============================================================================
