---------------------------- MODULE RedisTarget ----------------------------
(***************************************************************************)
(* The Redis and Valkey primitives (internal/migration/redis.go).  A unit  *)
(* is a key, each in a database index of its own; unit 2 is volatile.  The *)
(* dump reads key by key and its manifest is made from what it read: no    *)
(* second look at the source tells whether it kept still.  In cache mode   *)
(* no key is copied.  Roles are not copied: the ACL policy of the two      *)
(* servers must agree and is left out.                                     *)
(***************************************************************************)
EXTENDS DatabaseHosts

RedisEmpty == \A u \in Units : target[u].val = Nothing
RedisEmptyTargetDigest == [empty |-> RedisEmpty]

\* redisManifestDigest: in cache mode it does not cover the keys
RedisManifestDigest(keys) == IF variant = "cache" THEN [u \in Units |-> 0] ELSE keys

RedisInspect(m) ==
  /\ engine = "redis" /\ job = IdleJob /\ approved[m] = None
  /\ RedisEmpty
  /\ approved' = [approved EXCEPT ![m] = RedisEmptyTargetDigest]
  /\ UNCHANGED <<hosts, atSource, ttl, atTarget, marker, artifact, dump, job, done, count>>

----------------------------------------------------------------------------
RedisDump(m) ==
  /\ engine = "redis" /\ StartDump(m, "scan")
  /\ UNCHANGED <<hosts, atSource, ttl, atTarget, records, job, done>>

\* scanRedisRecords: a record for the next key if it is still there, none in cache mode
ScanRedisRecords(d) ==
  [d EXCEPT !.data[d.unit] = IF variant = "cache" THEN Nothing ELSE source[d.unit]]

\* writeRedisArchive: the records, and at the end the manifest made from them
WriteRedisArchive ==
  /\ DumpAt("redis", "scan")
  /\ LET d == ScanRedisRecords(dump)
         want == RedisManifestDigest([u \in Units |-> Seen(d.data[u])])
     IN IF dump.unit < Last
          THEN dump' = DumpOn(d, "scan") /\ UNCHANGED artifact
          ELSE Complete([d EXCEPT !.want = want, !.cut = RedisManifestDigest(SeenNow)])
  /\ UNCHANGED <<hosts, atSource, ttl, atTarget, marker, approved, job, done, count>>

----------------------------------------------------------------------------
RedisReset(m) ==
  /\ engine = "redis" /\ approved[m] # None
  /\ Happens("reset", MaxResets)
  /\ Approves(m, RedisEmpty, RedisEmptyTargetDigest)
  /\ StartJob("reset", m, "flush", FALSE, None)
  /\ Forget(m)
  /\ UNCHANGED <<hosts, atSource, ttl, atTarget, records, dump>>

\* flushRedisDatabases, index by index: for a reset, or for a restore that finds keys
FlushRedisDatabases ==
  /\ engine = "redis" /\ job.at = "flush"
  /\ target' = [target EXCEPT ![u_] = Fresh]
  /\ NextUnit("flush", IF job.op = "reset" THEN "mark" ELSE "flushed")
  /\ UNCHANGED <<hosts, atSource, ttl, grants, records, dump, done, count>>

RedisResetMark ==
  /\ JobAt("redis", "reset", "mark")
  /\ SaveMarker(job.mig)
  /\ EndJob
  /\ UNCHANGED <<hosts, atSource, ttl, atTarget, approved, artifact, dump, done, count>>

----------------------------------------------------------------------------
\* readRedisArchive: the keys the archive has a record of
ReadRedisArchive(art) == {u \in Units : art.data[u] # Nothing}
\* the volatile key of the archive is too near its expiry
RedisTooNear(art) == 2 \in ReadRedisArchive(art) /\ ttl # "far"
RedisExpired(art) == 2 \in ReadRedisArchive(art) /\ ttl = "gone"

RedisRestore(m) ==
  /\ engine = "redis" /\ artifact[m] # None
  /\ LoadMarker(m).mig = m
  /\ ~RedisTooNear(artifact[m])
  /\ StartJob("restore", m, IF RedisEmpty THEN "load" ELSE "flush", FALSE, artifact[m])
  /\ Forget(m)
  /\ UNCHANGED <<hosts, atSource, ttl, atTarget, records, dump, count>>

\* the flushed target must be the empty target the reset was approved for
RedisRetryReset ==
  /\ JobAt("redis", "restore", "flushed")
  /\ IF RedisEmpty /\ RedisEmptyTargetDigest = LoadMarker(job.mig).empty
       THEN Goto("load", 1)
       ELSE EndJob
  /\ UNCHANGED <<hosts, atSource, ttl, atTarget, records, dump, done, count>>

\* RESTORE refuses a key that exists; the archive skips keys the source did not have
RedisRestoreLoad ==
  /\ JobAt("redis", "restore", "load")
  /\ \/ /\ u_ \notin ReadRedisArchive(job.art)
        /\ NextUnit("load", "verify") /\ UNCHANGED target
     \/ /\ u_ \in ReadRedisArchive(job.art) /\ target[u_].val = Nothing /\ (u_ = 2 => ttl # "gone")
        /\ target' = [target EXCEPT ![u_] = Holding(job.art.data[u_], job.mig)]
        /\ NextUnit("load", "verify")
     \/ /\ u_ \in ReadRedisArchive(job.art) /\ (target[u_].val # Nothing \/ (u_ = 2 /\ ttl = "gone"))
        /\ EndJob /\ UNCHANGED target
  /\ UNCHANGED <<hosts, atSource, ttl, grants, records, dump, done, count>>

\* verifyRedisArchiveTarget: every key of the archive that has not expired is there, and no other
VerifyRedisArchiveTarget(art) ==
  \A u \in Units :
    target[u].val = IF u = 2 /\ RedisExpired(art) THEN Nothing ELSE art.data[u]

RedisManifestMatches(art) ==
  /\ VerifyRedisArchiveTarget(art)
  /\ RedisManifestDigest([u \in Units |-> Seen(target[u].val)]) = art.want

RedisRestoreVerify ==
  /\ JobAt("redis", "restore", "verify")
  /\ EndJob
  /\ Verdict(RedisManifestMatches(job.art))
  /\ UNCHANGED <<hosts, atSource, ttl, atTarget, records, dump, count>>

RedisVerify(m) ==
  /\ engine = "redis" /\ Verified(m, RedisManifestMatches(done[m].art))
  /\ UNCHANGED <<hosts, atSource, ttl, atTarget, records, dump, job, count>>

RedisNext ==
  \/ \E m \in Migrations :
       RedisInspect(m) \/ RedisDump(m) \/ RedisReset(m) \/ RedisRestore(m) \/ RedisVerify(m)
  \/ WriteRedisArchive \/ FlushRedisDatabases \/ RedisResetMark
  \/ RedisRetryReset \/ RedisRestoreLoad \/ RedisRestoreVerify
=============================================================================
