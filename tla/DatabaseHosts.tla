--------------------------- MODULE DatabaseHosts ---------------------------
(***************************************************************************)
(* What the database engines of internal/migration (postgres.go, mysql.go, *)
(* mongodb.go, redis.go) have in common: a live source, a target, the      *)
(* reset marker that says which migration owns the target, the artifact a  *)
(* dump leaves behind, and one primitive at work on each host.             *)
(*                                                                         *)
(* A database is a few units that are read and written one after another:  *)
(* the members of a PostgreSQL database set, the tables of a MySQL         *)
(* database, the documents of a MongoDB database, the keys of Redis, each  *)
(* in an index of its own.  The content of a unit is a pair of versions:   *)
(* what the manifests of the agent see of it, and the rest (rows outside   *)
(* the sample of PostgreSQL).  Digests are the records they are made of,   *)
(* and versions never come back.                                           *)
(***************************************************************************)
EXTENDS Naturals, Sequences, FiniteSets

CONSTANTS
  Migrations,
  None,
  BindingOf,     \* the binding each migration has for the one target
  Acls,          \* the privileges the source may have: sets of [who, opt]
  MaxWrites,     \* changes of the source or of its privileges
  MaxMishaps,    \* changes of the target by somebody else, primitives that die half way
  MaxDumps, MaxResets

VARIABLES
  engine, variant, \* which engine, and how it is configured
  source, acl,     \* content and privileges of each unit of the source
  oplog, oldest,   \* MongoDB: the units written, in order; entries rolled over
  ttl,             \* Redis: how far the volatile key (unit 2) is from its expiry
  target, grants,  \* content and privileges of each unit of the target
  marker,          \* the reset marker of each binding
  approved,        \* the empty-target digest the inspection of a migration returned
  artifact,        \* the last complete dump of each migration
  dump, job,       \* the primitive at work at the source host, at the target host
  done,            \* how the last restore of each migration ended
  count            \* how often the bounded events have happened

hosts == <<engine, variant>>
atSource == <<source, acl, oplog, oldest>>
atTarget == <<target, grants>>
records == <<marker, approved, artifact>>
vars == <<hosts, atSource, ttl, atTarget, records, dump, job, done, count>>

Units == {1, 2}
Bindings == {BindingOf[m] : m \in Migrations}
Variants == {<<"postgres", "single">>, <<"postgres", "set">>, <<"mysql", "plain">>,
             <<"mongodb", "plain">>, <<"mongodb", "oplog">>, <<"redis", "durable">>, <<"redis", "cache">>}

\* the units of the database, processed in this order
Last == IF variant = "single" THEN 1 ELSE 2
Scope == 1..Last

Nothing == <<0, 0>>                      \* no content: a deleted document, an empty database
Foreign == <<MaxWrites + 2, 0>>          \* somebody else's content
Versions == (0..MaxWrites + 1) \X (0..MaxWrites + 1)
Contents == Versions \cup {Foreign}
Seen(content) == content[1]              \* what a manifest sees

\* a privilege: who holds it and whether with grant option; the last two are target accounts
Entries == [who: {"owner", "reader", "PUBLIC", "target", "target2"}, opt: BOOLEAN]
Absent == [made |-> FALSE, val |-> Nothing, by |-> None]
Fresh == [made |-> TRUE, val |-> Nothing, by |-> None]
Holding(v, m) == [made |-> TRUE, val |-> v, by |-> m]

NotDone == [at |-> "no", art |-> None]
IdleJob == [op |-> "idle", mig |-> None, at |-> "idle", unit |-> 1, owned |-> FALSE, art |-> None]
\* want, acl: what the inspection saw; data: what has been dumped; start, end, ids: the
\* oplog window and what changed in it; cut, calm: history, the source as it was when the
\* expected manifest was complete, and (Redis) whether it has kept still since the dump began
IdleDump == [mig |-> None, at |-> "idle", unit |-> 1, want |-> [u \in Units |-> 0],
             acl |-> [u \in Units |-> {}], data |-> [u \in Units |-> Nothing],
             start |-> 0, end |-> 0, ids |-> {}, delta |-> [u \in Units |-> Nothing],
             cut |-> [u \in Units |-> 0], calm |-> TRUE]

ASSUME DatabaseHostsAssumption ==
  /\ {None, "other"} \cap Migrations = {} /\ Acls \subseteq SUBSET Entries
  /\ \A n \in {MaxWrites, MaxMishaps, MaxDumps, MaxResets} : n \in Nat

----------------------------------------------------------------------------
\* Bounded events
Happens(event, bound) == count[event] < bound /\ count' = [count EXCEPT ![event] = @ + 1]

\* The job at work moves on, to another step or another unit, or ends.
Goto(at, u) == job' = [job EXCEPT !.at = at, !.unit = u]
NextUnit(at, after) == IF job.unit < Last THEN Goto(at, job.unit + 1) ELSE Goto(after, 1)
EndJob == job' = IdleJob
StartJob(op, m, at, owned, art) ==
  /\ job = IdleJob
  /\ job' = [IdleJob EXCEPT !.op = op, !.mig = m, !.at = at, !.owned = owned, !.art = art]
JobAt(eng, op, at) == engine = eng /\ job.op = op /\ job.at = at
u_ == job.unit

DumpAt(eng, at) == engine = eng /\ dump.at = at
StartDump(m, at) ==
  /\ dump = IdleDump /\ Happens("dump", MaxDumps)
  /\ dump' = [IdleDump EXCEPT !.mig = m, !.at = at]
\* The dump at work has done its unit of this step: the next unit, or the next step.
DumpOn(rest, after) ==
  IF dump.unit < Last THEN [rest EXCEPT !.unit = @ + 1] ELSE [rest EXCEPT !.unit = 1, !.at = after]
SeenNow == [u \in Units |-> Seen(source[u])]

\* How a restore ends: it succeeds, or its verification rejects what it restored.
Verdict(ok) ==
  done' = [done EXCEPT ![job.mig] = [at |-> IF ok THEN "ok" ELSE "rejected", art |-> job.art]]
\* A new reset or restore of m: the outcome of the last restore no longer counts.
Forget(m) == done' = [done EXCEPT ![m] = NotDone]
\* A verify primitive of m, which is given the manifest of the artifact m restored.
Verified(m, ok) ==
  /\ job = IdleJob /\ done[m].at \in {"ok", "verified"}
  /\ done' = [done EXCEPT ![m].at = IF ok THEN "verified" ELSE "failed"]

\* The result of a complete dump, as the backend hands it to the restore.
Complete(d) ==
  /\ artifact' = [artifact EXCEPT ![d.mig] =
       [want |-> d.want, acl |-> d.acl, data |-> d.data, ids |-> d.ids, delta |-> d.delta,
        cut |-> d.cut, calm |-> d.calm]]
  /\ dump' = IdleDump

----------------------------------------------------------------------------
LoadMarker(m) == marker[BindingOf[m]]

\* mutant: the marker of any migration will do
OwnedByRun_ByAnyone(m) == LoadMarker(m).empty = approved[m]

\* The approval rule every reset applies: the target is the approved empty one, or the
\* marker shows that this migration reset it before, from the same approval.
OwnedByRun(m) == LoadMarker(m).mig = m /\ LoadMarker(m).empty = approved[m]
Approves(m, empty, digest) == (empty /\ digest = approved[m]) \/ OwnedByRun(m)

SaveMarker(m) == marker' = [marker EXCEPT ![BindingOf[m]] = [mig |-> m, empty |-> approved[m]]]

----------------------------------------------------------------------------
\* Everything around the primitives
Init ==
  /\ \E v \in Variants : engine = v[1] /\ variant = v[2]
  /\ source = [u \in Units |-> <<1, 0>>]
  /\ acl \in {[u \in Units |-> a] : a \in Acls}
  /\ oplog = <<0>> /\ oldest = 0 /\ ttl = "far"
  /\ \E t \in {Absent, Fresh} :
       /\ t = Absent => engine \in {"postgres", "mysql"}
       /\ target = [u \in Units |-> t]
  /\ grants = [u \in Units |-> {}]
  /\ marker = [b \in Bindings |-> [mig |-> None, empty |-> None]]
  /\ approved = [m \in Migrations |-> None]
  /\ artifact = [m \in Migrations |-> None]
  /\ dump = IdleDump /\ job = IdleJob
  /\ done = [m \in Migrations |-> NotDone]
  /\ count = [e \in {"write", "foreign", "interrupt", "dump", "reset"} |-> 0]

\* A client of the source changes a unit, where a manifest sees it or (PostgreSQL) not;
\* documents and keys may also be deleted.  What happens to the source between dumps is
\* of no consequence: a dump begins with whatever it finds.
SourceWrite(u, v) ==
  /\ dump # IdleDump /\ u \in Scope /\ Happens("write", MaxWrites)
  /\ engine = "redis" /\ u = 2 => ttl # "gone"
  /\ \/ v = <<count["write"] + 2, 0>>
     \/ v = <<Seen(source[u]), count["write"] + 2>> /\ engine = "postgres"
     \/ v = Nothing /\ source[u] # Nothing /\ engine \in {"mongodb", "redis"}
  /\ source' = [source EXCEPT ![u] = v]
  /\ oplog' = IF variant = "oplog" THEN Append(oplog, u) ELSE oplog
  /\ dump' = [dump EXCEPT !.calm = engine # "redis"]
  /\ UNCHANGED <<hosts, acl, oldest, ttl, atTarget, records, job, done>>

\* An administrator changes the privileges of a unit of the source.
SourceAcl(u, a) ==
  /\ dump # IdleDump /\ engine # "redis" /\ u \in (IF engine = "postgres" THEN Scope ELSE {1}) /\ a # acl[u]
  /\ Happens("write", MaxWrites)
  /\ acl' = [acl EXCEPT ![u] = a]
  /\ UNCHANGED <<hosts, source, oplog, oldest, ttl, atTarget, records, dump, job, done>>

\* The oplog of the source loses all entries but the last; or a command is logged in it.
OplogMoves ==
  /\ dump # IdleDump /\ variant = "oplog"
  /\ \/ oldest + 1 < Len(oplog) /\ oldest' = Len(oplog) - 1 /\ UNCHANGED <<oplog, count>>
     \/ Happens("write", MaxWrites) /\ oplog' = Append(oplog, 3) /\ UNCHANGED oldest
  /\ UNCHANGED <<hosts, source, acl, ttl, atTarget, records, dump, job, done>>

\* Somebody else writes to the target.
ForeignWrite(u) ==
  /\ u \in Scope /\ target[u].made /\ Happens("foreign", MaxMishaps - count["interrupt"])
  /\ target' = [target EXCEPT ![u] = Holding(Foreign, "other")]
  /\ UNCHANGED <<hosts, atSource, ttl, grants, records, dump, job, done>>

\* Time passes for the volatile key: at its expiry it is gone from both servers.
KeyAges ==
  /\ engine = "redis" /\ ttl # "gone"
  /\ ttl' = IF ttl = "far" THEN "near" ELSE "gone"
  /\ IF ttl' = "gone"
       THEN /\ source' = [source EXCEPT ![2] = Nothing]
            /\ target' = IF target[2].val # Foreign THEN [target EXCEPT ![2] = Fresh] ELSE target
       ELSE UNCHANGED <<source, target>>
  /\ UNCHANGED <<hosts, acl, oplog, oldest, grants, records, dump, job, done, count>>

\* A primitive fails or its agent dies: what it has done so far stays.
Interrupt ==
  /\ Happens("interrupt", MaxMishaps - count["foreign"])
  /\ \/ job # IdleJob /\ job' = IdleJob /\ UNCHANGED dump
     \/ dump # IdleDump /\ dump' = IdleDump /\ UNCHANGED job
  /\ UNCHANGED <<hosts, atSource, ttl, atTarget, records, done>>

Environment ==
  \/ \E u \in Units, v \in Contents : SourceWrite(u, v)
  \/ \E u \in Units, a \in Acls : SourceAcl(u, a)
  \/ \E u \in Units : ForeignWrite(u)
  \/ OplogMoves \/ KeyAges \/ Interrupt
=============================================================================
