---------------------- MODULE DatabaseMigrationProofs ----------------------
(***************************************************************************)
(* Proofs about the target side of DatabaseMigration: that the reset of a  *)
(* database set can be repeated, that what is restored is a state of the   *)
(* source, that no migration destroys what another one restored, and that  *)
(* only what has drifted is rejected.                                      *)
(*                                                                         *)
(* The inductive invariant follows an artifact to the verdict.             *)
(* RestoreInv: what a restore at work has put into the target.  HostInv    *)
(* and OwnInv: who can have touched the target; a restore needs the marker *)
(* of its own reset, so it finds and leaves its own work only.  DoneInv:   *)
(* what is left of a restore when it is done, while nobody interferes.     *)
(***************************************************************************)
EXTENDS DatabaseArtifactProofs

\* The units a restore at work has loaded; and (PostgreSQL) given their privileges.
Loaded(u) ==
  \/ job.at = "load" /\ u < job.unit
  \/ job.at \in {"acl", "check"} /\ u <= job.unit
  \/ job.at \in {"grant", "verify"}
Granted(u) ==
  \/ job.at \in {"load", "acl"} /\ u < job.unit
  \/ job.at = "check" /\ u <= job.unit
  \/ job.at = "verify"

\* The privileges of a PostgreSQL target are those of the artifact, as far as its digest tells.
OwnerEntry == [who |-> "target", opt |-> FALSE]
SamePrivileges(entries, privileges) ==
  InspectPostgresPrivileges(entries) \ {OwnerEntry} = privileges \ {OwnerEntry}

PostgresInv ==
  /\ \A u \in Units : target[u].val = Nothing => grants[u] \subseteq DefaultACL
  /\ job.op = "restore" /\ job.at = "acl" => grants[job.unit] \subseteq DefaultACL
  /\ job.op = "restore" => \A u \in Scope :
       /\ Loaded(u) => target[u].made /\ target[u].val \in {job.art.data[u], Foreign}
       /\ Granted(u) => SamePrivileges(grants[u], job.art.acl[u])

MySQLInv ==
  /\ grants[1] # {} => \A u \in Units : target[u].val # Nothing
  /\ job.op = "reset" /\ job.at \in {"drop", "create", "mark"} => grants[1] = {}
  /\ job.op = "restore" =>
       /\ \A u \in Units : Loaded(u) => target[u].val \in {job.art.data[u], Foreign}
       /\ job.at = "load" => grants[1] = {}
       /\ job.at = "grant" => grants[1] \subseteq job.art.acl[1]
       /\ job.at = "verify" => grants[1] = job.art.acl[1]

MongoDBInv ==
  job.op = "restore" /\ count["foreign"] = 0 =>
    /\ job.at = "load" => \A u \in Units :
         target[u] = IF u < job.unit THEN Holding(job.art.data[u], job.mig) ELSE Fresh
    /\ job.at = "delta" => \A u \in Units :
         target[u] = Holding(IF u < job.unit THEN Restored(job.art, u) ELSE job.art.data[u], job.mig)
    /\ job.at \in {"identities", "verify"} =>
         \A u \in Units : target[u] = Holding(Restored(job.art, u), job.mig)
    /\ job.at = "verify" => grants[1] = job.art.acl[1]

RedisInv ==
  job.op = "restore" /\ count["foreign"] = 0 /\ ttl # "gone" =>
    /\ job.at = "load" => \A u \in Units :
         target[u].val = IF u < job.unit THEN job.art.data[u] ELSE Nothing
    /\ job.at = "verify" => \A u \in Units : target[u].val = job.art.data[u]

RestoreInv ==
  /\ engine = "postgres" => PostgresInv
  /\ engine = "mysql" => MySQLInv
  /\ engine = "mongodb" => MongoDBInv
  /\ engine = "redis" => RedisInv

\* A set is reset only with its marker; what verification accepted had not drifted.
SetInv == variant = "set" /\ job.op = "reset" => OwnedByRun(job.mig)
CutInv ==
  \A m \in Migrations : Sql /\ done[m].at \in {"ok", "verified"} =>
    \A u \in Scope : done[m].art.want[u] = done[m].art.cut[u]

\* Keys expire in Redis only; the tables of MySQL share a database; no primitive touches a unit that is not
\* of the database, and what is somebody else's came from somebody else.
HostInv ==
  /\ engine # "redis" => ttl = "far"
  /\ engine = "mysql" => target[1].made = target[2].made
  /\ \A u \in Units : target[u].by \in Migrations => u \in Scope
  /\ count["foreign"] = 0 => \A u \in Units : target[u].val # Foreign

IInv == TypeOK /\ SourceInv /\ DumpInv /\ ArtInv /\ RestoreInv /\ SetInv /\ CutInv /\ HostInv

----------------------------------------------------------------------------
\* What a migration has restored carries its marker; no other one with its binding is at work on it, and one
\* with another binding only when it has its marker there.
Entitled(m, n) == m = n \/ (BindingOf[m] # BindingOf[n] /\ LoadMarker(m).mig = m)

OwnInv ==
  /\ \A u \in Units : target[u].by \in Migrations =>
       /\ LoadMarker(target[u].by).mig = target[u].by
       /\ job.op # "idle" => Entitled(job.mig, target[u].by)
       /\ engine # "mongodb" => target[u].val # Nothing
  /\ job.op = "restore" => LoadMarker(job.mig).mig = job.mig
  /\ job.op # "idle" => done[job.mig].at = "no"

\* What the engine compares with the manifest of the artifact.
Matches(a) ==
  /\ engine = "postgres" => PostgresManifestMatches(a)
  /\ engine = "mysql" => MySQLManifestMatches(a)
  /\ engine = "mongodb" => MongoDBManifestMatches(a)
  /\ engine = "redis" => RedisManifestMatches(a)

\* What was verified still matches, until another migration marks the target: nobody else is at work on it,
\* but for a reset of a Redis target that was empty anyway.
Intact(m) ==
  /\ Matches(done[m].art)
  /\ engine = "mongodb" => \A u \in Units : target[u].by = m
  /\ job.op # "idle" => engine = "redis" /\ job.op = "reset" /\ RedisEmpty

DoneInv ==
  \A m \in Migrations :
    done[m].at \in {"ok", "verified"} /\ count["foreign"] = 0 /\ ~TakenOver(m) /\ ttl # "gone" => Intact(m)

----------------------------------------------------------------------------
(* Resets of a database set *)

LEMMA SetNext ==
  TypeOK /\ SetInv /\ Next => SetInv'
<1>InspectsIdle. Inspects => job = IdleJob
  BY Zenon DEF Inspects, PostgresInspect, MySQLInspect, MongoDBInspect, RedisInspect
<1> SUFFICES ASSUME TypeOK, SetInv, Next
             PROVE  SetInv'
  BY Zenon
<1> SUFFICES ASSUME variant' = "set", job'.op = "reset"
             PROVE  OwnedByRun(job.mig)'
  BY Zenon DEF SetInv
<1>0. variant = "set" /\ JobOK /\ RecordsOK /\ engine = "postgres"
  BY Zenon, HostsStay, HostFacts DEF TypeOK
<1>1. CASE \E m \in Migrations : PostgresResetDatabaseSet(m) /\ SaveMarker(m)
  <2>1. PICK m \in Migrations : PostgresResetDatabaseSet(m) /\ SaveMarker(m)
    BY Zenon, <1>1
  <2>2. job'.mig = m /\ UNCHANGED approved
    <3>1. StartJob("reset", m, "drop", FALSE, None) /\ UNCHANGED approved
      BY Zenon, <2>1 DEF PostgresResetDatabaseSet
    <3>2. "drop" \in JobSteps
      BY Zenon DEF JobSteps
    <3> QED
      BY Zenon, <3>1, <3>2, StartRecord
  <2>3. marker' = [marker EXCEPT ![BindingOf[m]] = [mig |-> m, empty |-> approved[m]]] /\ BindingOf[m] \in DOMAIN marker
    BY Zenon, <1>0, <2>1 DEF SaveMarker, RecordsOK, Bindings
  <2>4. marker'[BindingOf[m]] = [mig |-> m, empty |-> approved[m]]
    BY Zenon, <2>3
  <2>5. marker'[BindingOf[m]].mig = m /\ marker'[BindingOf[m]].empty = approved[m]
    BY <2>4
  <2> QED
    BY Zenon, <2>2, <2>5 DEF OwnedByRun, LoadMarker
<1>2. CASE ~(\E m \in Migrations : PostgresResetDatabaseSet(m) /\ SaveMarker(m))
  <2>1. job.op = "reset" /\ job'.mig = job.mig
    <3>1. ~ResetStarts
      <4>1. ASSUME ResetStarts
            PROVE  \E m \in Migrations : PostgresResetDatabaseSet(m)
        BY Zenon, <1>0, <4>1 DEF ResetStarts, PostgresReset, MySQLReset, MongoDBReset, RedisReset
      <4> QED
        BY Zenon, <1>2, <4>1 DEF PostgresResetDatabaseSet
    <3>2. ~EndJob
      BY Zenon, IdleRecord DEF EndJob
    <3>3. ~JobStarts("restore")
      <4>1. ASSUME JobStarts("restore")
            PROVE  job'.op = "restore"
        BY SMTT(30), <4>1, StartRecord DEF JobStarts
      <4> QED
        BY Zenon, <4>1
    <3>4. JobGoes => job'.op = job.op /\ job'.mig = job.mig
      <4>1. \A u \in Scope : u \in Units
        BY Zenon, HostFacts DEF TypeOK
      <4> QED
        BY Zenon, <1>0, <4>1, GotoRecord DEF JobGoes, JobOK
    <3> QED
      BY ZenonT(40), <3>1, <3>2, <3>3, <3>4, JobCases
  <2>2. job # IdleJob
    BY Zenon, <2>1, IdleRecord
  <2>3. UNCHANGED approved
    BY Zenon, <2>2, ApprovedMoves, <1>InspectsIdle
  <2>4. UNCHANGED marker
    BY Zenon, <1>2, IdleRecord, MarkerMoves DEF EndJob
  <2>5. OwnedByRun(job.mig)
    BY Zenon, <1>0, <2>1 DEF SetInv
  <2> QED
    BY Zenon, <2>1, <2>3, <2>4, <2>5 DEF OwnedByRun, LoadMarker
<1> QED
  BY Zenon, <1>1, <1>2

----------------------------------------------------------------------------
(* Privileges of a PostgreSQL target *)

----------------------------------------------------------------------------
(* The PostgreSQL target *)

\* No content of a good artifact is empty, or somebody else's.
LEMMA GoodData ==
  ASSUME TypeOK, Sql, NEW a \in Artifacts, Good(a), NEW u \in Scope
  PROVE  /\ a.data[u] # Nothing /\ a.data[u] # Foreign /\ u \in Units
         /\ \A c \in {a.data[u], Foreign} : c # Nothing /\ (Seen(c) = a.want[u] => a.want[u] = a.cut[u])
<1>1. u \in Units /\ a.data[u] \in Versions /\ a.want[u] \in Nat /\ a.cut[u] \in Nat /\ MaxWrites \in Nat
  BY SMTT(30), HostFacts, ArtifactRecord, DatabaseHostsAssumption DEF TypeOK
<1>2. 1 <= a.want[u] /\ a.want[u] <= a.cut[u] /\ a.cut[u] <= Seen(a.data[u])
  BY Zenon DEF Good
<1>3. Seen(a.data[u]) \in 0..MaxWrites + 1 /\ a.data[u] # Foreign
  BY Zenon, <1>1, VersionFacts
<1>4. Seen(Foreign) = MaxWrites + 2 /\ Seen(Nothing) = 0 /\ Foreign # Nothing
  BY Zenon, VersionFacts
<1>5. a.data[u] # Nothing
  BY SMTT(30), <1>1, <1>2, <1>4
<1>6. Seen(a.data[u]) = a.want[u] => a.want[u] = a.cut[u]
  BY SMTT(30), <1>1, <1>2
<1>7. Seen(Foreign) # a.want[u]
  BY SMTT(30), <1>1, <1>2, <1>3, <1>4
<1> QED
  BY Zenon, <1>1, <1>3, <1>4, <1>5, <1>6, <1>7

----------------------------------------------------------------------------
(* The MySQL target *)

----------------------------------------------------------------------------
(* The MongoDB target *)

\* While nobody else writes to the target, nobody has.
LEMMA NoForeign ==
  ASSUME TypeOK, Next, count'["foreign"] = 0
  PROVE  count["foreign"] = 0 /\ ~ForeignWrites
<1>1. CountOK /\ "foreign" \in Events /\ count["foreign"] \in Nat
  BY Zenon DEF TypeOK, CountOK, Events
<1>2. count["foreign"] = 0
  <2>1. count'["foreign"] >= count["foreign"]
    BY Zenon, <1>1, NextCounts
  <2> QED
    BY SMTT(30), <1>1, <2>1
<1>3. ForeignWrites => \E b : Happens("foreign", b)
  BY Zenon DEF ForeignWrites, ForeignWrite
<1>4. ForeignWrites => count'["foreign"] = count["foreign"] + 1
  BY Zenon, <1>1, <1>3, Counted
<1> QED
  BY SMTT(30), <1>2, <1>4

----------------------------------------------------------------------------
(* The Redis target *)

LEMMA RestoreNext ==
  TypeOK /\ ArtInv /\ RestoreInv /\ Next => RestoreInv'
<1>DocumentFacts.
      ASSUME TypeOK, engine \in {"mongodb", "redis"}, job.op = "restore"
      PROVE  /\ Last = 2 /\ Scope = Units /\ Units = {1, 2} /\ job \in Jobs /\ job.unit \in Units
             /\ target \in [Units -> UnitState] /\ grants \in [Units -> SUBSET Entries] /\ job.art \in Artifacts
  <2> USE <1>DocumentFacts
  <2>1. variant # "single"
    BY Zenon, HostFacts DEF TypeOK
  <2>2. Last = 2 /\ Scope = Units /\ Units = {1, 2}
    BY Zenon, <2>1, HostFacts DEF TypeOK
  <2>3. job \in Jobs /\ job.unit \in Scope /\ job.art \in Artifacts
    BY Zenon, IdleRecord DEF TypeOK, JobOK
  <2>4. target \in [Units -> UnitState] /\ grants \in [Units -> SUBSET Entries]
    BY Zenon DEF TypeOK, TargetOK
  <2> QED
    BY Zenon, <2>2, <2>3, <2>4
<1>PostgresInvNext.
        TypeOK /\ ArtInv /\ PostgresInv /\ engine = "postgres" /\ Next => PostgresInv'
      \* Merged entries are their own inspection.
  <2>InspectMerged.
        ASSUME NEW q \in SUBSET Entries, \A e, f \in q : e.who = f.who => e = f,
               \A e \in q : e.who \notin {"owner", "reader"}
        PROVE  InspectPostgresPrivileges(q) = q
    <3> USE <2>InspectMerged
    <3> DEFINE N(w) == NormalizePostgresACLGrantee(w)
               O(w) == \E e \in q : N(e.who) = w /\ e.opt
    <3>1. \A e \in q : N(e.who) = e.who
      BY Zenon DEF NormalizePostgresACLGrantee, RoleMap
    <3>2. \A e \in q : O(e.who) = e.opt
      <4> SUFFICES ASSUME NEW e \in q
                   PROVE  O(e.who) = e.opt
        BY Zenon
      <4>1. e.opt \in BOOLEAN
        BY Zenon, EntryFacts
      <4>2. e.opt => O(e.who)
        BY Zenon, <3>1
      <4>3. O(e.who) => e.opt
        BY Zenon, <3>1
      <4> QED
        BY Zenon, <4>1, <4>2, <4>3
    <3>3. \A e \in q : [who |-> e.who, opt |-> O(e.who)] = e
      BY ZenonT(40), <3>2, EntryFacts
    <3>4. {N(e.who) : e \in q} = {e.who : e \in q}
      BY <3>1
    <3>5. InspectPostgresPrivileges(q) = {[who |-> w, opt |-> O(w)] : w \in {e.who : e \in q}}
      BY Zenon, <3>4 DEF InspectPostgresPrivileges
    <3> HIDE DEF N, O
    <3>6. ASSUME NEW x \in InspectPostgresPrivileges(q)
          PROVE  x \in q
      <4>1. PICK e \in q : x = [who |-> e.who, opt |-> O(e.who)]
        BY Zenon, <3>5, <3>6
      <4> QED
        BY Zenon, <3>3, <4>1
    <3>7. ASSUME NEW e \in q
          PROVE  e \in InspectPostgresPrivileges(q)
      <4>1. [who |-> e.who, opt |-> O(e.who)] \in InspectPostgresPrivileges(q)
        BY ZenonT(40), <3>5
      <4> QED
        BY Zenon, <3>3, <4>1
    <3> QED
      BY Zenon, <3>6, <3>7
  \* applyPostgresACL on a database as it was created gives what was inspected at the source, but for what
  \* the owner has anyway.
  <2>ApplyMerged.
        ASSUME NEW old, old \subseteq DefaultACL, NEW p \in SUBSET Entries, \A e, f \in p : e.who = f.who => e = f,
               \A e \in p : e.who \notin {"owner", "reader"}
        PROVE  SamePrivileges(ApplyPostgresACL(old, p), p)
    <3> USE <2>ApplyMerged
    <3> DEFINE K == {e \in old : e.who # "PUBLIC"}
               O(w) == \E e \in K \cup p : e.who = w /\ e.opt
               Q == ApplyPostgresACL(old, p)
    <3>1. OwnerEntry \in Entries /\ OwnerEntry.who = "target" /\ OwnerEntry.opt = FALSE
      BY Zenon, EntryFacts DEF OwnerEntry
    <3>2. \A e \in K : e = OwnerEntry
      <4>1. \A e \in DefaultACL : e.who # "PUBLIC" => e = OwnerEntry
        BY DEF DefaultACL, OwnerEntry
      <4> QED
        BY Zenon, <4>1
    <3>3. Q = {[who |-> e.who, opt |-> O(e.who)] : e \in K \cup p}
      BY Zenon DEF ApplyPostgresACL
    <3>4. \A e \in p : O(e.who) = e.opt
      <4> SUFFICES ASSUME NEW e \in p
                   PROVE  O(e.who) = e.opt
        BY Zenon
      <4>1. e.opt \in BOOLEAN
        BY Zenon, EntryFacts
      <4>2. e.opt => O(e.who)
        BY Zenon
      <4>3. O(e.who) => e.opt
        <5>1. SUFFICES ASSUME NEW f \in K \cup p, f.who = e.who, f.opt
                       PROVE  e.opt
          BY Zenon
        <5>2. f \in p
          BY Zenon, <3>1, <3>2, <5>1
        <5> QED
          BY Zenon, <5>1, <5>2
      <4> QED
        BY Zenon, <4>1, <4>2, <4>3
    <3>5. (\A e \in p : e.who # "target") => O("target") = FALSE
      BY Zenon, <3>1, <3>2
    <3> HIDE DEF O, Q
    <3>6. \A e \in p : [who |-> e.who, opt |-> O(e.who)] = e
      <4> SUFFICES ASSUME NEW e \in p
                   PROVE  [who |-> e.who, opt |-> O(e.who)] = e
        BY Zenon
      <4>1. e = [who |-> e.who, opt |-> e.opt]
        BY Zenon, EntryFacts
      <4> QED
        BY Zenon, <3>4, <4>1
    <3>7. ASSUME NEW x \in Q
          PROVE  x \in p \/ (x = OwnerEntry /\ \A e \in p : e.who # "target")
      <4>1. PICK e \in K \cup p : x = [who |-> e.who, opt |-> O(e.who)]
        BY Zenon, <3>3, <3>7
      <4>2. CASE e \in p
        BY ZenonT(40), <3>6, <4>1, <4>2
      <4>3. CASE e \in K
        <5>1. x = [who |-> "target", opt |-> O("target")]
          BY Zenon, <3>1, <3>2, <4>1, <4>3
        <5>2. CASE \E f \in p : f.who = "target"
          <6>1. PICK f \in p : f.who = "target"
            BY Zenon, <5>2
          <6> QED
            BY Zenon, <3>6, <5>1, <6>1
        <5>3. CASE \A f \in p : f.who # "target"
          BY Zenon, <3>5, <5>1, <5>3 DEF OwnerEntry
        <5> QED
          BY Zenon, <5>2, <5>3
      <4> QED
        BY Zenon, <4>1, <4>2, <4>3
    <3>8. ASSUME NEW e \in p
          PROVE  e \in Q
      <4>1. [who |-> e.who, opt |-> O(e.who)] \in Q
        BY Zenon, <3>3
      <4> QED
        BY Zenon, <3>6, <4>1
    <3>9. Q \in SUBSET Entries /\ \A e \in Q : e.who \notin {"owner", "reader"}
      BY Zenon, <3>1, <3>7
    <3>10. \A e, f \in Q : e.who = f.who => e = f
      BY Zenon, <3>1, <3>7
    <3>11. InspectPostgresPrivileges(Q) = Q
      BY Zenon, <3>9, <3>10, <2>InspectMerged
    <3>12. Q \ {OwnerEntry} = p \ {OwnerEntry}
      BY Zenon, <3>7, <3>8
    <3> QED
      BY Zenon, <3>11, <3>12 DEF SamePrivileges, Q
  <2>PostgresLoadNext.
        ASSUME TypeOK, ArtInv, PostgresInv, PostgresRestoreLoad
        PROVE  PostgresInv'
    <3> USE <2>PostgresLoadNext
    <3>0. /\ engine = "postgres" /\ job.op = "restore" /\ job.at = "load" /\ job.op # "idle"
          /\ UNCHANGED <<engine, variant, grants>> /\ job \in Jobs /\ job.unit \in Scope /\ job.unit \in Units
          /\ target \in [Units -> UnitState] /\ Scope' = Scope /\ Scope \subseteq Units /\ Scope = 1..Last /\ Last \in {1, 2}
      <4>1. engine = "postgres" /\ job.op = "restore" /\ job.at = "load" /\ UNCHANGED <<engine, variant, grants>>
        BY Zenon DEF PostgresRestoreLoad, JobAt, hosts
      <4>2. job \in Jobs /\ job.unit \in Scope /\ target \in [Units -> UnitState]
        BY Zenon, <4>1, IdleRecord DEF TypeOK, JobOK, TargetOK
      <4>3. Scope \subseteq Units /\ Last \in {1, 2}
        BY Zenon, HostFacts DEF TypeOK
      <4> QED
        BY Zenon, <4>1, <4>2, <4>3 DEF Scope, Last
    <3>1. CASE target[job.unit] = Fresh
      <4>1. target' = [target EXCEPT ![job.unit] = Holding(job.art.data[job.unit], job.mig)] /\ Goto("acl", job.unit)
        BY Zenon, <3>1 DEF PostgresRestoreLoad, u_
      <4>2. /\ job'.at = "acl" /\ job'.unit = job.unit /\ job'.op = job.op /\ job'.art = job.art
        BY Zenon, <3>0, <4>1, GotoRecord DEF JobSteps
      <4>3. /\ \A u \in Units : u # job.unit => target'[u] = target[u]
            /\ target'[job.unit].made /\ target'[job.unit].val = job.art.data[job.unit]
        BY SMTT(30), <3>0, <4>1, UnitRecords
      <4>4. grants[job.unit] \subseteq DefaultACL
        BY Zenon, <3>0, <3>1, UnitRecords DEF PostgresInv
      <4>5. \A u \in Scope : (Loaded(u)' => Loaded(u) \/ u = job.unit) /\ (Granted(u)' => Granted(u))
        BY SMTT(30), <3>0, <4>2 DEF Loaded, Granted
      <4>6. \A u \in Scope : Loaded(u)' => target'[u].made /\ target'[u].val \in {job.art.data[u], Foreign}
        BY Zenon, <3>0, <4>3, <4>5 DEF PostgresInv
      <4>7. \A u \in Scope : Granted(u)' => SamePrivileges(grants[u], job.art.acl[u])
        BY Zenon, <3>0, <4>5 DEF PostgresInv
      <4>8. \A u \in Units : target'[u].val = Nothing => grants[u] \subseteq DefaultACL
        BY Zenon, <3>0, <4>3, <4>4 DEF PostgresInv
      <4> QED
        BY ZenonT(40), <3>0, <4>2, <4>4, <4>6, <4>7, <4>8 DEF PostgresInv, SamePrivileges
    <3>2. CASE target[job.unit] # Fresh
      <4>1. job'.op = "idle" /\ UNCHANGED target
        BY Zenon, <3>2, IdleRecord DEF PostgresRestoreLoad, u_, EndJob
      <4> QED
        BY Zenon, <3>0, <4>1 DEF PostgresInv
    <3> QED
      BY Zenon, <3>1, <3>2
  <2>PostgresACLNext.
        ASSUME TypeOK, ArtInv, PostgresInv, PostgresRestoreACL
        PROVE  PostgresInv'
    <3> USE <2>PostgresACLNext
    <3>0. /\ engine = "postgres" /\ job.op = "restore" /\ job.at = "acl" /\ job.op # "idle"
          /\ UNCHANGED <<engine, variant, target>> /\ job \in Jobs /\ job.unit \in Scope /\ job.unit \in Units
          /\ grants \in [Units -> SUBSET Entries] /\ Scope' = Scope /\ Scope \subseteq Units /\ Scope = 1..Last
          /\ Last \in {1, 2} /\ job.art \in Artifacts /\ Good(job.art) /\ Sql /\ (variant = "single" => Scope = {1})
      <4>1. engine = "postgres" /\ job.op = "restore" /\ job.at = "acl" /\ UNCHANGED <<engine, variant, target>>
        BY Zenon DEF PostgresRestoreACL, JobAt, hosts
      <4>2. job \in Jobs /\ job.unit \in Scope /\ grants \in [Units -> SUBSET Entries] /\ job.art \in Artifacts
        BY Zenon, <4>1, IdleRecord DEF TypeOK, JobOK, TargetOK
      <4>3. Scope \subseteq Units /\ Last \in {1, 2} /\ (variant = "single" => Scope = {1})
        BY Zenon, HostFacts DEF TypeOK
      <4>4. Good(job.art) /\ Sql
        BY Zenon, <4>1 DEF ArtInv, Sql
      <4> QED
        BY Zenon, <4>1, <4>2, <4>3, <4>4 DEF Scope, Last
    <3>1. grants' = [grants EXCEPT ![job.unit] = ApplyPostgresACL(grants[job.unit], job.art.acl[job.unit])]
      BY Zenon DEF PostgresRestoreACL, u_
    <3>2. PICK at \in {"check", "verify"} : Goto(at, job.unit) /\ (at = "verify" => variant = "single")
      <4>1. variant \in {"single", "set"}
        BY Zenon, <3>0, HostFacts DEF TypeOK
      <4> QED
        BY Zenon, <4>1 DEF PostgresRestoreACL, u_
    <3>3. job'.at = at /\ job'.unit = job.unit /\ job'.op = job.op /\ job'.art = job.art
      BY Zenon, <3>0, <3>2, GotoRecord DEF JobSteps
    <3>4. /\ \A u \in Units : u # job.unit => grants'[u] = grants[u]
          /\ grants'[job.unit] = ApplyPostgresACL(grants[job.unit], job.art.acl[job.unit])
      BY Zenon, <3>0, <3>1
    <3>5. SamePrivileges(grants'[job.unit], job.art.acl[job.unit])
      <4>1. grants[job.unit] \subseteq DefaultACL
        BY Zenon, <3>0 DEF PostgresInv
      <4>2. job.art.acl[job.unit] \in SUBSET Entries /\ Merged(job.art.acl[job.unit])
        BY Zenon, <3>0, ArtifactRecord DEF Good
      <4>3. \A q : q = ApplyPostgresACL(grants[job.unit], job.art.acl[job.unit]) => SamePrivileges(q, job.art.acl[job.unit])
        BY SMTT(30), <3>0, <4>1, <4>2, <2>ApplyMerged DEF Merged
      <4> QED
        BY Zenon, <3>4, <4>3
    <3>6. \A u \in Scope : Loaded(u)' => Loaded(u)
      BY SMTT(30), <3>0, <3>2, <3>3 DEF Loaded
    <3>7. \A u \in Scope : Granted(u)' => Granted(u) \/ u = job.unit
      BY SMTT(30), <3>0, <3>2, <3>3 DEF Granted
    <3>8. \A u \in Scope : Loaded(u)' => target'[u].made /\ target'[u].val \in {job.art.data[u], Foreign}
      BY Zenon, <3>0, <3>6 DEF PostgresInv
    <3>9. \A u \in Scope : Granted(u)' => SamePrivileges(grants'[u], job.art.acl[u])
      BY Zenon, <3>0, <3>4, <3>5, <3>7 DEF PostgresInv
    <3>10. \A u \in Units : target'[u].val = Nothing => grants'[u] \subseteq DefaultACL
      <4>1. Loaded(job.unit)
        BY SMTT(30), <3>0 DEF Loaded
      <4>2. target[job.unit].val \in {job.art.data[job.unit], Foreign}
        BY Zenon, <3>0, <4>1 DEF PostgresInv
      <4>3. target[job.unit].val # Nothing
        BY Zenon, <3>0, <4>2, GoodData
      <4> QED
        BY Zenon, <3>0, <3>4, <4>3 DEF PostgresInv
    <3> QED
      BY ZenonT(40), <3>0, <3>2, <3>3, <3>8, <3>9, <3>10 DEF PostgresInv, SamePrivileges
  <2>PostgresCheckNext.
        ASSUME TypeOK, PostgresInv, PostgresRestoreCheck
        PROVE  PostgresInv'
    <3> USE <2>PostgresCheckNext
    <3>0. /\ job.op = "restore" /\ job.at = "check" /\ job.op # "idle" /\ UNCHANGED <<engine, variant, target, grants>>
          /\ job \in Jobs /\ job.unit \in Scope /\ Scope' = Scope /\ Scope \subseteq Units /\ Scope = 1..Last /\ Last \in {1, 2}
      <4>1. job.op = "restore" /\ job.at = "check" /\ UNCHANGED <<engine, variant, target, grants>>
        BY Zenon DEF PostgresRestoreCheck, JobAt, hosts, atTarget
      <4>2. job \in Jobs /\ job.unit \in Scope
        BY Zenon, <4>1, IdleRecord DEF TypeOK, JobOK
      <4>3. Scope \subseteq Units /\ Last \in {1, 2}
        BY Zenon, HostFacts DEF TypeOK
      <4> QED
        BY ZenonT(40), <4>1, <4>2, <4>3 DEF Scope, Last
    <3>1. CASE EndJob
      <4>1. job'.op = "idle"
        BY Zenon, <3>1, IdleRecord DEF EndJob
      <4> QED
        BY Zenon, <3>0, <4>1 DEF PostgresInv
    <3>2. CASE NextUnit("load", "verify")
      <4>1. \/ job.unit = 1 /\ Last = 2 /\ Goto("load", 2)
            \/ job.unit = Last /\ Goto("verify", 1)
        BY Zenon, <3>0, <3>2, NextUnitGoes DEF JobSteps
      <4>2. \/ job.unit = 1 /\ job'.at = "load" /\ job'.unit = 2 /\ job'.op = job.op /\ job'.art = job.art
            \/ job.unit = Last /\ job'.at = "verify" /\ job'.op = job.op /\ job'.art = job.art
        BY Zenon, <3>0, <4>1, GotoRecord DEF JobSteps, Units
      <4>3. \A u \in Scope : (Loaded(u)' => Loaded(u)) /\ (Granted(u)' => Granted(u))
        BY SMTT(30), <3>0, <4>2 DEF Loaded, Granted
      <4>4. \A u \in Scope : Loaded(u)' => target'[u].made /\ target'[u].val \in {job.art.data[u], Foreign}
        BY Zenon, <3>0, <4>3 DEF PostgresInv
      <4>5. \A u \in Scope : Granted(u)' => SamePrivileges(grants[u], job.art.acl[u])
        BY Zenon, <3>0, <4>3 DEF PostgresInv
      <4> QED
        BY Zenon, <3>0, <4>2, <4>4, <4>5 DEF PostgresInv, SamePrivileges
    <3> QED
      BY Zenon, <3>1, <3>2 DEF PostgresRestoreCheck
  <2>PostgresResetNext.
        ASSUME TypeOK, PostgresInv, PostgresResetDrop \/ PostgresResetCreate
        PROVE  PostgresInv'
    <3> USE <2>PostgresResetNext
    <3>0. job.op = "reset" /\ job.op # "idle" /\ job \in Jobs /\ job.unit \in Units
          /\ target \in [Units -> UnitState] /\ grants \in [Units -> SUBSET Entries]
      <4>1. job.op = "reset"
        BY Zenon DEF PostgresResetDrop, PostgresResetCreate, JobAt
      <4> QED
        BY ZenonT(40), <4>1, IdleRecord, HostFacts DEF TypeOK, JobOK, TargetOK
    <3>1. PICK x \in {Absent, Fresh}, g \in {{}, DefaultACL} :
            target' = [target EXCEPT ![job.unit] = x] /\ grants' = [grants EXCEPT ![job.unit] = g]
      BY Zenon DEF PostgresResetDrop, PostgresResetCreate, u_
    <3>2. job'.op = "reset"
      <4>1. JobGoes \/ EndJob \/ UNCHANGED job
        BY Zenon, StepsMoveJob DEF ResetSteps
      <4>2. ~EndJob
        <5>1. \A at, u : Goto(at, u) => job'.op = job.op
          BY <3>0, Zenon DEF Goto, Jobs
        <5> QED
          BY Zenon, <3>0, <5>1, IdleRecord DEF EndJob, PostgresResetDrop, PostgresResetCreate, NextUnit
      <4>3. JobGoes => job'.op = job.op
        BY <3>0, Zenon DEF JobGoes, Goto, Jobs
      <4> QED
        BY Zenon, <3>0, <4>1, <4>2, <4>3
    <3>3. \A u \in Units : target'[u].val = Nothing => grants'[u] \subseteq DefaultACL
      <4>1. \A u \in Units : u # job.unit => target'[u] = target[u] /\ grants'[u] = grants[u]
        BY Zenon, <3>0, <3>1
      <4>2. grants'[job.unit] \subseteq DefaultACL
        BY Zenon, <3>0, <3>1
      <4> QED
        BY Zenon, <4>1, <4>2 DEF PostgresInv
    <3> QED
      BY Zenon, <3>2, <3>3 DEF PostgresInv
  <2>PostgresForeignNext.
        ASSUME TypeOK, PostgresInv, ForeignWrites
        PROVE  PostgresInv'
    <3> USE <2>PostgresForeignNext
    <3>1. PICK w \in Units : target' = [target EXCEPT ![w] = Holding(Foreign, "other")]
      BY Zenon DEF ForeignWrites, ForeignWrite
    <3>2. UNCHANGED <<engine, variant, grants, job>>
      BY Zenon, SourceFrame DEF hosts
    <3>3. Scope' = Scope /\ Scope \subseteq Units /\ target \in [Units -> UnitState]
      BY Zenon, <3>2, HostFacts DEF TypeOK, TargetOK, Scope, Last
    <3>4. /\ \A u \in Units : u # w => target'[u] = target[u]
          /\ target'[w].made /\ target'[w].val = Foreign /\ Foreign # Nothing
      BY Zenon, <3>1, <3>3, UnitRecords, VersionFacts
    <3>5. \A u \in Scope : (Loaded(u)' => Loaded(u)) /\ (Granted(u)' => Granted(u))
      BY Zenon, <3>2 DEF Loaded, Granted
    <3>6. job.op = "restore" => \A u \in Scope : Loaded(u)' => target'[u].made /\ target'[u].val \in {job.art.data[u], Foreign}
      BY Zenon, <3>3, <3>4, <3>5 DEF PostgresInv
    <3>7. job.op = "restore" => \A u \in Scope : Granted(u)' => SamePrivileges(grants[u], job.art.acl[u])
      BY Zenon, <3>5 DEF PostgresInv
    <3>8. \A u \in Units : target'[u].val = Nothing => grants[u] \subseteq DefaultACL
      BY Zenon, <3>4 DEF PostgresInv
    <3> QED
      BY Zenon, <3>2, <3>3, <3>6, <3>7, <3>8 DEF PostgresInv, SamePrivileges
  \* A step that changes neither the target nor the job keeps the invariant, and so does one that ends the job,
  \* or begins another.
  <2>PostgresKeeps.
        ASSUME TypeOK, PostgresInv, UNCHANGED <<engine, variant, target, grants>>,
               UNCHANGED job \/ EndJob \/ JobStarts("reset") \/ (JobStarts("restore") /\ job'.at = "load")
        PROVE  PostgresInv'
    <3> USE <2>PostgresKeeps
    <3>0. Scope' = Scope /\ Scope \subseteq Units /\ \A u \in Scope : ~(u < 1)
      BY HostFacts DEF TypeOK, Scope, Last
    <3>1. CASE UNCHANGED job
      BY <3>0, <3>1, Zenon DEF PostgresInv, Loaded, Granted, SamePrivileges
    <3>2. CASE EndJob
      <4>1. job'.op # "restore"
        BY Zenon, <3>2, IdleRecord DEF EndJob
      <4> QED
        BY Zenon, <4>1 DEF PostgresInv
    <3>3. CASE JobStarts("reset")
      <4>1. job'.op # "restore"
        BY SMTT(30), <3>3, StartRecord DEF JobStarts
      <4> QED
        BY Zenon, <4>1 DEF PostgresInv
    <3>4. CASE JobStarts("restore") /\ job'.at = "load"
      <4>1. job'.unit = 1
        BY Zenon, <3>4, StartRecord DEF JobStarts
      <4>2. \A u \in Scope : ~Loaded(u)' /\ ~Granted(u)'
        BY Zenon, <3>0, <3>4, <4>1 DEF Loaded, Granted
      <4> QED
        BY Zenon, <3>0, <3>4, <4>2 DEF PostgresInv
    <3> QED
      BY Zenon, <3>1, <3>2, <3>3, <3>4
  <2> SUFFICES ASSUME TypeOK, ArtInv, PostgresInv, engine = "postgres", Next
               PROVE  PostgresInv'
    BY Zenon
  <2>0. UNCHANGED <<engine, variant>>
    BY Zenon, HostsStay
  <2>1. CASE ForeignWrites
    BY Zenon, <2>1, <2>PostgresForeignNext
  <2>2. CASE ResetSteps
    <3>1. PostgresResetDrop \/ PostgresResetCreate
      BY Zenon, <2>2 DEF ResetSteps, MySQLRevoke, MySQLResetDrop, MySQLResetCreate, MongoDBResetDrop, FlushRedisDatabases, JobAt
    <3> QED
      BY Zenon, <3>1, <2>PostgresResetNext
  <2>3. CASE RestoreSteps
    <3>1. PostgresRestoreLoad \/ PostgresRestoreACL
      BY Zenon, <2>3 DEF RestoreSteps, MySQLRestoreLoad, MySQLRestoreGrant, MongoDBRestoreLoad, ApplyMongoDBOplogDelta,
         ApplyMongoDBIdentities, RedisRetryReset, RedisRestoreLoad, JobAt
    <3> QED
      BY Zenon, <3>1, <2>PostgresLoadNext, <2>PostgresACLNext
  <2>4. CASE Verdicts
    <3>1. PostgresRestoreCheck \/ PostgresRestoreVerify
      BY Zenon, <2>4 DEF Verdicts, MySQLRestoreVerify, MongoDBRestoreVerify, RedisRestoreVerify, JobAt
    <3>2. CASE PostgresRestoreVerify
      BY Zenon, <2>0, <3>2, <2>PostgresKeeps DEF PostgresRestoreVerify, atTarget
    <3> QED
      BY Zenon, <3>1, <3>2, <2>PostgresCheckNext
  <2>5. CASE RestoreStarts
    <3>1. UNCHANGED <<target, grants>> /\ JobStarts("restore")
      BY ZenonT(40), <2>5, RestoreFrame, StartsJob
    <3>2. job'.at = "load"
      <4>1. PICK m \in Migrations : PostgresRestore(m) \/ PostgresRestoreDatabaseSet(m)
        BY Zenon, <2>5 DEF RestoreStarts, MySQLRestore, MongoDBRestore, RedisRestore
      <4>2. StartJob("restore", m, "load", FALSE, artifact[m])
        BY Zenon, <4>1 DEF PostgresRestore, PostgresRestoreDatabaseSet
      <4>3. "load" \in JobSteps /\ artifact[m] \in Artifacts \cup {None}
        BY Zenon DEF JobSteps, TypeOK, RecordsOK
      <4> QED
        BY Zenon, <4>2, <4>3, StartRecord
    <3> QED
      BY Zenon, <2>0, <3>1, <3>2, <2>PostgresKeeps
  <2>6. CASE ResetStarts
    BY ZenonT(40), <2>0, <2>6, ResetFrame, StartsJob, <2>PostgresKeeps
  <2>7. CASE Marks \/ Interrupt
    <3>1. UNCHANGED <<target, grants>> /\ (EndJob \/ UNCHANGED job)
      BY Zenon, <2>7, ResetFrame, SourceFrame DEF Marks, PostgresResetMark, MySQLResetMark, MongoDBResetMark, RedisResetMark,
         Interrupt, EndJob
    <3> QED
      BY ZenonT(40), <2>0, <3>1, <2>PostgresKeeps
  <2>8. CASE KeyAges
    BY Zenon, <2>8 DEF KeyAges
  <2>9. CASE \/ Writes \/ AclChanges \/ OplogMoves \/ Inspects \/ DumpStarts \/ SqlDumpSteps \/ MongoDBDumpSteps
             \/ WriteRedisArchive \/ Verifies
    <3>1. UNCHANGED <<target, grants, job>>
      BY <2>9, SourceFrame, DumpFrame, RestoreFrame, Zenon
    <3> QED
      BY ZenonT(40), <2>0, <3>1, <2>PostgresKeeps
  <2> QED
    BY <2>1, <2>2, <2>3, <2>4, <2>5, <2>6, <2>7, <2>8, <2>9, NextCases, Zenon
<1>MySQLInvNext. TypeOK /\ ArtInv /\ MySQLInv /\ engine = "mysql" /\ Next => MySQLInv'
  <2>MySQLFacts.
        ASSUME TypeOK, ArtInv, engine = "mysql", job.op # "idle"
        PROVE  /\ Last = 2 /\ Scope = Units /\ Units = {1, 2} /\ Sql /\ job \in Jobs /\ job.unit \in Units
               /\ target \in [Units -> UnitState] /\ grants \in [Units -> SUBSET Entries]
               /\ job.op = "restore" => job.art \in Artifacts /\ Good(job.art)
    <3> USE <2>MySQLFacts
    <3>1. variant # "single"
      BY Zenon, HostFacts DEF TypeOK
    <3>2. Last = 2 /\ Scope = Units /\ Units = {1, 2}
      BY Zenon, <3>1, HostFacts DEF TypeOK
    <3>3. job \in Jobs /\ job.unit \in Scope /\ (job.op = "restore" => job.art \in Artifacts)
      BY Zenon, IdleRecord DEF TypeOK, JobOK
    <3>4. target \in [Units -> UnitState] /\ grants \in [Units -> SUBSET Entries]
      BY Zenon DEF TypeOK, TargetOK
    <3>5. Sql /\ (job.op = "restore" => Good(job.art))
      BY Zenon DEF Sql, ArtInv
    <3> QED
      BY Zenon, <3>2, <3>3, <3>4, <3>5
  <2>MySQLResetNext.
        ASSUME TypeOK, ArtInv, MySQLInv, MySQLRevoke \/ MySQLResetDrop \/ MySQLResetCreate
        PROVE  MySQLInv'
    <3> USE <2>MySQLResetNext
    <3>0. engine = "mysql" /\ job.op = "reset" /\ job.op # "idle"
      BY Zenon DEF MySQLRevoke, MySQLResetDrop, MySQLResetCreate, JobAt
    <3>1. job \in Jobs /\ grants \in [Units -> SUBSET Entries] /\ 1 \in Units /\ Units = {1, 2}
      BY Zenon, <3>0, <2>MySQLFacts
    <3>2. CASE MySQLRevoke /\ ~Goto("drop", 1)
      <4>1. job.at = "revoke" /\ UNCHANGED <<target, job>> /\ grants[1] # {}
        BY Zenon, <3>2 DEF MySQLRevoke, JobAt
      <4> QED
        BY Zenon, <3>0, <3>2, <4>1 DEF MySQLInv
    <3>3. CASE MySQLRevoke /\ Goto("drop", 1)
      <4>0. job'.at = "drop" /\ job.at = "revoke"
        BY Zenon, <3>1, <3>3, GotoRecord DEF JobSteps, MySQLRevoke, JobAt
      <4>1. grants[1] = {} /\ Goto("drop", 1) /\ UNCHANGED <<grants, target>>
        BY Zenon, <3>3, <4>0 DEF MySQLRevoke
      <4>2. job'.op = "reset"
        BY Zenon, <3>0, <3>1, <4>1, GotoRecord DEF JobSteps
      <4> QED
        BY Zenon, <4>1, <4>2 DEF MySQLInv
    <3>4. CASE MySQLResetDrop \/ MySQLResetCreate
      <4>1. grants[1] = {} /\ UNCHANGED grants
        BY Zenon, <3>0, <3>4 DEF MySQLInv, MySQLResetDrop, MySQLResetCreate, JobAt
      <4>2. Goto("create", 1) \/ Goto("mark", 1)
        BY Zenon, <3>4 DEF MySQLResetDrop, MySQLResetCreate
      <4>3. job'.op = "reset"
        BY Zenon, <3>0, <3>1, <4>2, GotoRecord DEF JobSteps
      <4> QED
        BY Zenon, <4>1, <4>3 DEF MySQLInv
    <3> QED
      BY Zenon, <3>2, <3>3, <3>4
  <2>MySQLLoadNext.
        ASSUME TypeOK, ArtInv, MySQLInv, MySQLRestoreLoad
        PROVE  MySQLInv'
    <3> USE <2>MySQLLoadNext
    <3>0. /\ engine = "mysql" /\ job.op = "restore" /\ job.op # "idle" /\ job.at = "load" /\ UNCHANGED grants /\ grants[1] = {}
      BY Zenon DEF MySQLRestoreLoad, JobAt, MySQLInv
    <3>1. /\ Last = 2 /\ Units = {1, 2} /\ job \in Jobs /\ job.unit \in Units /\ target \in [Units -> UnitState]
      BY Zenon, <3>0, <2>MySQLFacts
    <3>2. CASE EndJob
      <4>1. job'.op = "idle"
        BY Zenon, <3>2, IdleRecord DEF EndJob
      <4> QED
        BY Zenon, <3>0, <4>1 DEF MySQLInv
    <3>3. CASE ~EndJob
      <4>1. target' = [target EXCEPT ![job.unit] = Holding(job.art.data[job.unit], job.mig)] /\ NextUnit("load", "grant")
        BY Zenon, <3>3 DEF MySQLRestoreLoad, u_
      <4>2. (job.unit = 1 /\ Goto("load", 2)) \/ (job.unit = 2 /\ Goto("grant", 1))
        BY Zenon, <3>0, <3>1, <4>1, NextUnitGoes DEF JobSteps
      <4>3. /\ job'.op = "restore" /\ job'.art = job.art
            /\ \/ job.unit = 1 /\ job'.at = "load" /\ job'.unit = 2
               \/ job.unit = 2 /\ job'.at = "grant"
        BY Zenon, <3>0, <3>1, <4>2, GotoRecord DEF JobSteps
      <4>4. /\ \A u \in Units : u # job.unit => target'[u] = target[u]
            /\ target'[job.unit].val = job.art.data[job.unit]
        BY Zenon, <3>1, <4>1, UnitRecords
      <4>5. \A u \in Units : Loaded(u)' => u = job.unit \/ Loaded(u)
        BY SMTT(30), <3>0, <3>1, <4>3 DEF Loaded
      <4>6. \A u \in Units : Loaded(u)' => target'[u].val \in {job.art.data[u], Foreign}
        BY Zenon, <3>0, <4>4, <4>5 DEF MySQLInv
      <4> QED
        BY Zenon, <3>0, <4>3, <4>6 DEF MySQLInv
    <3> QED
      BY Zenon, <3>2, <3>3
  \* Grants are added one by one, none of them to an account that has one already.
  <2>MySQLGrantNext.
        ASSUME TypeOK, ArtInv, MySQLInv, MySQLRestoreGrant
        PROVE  MySQLInv'
    <3> USE <2>MySQLGrantNext
    <3>0. /\ engine = "mysql" /\ job.op = "restore" /\ job.op # "idle" /\ job.at = "grant" /\ UNCHANGED target
          /\ grants[1] \subseteq job.art.acl[1]
      BY Zenon DEF MySQLRestoreGrant, JobAt, MySQLInv
    <3>1. /\ Scope = Units /\ Units = {1, 2} /\ job \in Jobs /\ Sql /\ grants \in [Units -> SUBSET Entries]
          /\ job.art \in Artifacts /\ Good(job.art)
      BY Zenon, <3>0, <2>MySQLFacts
    <3>2. \A e, f \in job.art.acl[1] : e.who = f.who => e = f
      BY Zenon, <3>1 DEF Good, Merged
    <3>3. job.art.acl[1] \in SUBSET Entries
      BY SMTT(30), <3>1, ArtifactRecord
    <3>4. \A u \in Units : target[u].val \in {job.art.data[u], Foreign}
      BY Zenon, <3>0 DEF MySQLInv, Loaded
    <3>5. \A u \in Units : target[u].val # Nothing
      BY Zenon, <3>1, <3>4, GoodData
    <3>6. CASE \E e \in {x \in job.art.acl[1] : ~MySQLGranted(x)} :
                 grants' = [grants EXCEPT ![1] = MySQLGrant(@, e)] /\ UNCHANGED job
      <4>1. PICK e \in job.art.acl[1] : grants' = [grants EXCEPT ![1] = MySQLGrant(grants[1], e)] /\ UNCHANGED job
        BY Zenon, <3>6
      <4>2. grants'[1] = MySQLGrant(grants[1], e)
        BY ZenonT(40), <3>1, <4>1
      <4>3. \A g \in grants[1] : g.who = e.who => g = e
        BY ZenonT(40), <3>0, <3>2
      <4>4. e \in Entries /\ e.opt \in BOOLEAN
        BY Zenon, <3>3, EntryFacts
      <4>5. (e.opt \/ \E g \in grants[1] : g.who = e.who /\ g.opt) = e.opt
        BY Zenon, <4>3, <4>4
      <4>6. [e EXCEPT !.opt = e.opt] = e
        BY Zenon, <4>4 DEF Entries
      <4>7. MySQLGrant(grants[1], e) \subseteq grants[1] \cup {e}
        BY Zenon, <4>5, <4>6 DEF MySQLGrant
      <4>8. grants'[1] \subseteq job.art.acl[1]
        BY ZenonT(40), <3>0, <4>2, <4>7
      <4> QED
        BY Zenon, <3>0, <3>4, <3>5, <4>1, <4>8 DEF MySQLInv
    <3>7. CASE (\A e \in job.art.acl[1] : MySQLGranted(e)) /\ Goto("verify", 1) /\ UNCHANGED grants
      <4>1. job'.op = "restore" /\ job'.at = "verify" /\ job'.art = job.art
        BY ZenonT(40), <3>0, <3>1, <3>7, GotoRecord DEF JobSteps
      <4>2. \A e \in job.art.acl[1] : e \in grants[1]
        BY ZenonT(40), <3>0, <3>2, <3>7 DEF MySQLGranted
      <4> QED
        BY ZenonT(40), <3>0, <3>4, <3>5, <3>7, <4>1, <4>2 DEF MySQLInv
    <3> QED
      BY Zenon, <3>6, <3>7 DEF MySQLRestoreGrant
  <2>MySQLForeignNext.
        ASSUME TypeOK, MySQLInv, ForeignWrites
        PROVE  MySQLInv'
    <3> USE <2>MySQLForeignNext
    <3>1. PICK w \in Units : target' = [target EXCEPT ![w] = Holding(Foreign, "other")]
      BY Zenon DEF ForeignWrites, ForeignWrite
    <3>2. UNCHANGED <<grants, job>> /\ target \in [Units -> UnitState]
      BY Zenon, SourceFrame DEF TypeOK, TargetOK
    <3>3. /\ \A u \in Units : u # w => target'[u] = target[u]
          /\ target'[w].val = Foreign /\ Foreign # Nothing
      BY Zenon, <3>1, <3>2, UnitRecords, VersionFacts
    <3>4. \A u \in Units : Loaded(u)' = Loaded(u)
      BY Zenon, <3>2 DEF Loaded
    <3>5. job.op = "restore" => \A u \in Units : Loaded(u) => target'[u].val \in {job.art.data[u], Foreign}
      BY Zenon, <3>3 DEF MySQLInv
    <3>6. grants[1] # {} => \A u \in Units : target'[u].val # Nothing
      BY Zenon, <3>3 DEF MySQLInv
    <3> QED
      BY Zenon, <3>2, <3>4, <3>5, <3>6 DEF MySQLInv
  <2>MySQLRestoreStart.
        ASSUME TypeOK, MySQLInv, NEW m \in Migrations, MySQLRestore(m)
        PROVE  MySQLInv'
    <3> USE <2>MySQLRestoreStart
    <3>1. UNCHANGED <<target, grants>> /\ StartJob("restore", m, "load", FALSE, artifact[m]) /\ MySQLEmpty
      BY Zenon DEF MySQLRestore, atTarget
    <3>2. artifact[m] \in Artifacts \cup {None} /\ "load" \in JobSteps
      BY Zenon DEF TypeOK, RecordsOK, JobSteps
    <3>3. job'.op = "restore" /\ job'.at = "load" /\ job'.unit = 1
      BY Zenon, <3>1, <3>2, StartRecord
    <3>4. grants[1] = {}
      BY Zenon, <3>1 DEF MySQLEmpty, MySQLTables, MySQLInv, Units
    <3>5. \A u \in Units : ~Loaded(u)'
      BY SMTT(30), <3>3 DEF Loaded, Units
    <3> QED
      BY ZenonT(40), <3>1, <3>3, <3>4, <3>5 DEF MySQLInv
  <2>MySQLResetStart.
        ASSUME TypeOK, MySQLInv, NEW m \in Migrations, MySQLReset(m)
        PROVE  MySQLInv'
    <3> USE <2>MySQLResetStart
    <3>1. UNCHANGED <<target, grants>> /\ (grants[1] # {} => OwnedByRun(m))
      BY Zenon DEF MySQLReset, atTarget
    <3>2. PICK at \in {"revoke", "drop"}, o \in BOOLEAN : StartJob("reset", m, at, o, None) /\ (at = "drop" => ~OwnedByRun(m))
      BY Zenon DEF MySQLReset, OwnedByRun
    <3>3. job'.op = "reset" /\ job'.at = at
      BY <3>2, StartRecord DEF JobSteps
    <3>4. job'.at \in {"drop", "create", "mark"} => grants'[1] = {}
      BY Zenon, <3>1, <3>2, <3>3
    <3> QED
      BY ZenonT(40), <3>1, <3>3, <3>4 DEF MySQLInv
  <2>MySQLKeeps.
        ASSUME MySQLInv, UNCHANGED <<target, grants>>, UNCHANGED job \/ EndJob
        PROVE  MySQLInv'
    <3> USE <2>MySQLKeeps
    <3>1. CASE UNCHANGED job
      BY <3>1, Zenon DEF MySQLInv, Loaded
    <3>2. CASE EndJob
      <4>1. job'.op = "idle"
        BY ZenonT(40), <3>2, IdleRecord DEF EndJob
      <4> QED
        BY Zenon, <4>1 DEF MySQLInv
    <3> QED
      BY Zenon, <3>1, <3>2
  <2> SUFFICES ASSUME TypeOK, ArtInv, MySQLInv, engine = "mysql", Next
               PROVE  MySQLInv'
    BY Zenon
  <2>1. CASE ForeignWrites
    BY Zenon, <2>1, <2>MySQLForeignNext
  <2>2. CASE ResetSteps
    <3>1. MySQLRevoke \/ MySQLResetDrop \/ MySQLResetCreate
      BY Zenon, <2>2 DEF ResetSteps, PostgresResetDrop, PostgresResetCreate, MongoDBResetDrop, FlushRedisDatabases, JobAt
    <3> QED
      BY ZenonT(40), <3>1, <2>MySQLResetNext
  <2>3. CASE RestoreSteps
    <3>1. MySQLRestoreLoad \/ MySQLRestoreGrant
      BY Zenon, <2>3 DEF RestoreSteps, PostgresRestoreLoad, PostgresRestoreACL, MongoDBRestoreLoad, ApplyMongoDBOplogDelta,
         ApplyMongoDBIdentities, RedisRetryReset, RedisRestoreLoad, JobAt
    <3> QED
      BY ZenonT(40), <3>1, <2>MySQLLoadNext, <2>MySQLGrantNext
  <2>4. CASE Verdicts
    <3>1. MySQLRestoreVerify
      BY Zenon, <2>4 DEF Verdicts, PostgresRestoreCheck, PostgresRestoreVerify, MongoDBRestoreVerify, RedisRestoreVerify, JobAt
    <3> QED
      BY Zenon, <3>1, <2>MySQLKeeps DEF MySQLRestoreVerify, atTarget
  <2>5. CASE RestoreStarts
    <3>1. \E m \in Migrations : MySQLRestore(m)
      BY Zenon, <2>5 DEF RestoreStarts, PostgresRestore, PostgresRestoreDatabaseSet, MongoDBRestore, RedisRestore
    <3> QED
      BY Zenon, <3>1, <2>MySQLRestoreStart
  <2>6. CASE ResetStarts
    <3>1. \E m \in Migrations : MySQLReset(m)
      BY Zenon, <2>6 DEF ResetStarts, PostgresReset, PostgresResetDatabaseSet, MongoDBReset, RedisReset
    <3> QED
      BY Zenon, <3>1, <2>MySQLResetStart
  <2>7. CASE Marks \/ Interrupt
    <3>1. UNCHANGED <<target, grants>> /\ (EndJob \/ UNCHANGED job)
      BY Zenon, <2>7, ResetFrame, SourceFrame DEF Marks, PostgresResetMark, MySQLResetMark, MongoDBResetMark, RedisResetMark,
         Interrupt, EndJob
    <3> QED
      BY ZenonT(40), <3>1, <2>MySQLKeeps
  <2>8. CASE KeyAges
    BY Zenon, <2>8 DEF KeyAges
  <2>9. CASE \/ Writes \/ AclChanges \/ OplogMoves \/ Inspects \/ DumpStarts \/ SqlDumpSteps \/ MongoDBDumpSteps
             \/ WriteRedisArchive \/ Verifies
    <3>1. UNCHANGED <<target, grants, job>>
      BY <2>9, SourceFrame, DumpFrame, RestoreFrame, Zenon
    <3> QED
      BY ZenonT(40), <3>1, <2>MySQLKeeps
  <2> QED
    BY <2>1, <2>2, <2>3, <2>4, <2>5, <2>6, <2>7, <2>8, <2>9, NextCases, Zenon
<1>MongoDBInvNext. TypeOK /\ ArtInv /\ MongoDBInv /\ engine = "mongodb" /\ Next => MongoDBInv'
  <2>MongoDBLoadNext.
        ASSUME TypeOK, ArtInv, MongoDBInv, MongoDBRestoreLoad
        PROVE  MongoDBInv'
    <3> USE <2>MongoDBLoadNext
    <3>0. engine = "mongodb" /\ job.op = "restore" /\ job.op # "idle" /\ job.at = "load" /\ UNCHANGED <<grants, count>>
      BY Zenon DEF MongoDBRestoreLoad, JobAt
    <3>1. Last = 2 /\ Units = {1, 2} /\ job \in Jobs /\ job.unit \in Units /\ target \in [Units -> UnitState]
      BY Zenon, <3>0, <1>DocumentFacts
    <3>2. variant # "oplog" => job.art.ids = {}
      BY ZenonT(40), <3>0 DEF ArtInv, Good
    <3> SUFFICES ASSUME job'.op = "restore", count'["foreign"] = 0
                 PROVE  MongoDBInv'
      BY ZenonT(40) DEF MongoDBInv
    <3>3. \A u \in Units : target[u] = IF u < job.unit THEN Holding(job.art.data[u], job.mig) ELSE Fresh
      BY Zenon, <3>0 DEF MongoDBInv
    <3>4. target[job.unit].val = Nothing
      BY SMTT(30), <3>1, <3>3, UnitRecords
    <3>5. /\ target' = [target EXCEPT ![job.unit] = Holding(job.art.data[job.unit], job.mig)]
          /\ NextUnit("load", IF variant = "oplog" THEN "delta" ELSE "identities")
      BY Zenon, <3>4 DEF MongoDBRestoreLoad, u_
    <3>6. \/ job.unit = 1 /\ Goto("load", 2)
          \/ job.unit = 2 /\ variant = "oplog" /\ Goto("delta", 1)
          \/ job.unit = 2 /\ variant # "oplog" /\ Goto("identities", 1)
      BY ZenonT(40), <3>0, <3>1, <3>5, NextUnitGoes DEF JobSteps
    <3>7. /\ job'.art = job.art /\ job'.mig = job.mig
          /\ \/ job.unit = 1 /\ job'.at = "load" /\ job'.unit = 2
             \/ job.unit = 2 /\ job'.at = "delta" /\ job'.unit = 1
             \/ job.unit = 2 /\ variant # "oplog" /\ job'.at = "identities"
      BY Zenon, <3>1, <3>6, GotoRecord DEF JobSteps
    <3>8. \A u \in Units : target'[u] = IF u <= job.unit THEN Holding(job.art.data[u], job.mig) ELSE Fresh
      BY SMTT(30), <3>1, <3>3, <3>5
    <3>9. CASE job.unit = 1 /\ job'.at = "load" /\ job'.unit = 2
      <4>1. \A u \in Units : target'[u] = IF u < 2 THEN Holding(job.art.data[u], job.mig) ELSE Fresh
        BY SMTT(30), <3>1, <3>8, <3>9
      <4> QED
        BY Zenon, <3>7, <3>9, <4>1 DEF MongoDBInv
    <3>10. CASE job.unit = 2 /\ job'.at = "delta" /\ job'.unit = 1
      <4>1. \A u \in Units : target'[u] = Holding(IF u < 1 THEN Restored(job.art, u) ELSE job.art.data[u], job.mig)
        BY SMTT(30), <3>1, <3>8, <3>10
      <4> QED
        BY Zenon, <3>7, <3>10, <4>1 DEF MongoDBInv
    <3>11. CASE job.unit = 2 /\ variant # "oplog" /\ job'.at = "identities"
      <4>1. \A u \in Units : target'[u] = Holding(Restored(job.art, u), job.mig)
        BY SMTT(30), <3>1, <3>2, <3>8, <3>11 DEF Restored
      <4> QED
        BY Zenon, <3>7, <3>11, <4>1 DEF MongoDBInv
    <3> QED
      BY ZenonT(40), <3>7, <3>9, <3>10, <3>11
  <2>MongoDBDeltaApplied.
        ASSUME TypeOK, MongoDBInv, ApplyMongoDBOplogDelta
        PROVE  MongoDBInv'
    <3> USE <2>MongoDBDeltaApplied
    <3>0. engine = "mongodb" /\ job.op = "restore" /\ job.op # "idle" /\ job.at = "delta" /\ UNCHANGED <<grants, count>>
      BY Zenon DEF ApplyMongoDBOplogDelta, JobAt
    <3>1. Last = 2 /\ Units = {1, 2} /\ job \in Jobs /\ job.unit \in Units /\ target \in [Units -> UnitState]
      BY Zenon, <3>0, <1>DocumentFacts
    <3> SUFFICES ASSUME job'.op = "restore", count'["foreign"] = 0
                 PROVE  MongoDBInv'
      BY Zenon DEF MongoDBInv
    <3>2. \A u \in Units :
            target[u] = Holding(IF u < job.unit THEN Restored(job.art, u) ELSE job.art.data[u], job.mig)
      BY Zenon, <3>0 DEF MongoDBInv
    <3>3. (job.unit = 1 /\ Goto("delta", 2)) \/ (job.unit = 2 /\ Goto("identities", 1))
      BY Zenon, <3>0, <3>1, NextUnitGoes DEF JobSteps, ApplyMongoDBOplogDelta
    <3>4. /\ job'.art = job.art /\ job'.mig = job.mig
          /\ \/ job.unit = 1 /\ job'.at = "delta" /\ job'.unit = 2
             \/ job.unit = 2 /\ job'.at = "identities"
      BY Zenon, <3>1, <3>3, GotoRecord DEF JobSteps
    <3>5. /\ target'[job.unit] = Holding(Restored(job.art, job.unit), job.mig)
          /\ \A u \in Units : u # job.unit => target'[u] = target[u]
      <4>1. CASE job.unit \in job.art.ids
        <5>1. target' = [target EXCEPT ![job.unit] = Holding(job.art.delta[job.unit], job.mig)]
          BY Zenon, <4>1 DEF ApplyMongoDBOplogDelta, u_
        <5>2. Restored(job.art, job.unit) = job.art.delta[job.unit]
          BY Zenon, <4>1 DEF Restored
        <5> QED
          BY Zenon, <3>1, <5>1, <5>2
      <4>2. CASE job.unit \notin job.art.ids
        <5>1. target' = target
          BY Zenon, <4>2 DEF ApplyMongoDBOplogDelta, u_
        <5>2. Restored(job.art, job.unit) = job.art.data[job.unit]
          BY Zenon, <4>2 DEF Restored
        <5>3. target[job.unit] = Holding(job.art.data[job.unit], job.mig)
          BY SMTT(30), <3>1, <3>2
        <5> QED
          BY ZenonT(40), <3>1, <5>1, <5>2, <5>3
      <4> QED
        BY Zenon, <4>1, <4>2
    <3>6. \A u \in Units : target'[u] = Holding(IF u <= job.unit THEN Restored(job.art, u) ELSE job.art.data[u], job.mig)
      BY SMTT(30), <3>1, <3>2, <3>5
    <3>7. CASE job.unit = 1 /\ job'.at = "delta" /\ job'.unit = 2
      <4>1. \A u \in Units : target'[u] = Holding(IF u < 2 THEN Restored(job.art, u) ELSE job.art.data[u], job.mig)
        BY SMTT(30), <3>1, <3>6, <3>7
      <4> QED
        BY ZenonT(40), <3>4, <3>7, <4>1 DEF MongoDBInv, Restored
    <3>8. CASE job.unit = 2 /\ job'.at = "identities"
      <4>1. \A u \in Units : target'[u] = Holding(Restored(job.art, u), job.mig)
        BY SMTT(30), <3>1, <3>6, <3>8
      <4> QED
        BY Zenon, <3>4, <3>8, <4>1 DEF MongoDBInv, Restored
    <3> QED
      BY Zenon, <3>4, <3>7, <3>8
  <2>MongoDBIdentitiesNext.
        ASSUME TypeOK, MongoDBInv, ApplyMongoDBIdentities
        PROVE  MongoDBInv'
    <3> USE <2>MongoDBIdentitiesNext
    <3>0. engine = "mongodb" /\ job.op = "restore" /\ job.at = "identities" /\ UNCHANGED <<target, count>>
      BY Zenon DEF ApplyMongoDBIdentities, JobAt
    <3>1. Units = {1, 2} /\ job \in Jobs /\ grants \in [Units -> SUBSET Entries]
      BY Zenon, <3>0, <1>DocumentFacts
    <3>2. Goto("verify", 1) /\ grants' = [grants EXCEPT ![1] = job.art.acl[1]]
      BY Zenon DEF ApplyMongoDBIdentities
    <3>3. job'.art = job.art /\ job'.mig = job.mig /\ job'.at = "verify"
      BY Zenon, <3>1, <3>2, GotoRecord DEF JobSteps
    <3>4. grants'[1] = job.art.acl[1]
      BY Zenon, <3>1, <3>2
    <3> QED
      BY <3>0, <3>3, <3>4, Zenon DEF MongoDBInv, Restored
  <2>MongoDBRestoreStart.
        ASSUME TypeOK, NEW m \in Migrations, MongoDBRestore(m)
        PROVE  MongoDBInv'
    <3> USE <2>MongoDBRestoreStart
    <3>1. UNCHANGED <<target, grants>> /\ StartJob("restore", m, "load", FALSE, artifact[m]) /\ MongoDBEmpty
      BY Zenon DEF MongoDBRestore, atTarget
    <3>2. artifact[m] \in Artifacts \cup {None} /\ "load" \in JobSteps
      BY Zenon DEF TypeOK, RecordsOK, JobSteps
    <3>3. job'.op = "restore" /\ job'.at = "load" /\ job'.unit = 1
      BY Zenon, <3>1, <3>2, StartRecord
    <3>4. \A u \in Units : target'[u] = Fresh /\ ~(u < 1)
      BY <3>1 DEF MongoDBEmpty, Units
    <3> QED
      BY ZenonT(40), <3>3, <3>4 DEF MongoDBInv
  <2> SUFFICES ASSUME TypeOK, ArtInv, MongoDBInv, engine = "mongodb", Next
               PROVE  MongoDBInv'
    BY Zenon
  <2> SUFFICES ASSUME job'.op = "restore", count'["foreign"] = 0
               PROVE  MongoDBInv'
    BY Zenon DEF MongoDBInv
  <2>0. count["foreign"] = 0 /\ ~ForeignWrites
    BY Zenon, NoForeign
  <2>1. CASE RestoreSteps
    <3>1. MongoDBRestoreLoad \/ ApplyMongoDBOplogDelta \/ ApplyMongoDBIdentities
      BY Zenon, <2>1 DEF RestoreSteps, PostgresRestoreLoad, PostgresRestoreACL, MySQLRestoreLoad, MySQLRestoreGrant,
         RedisRetryReset, RedisRestoreLoad, JobAt
    <3> QED
      BY ZenonT(40), <3>1, <2>MongoDBLoadNext, <2>MongoDBDeltaApplied, <2>MongoDBIdentitiesNext
  <2>2. CASE RestoreStarts
    <3>1. \E m \in Migrations : MongoDBRestore(m)
      BY Zenon, <2>2 DEF RestoreStarts, PostgresRestore, PostgresRestoreDatabaseSet, MySQLRestore, RedisRestore
    <3> QED
      BY Zenon, <3>1, <2>MongoDBRestoreStart
  <2>3. ~(ResetSteps \/ Verdicts \/ ResetStarts \/ Marks)
    <3>1. ~ResetStarts
      <4>1. JobStarts("reset") => job'.op = "reset"
        BY SMTT(30), StartRecord DEF JobStarts
      <4> QED
        BY Zenon, <4>1, StartsJob
    <3>2. ~(Marks \/ Verdicts)
      <4>1. Marks \/ MongoDBRestoreVerify => EndJob
        BY Zenon DEF Marks, PostgresResetMark, MySQLResetMark, MongoDBResetMark, RedisResetMark, MongoDBRestoreVerify
      <4>2. Verdicts => MongoDBRestoreVerify
        BY Zenon DEF Verdicts, PostgresRestoreCheck, PostgresRestoreVerify, MySQLRestoreVerify, RedisRestoreVerify, JobAt
      <4> QED
        BY Zenon, <4>1, <4>2, IdleRecord DEF EndJob
    <3>3. ~ResetSteps
      <4>1. ResetSteps => MongoDBResetDrop
        BY Zenon DEF ResetSteps, PostgresResetDrop, PostgresResetCreate, MySQLRevoke, MySQLResetDrop, MySQLResetCreate,
           FlushRedisDatabases, JobAt
      <4>2. MongoDBResetDrop => job.op = "reset" /\ Goto("mark", 1) /\ job \in Jobs
        BY Zenon DEF MongoDBResetDrop, JobAt, TypeOK, JobOK
      <4>3. MongoDBResetDrop => job'.op = "reset"
        BY ZenonT(40), <4>2, GotoRecord DEF JobSteps, Units
      <4> QED
        BY Zenon, <4>1, <4>3
    <3> QED
      BY Zenon, <3>1, <3>2, <3>3
  <2>4. CASE \/ Writes \/ AclChanges \/ OplogMoves \/ Inspects \/ DumpStarts \/ SqlDumpSteps \/ MongoDBDumpSteps
             \/ WriteRedisArchive \/ Verifies \/ Interrupt
    <3>1. UNCHANGED <<target, grants, job>>
      <4>1. Interrupt => UNCHANGED job
        BY Zenon, IdleRecord DEF Interrupt
      <4> QED
        BY <2>4, <4>1, SourceFrame, DumpFrame, RestoreFrame, Zenon
    <3> QED
      BY <2>0, <3>1, Zenon DEF MongoDBInv, Restored
  <2>5. CASE KeyAges
    BY Zenon, <2>5 DEF KeyAges
  <2> QED
    BY <2>0, <2>1, <2>2, <2>3, <2>4, <2>5, NextCases, Zenon
<1>RedisInvNext. TypeOK /\ RedisInv /\ engine = "redis" /\ Next => RedisInv'
  <2>RedisLoadNext.
        ASSUME TypeOK, RedisInv, RedisRestoreLoad
        PROVE  RedisInv'
    <3> USE <2>RedisLoadNext
    <3>0. engine = "redis" /\ job.op = "restore" /\ job.op # "idle" /\ job.at = "load" /\ UNCHANGED <<count, ttl>>
      BY Zenon DEF RedisRestoreLoad, JobAt
    <3>1. Last = 2 /\ Units = {1, 2} /\ job \in Jobs /\ job.unit \in Units /\ target \in [Units -> UnitState]
      BY Zenon, <3>0, <1>DocumentFacts
    <3> SUFFICES ASSUME job'.op = "restore", count'["foreign"] = 0, ttl' # "gone"
                 PROVE  RedisInv'
      BY Zenon DEF RedisInv
    <3>2. \A u \in Units : target[u].val = IF u < job.unit THEN job.art.data[u] ELSE Nothing
      BY Zenon, <3>0 DEF RedisInv
    <3>3. target[job.unit].val = Nothing
      BY SMTT(30), <3>1, <3>2
    <3>4. ~EndJob
      BY Zenon, IdleRecord DEF EndJob
    <3>5. /\ NextUnit("load", "verify")
          /\ \/ job.art.data[job.unit] = Nothing /\ UNCHANGED target
             \/ target' = [target EXCEPT ![job.unit] = Holding(job.art.data[job.unit], job.mig)]
      BY Zenon, <3>1, <3>4 DEF RedisRestoreLoad, u_, ReadRedisArchive
    <3>6. (job.unit = 1 /\ Goto("load", 2)) \/ (job.unit = 2 /\ Goto("verify", 1))
      BY ZenonT(40), <3>0, <3>1, <3>5, NextUnitGoes DEF JobSteps
    <3>7. /\ job'.art = job.art
          /\ \/ job.unit = 1 /\ job'.at = "load" /\ job'.unit = 2
             \/ job.unit = 2 /\ job'.at = "verify"
      BY Zenon, <3>1, <3>6, GotoRecord DEF JobSteps
    <3>8. /\ target'[job.unit].val = job.art.data[job.unit]
          /\ \A u \in Units : u # job.unit => target'[u] = target[u]
      BY SMTT(30), <3>1, <3>3, <3>5, UnitRecords
    <3>9. \A u \in Units : target'[u].val = IF u <= job.unit THEN job.art.data[u] ELSE Nothing
      BY SMTT(30), <3>1, <3>2, <3>8
    <3>10. CASE job.unit = 1 /\ job'.at = "load" /\ job'.unit = 2
      <4>1. \A u \in Units : target'[u].val = IF u < 2 THEN job.art.data[u] ELSE Nothing
        BY SMTT(30), <3>1, <3>9, <3>10
      <4> QED
        BY SMTT(30), <3>7, <3>10, <4>1 DEF RedisInv
    <3>11. CASE job.unit = 2 /\ job'.at = "verify"
      <4>1. \A u \in Units : target'[u].val = job.art.data[u]
        BY SMTT(30), <3>1, <3>9, <3>11
      <4> QED
        BY Zenon, <3>7, <3>11, <4>1 DEF RedisInv
    <3> QED
      BY Zenon, <3>7, <3>10, <3>11
  <2> SUFFICES ASSUME TypeOK, RedisInv, engine = "redis", Next
               PROVE  RedisInv'
    BY Zenon
  <2> SUFFICES ASSUME job'.op = "restore", count'["foreign"] = 0, ttl' # "gone"
               PROVE  RedisInv'
    BY Zenon DEF RedisInv
  <2>0. count["foreign"] = 0 /\ ~ForeignWrites
    BY Zenon, NoForeign
  <2>1. CASE RedisRestoreLoad
    BY Zenon, <2>1, <2>RedisLoadNext
  <2>2. CASE RedisRetryReset
    <3>1. RedisEmpty /\ Goto("load", 1) /\ UNCHANGED target /\ job.op = "restore"
      BY Zenon, <2>2, IdleRecord DEF RedisRetryReset, EndJob, atTarget, JobAt
    <3>2. job'.at = "load" /\ job'.unit = 1
      <4>1. job \in Jobs
        BY Zenon DEF TypeOK, JobOK
      <4> QED
        BY Zenon, <3>1, <4>1, GotoRecord DEF JobSteps, Units
    <3>3. \A u \in Units : target'[u].val = Nothing /\ ~(u < 1)
      BY SMTT(30), <3>1 DEF RedisEmpty, Units
    <3> QED
      BY Zenon, <3>2, <3>3 DEF RedisInv
  <2>3. CASE RestoreStarts
    <3>1. PICK m \in Migrations : RedisRestore(m)
      BY ZenonT(40), <2>3 DEF RestoreStarts, PostgresRestore, PostgresRestoreDatabaseSet, MySQLRestore, MongoDBRestore
    <3>2. PICK at \in {"load", "flush"} :
            StartJob("restore", m, at, FALSE, artifact[m]) /\ UNCHANGED target /\ (at = "load" => RedisEmpty)
      BY Zenon, <3>1 DEF RedisRestore, atTarget
    <3>3. artifact[m] \in Artifacts \cup {None} /\ at \in JobSteps
      BY Zenon DEF TypeOK, RecordsOK, JobSteps
    <3>4. job'.at = at /\ job'.unit = 1
      BY ZenonT(40), <3>2, <3>3, StartRecord
    <3>5. at = "load" => \A u \in Units : target'[u].val = Nothing /\ ~(u < 1)
      BY <3>2 DEF RedisEmpty, Units
    <3> QED
      BY Zenon, <3>4, <3>5 DEF RedisInv
  <2>4. CASE ResetSteps
    <3>1. FlushRedisDatabases
      BY Zenon, <2>4 DEF ResetSteps, PostgresResetDrop, PostgresResetCreate, MySQLRevoke, MySQLResetDrop, MySQLResetCreate,
         MongoDBResetDrop, JobAt
    <3>2. job.op # "idle" /\ job \in Jobs /\ job.at = "flush"
      BY ZenonT(40), <2>4, <3>1, StepsMoveJob DEF TypeOK, JobOK, FlushRedisDatabases
    <3>3. PICK at \in {"mark", "flushed"} : NextUnit("flush", at)
      BY Zenon, <3>1 DEF FlushRedisDatabases
    <3>4. Goto("flush", 2) \/ Goto(at, 1)
      BY Zenon, <3>2, <3>3, NextUnitGoes DEF JobSteps
    <3>5. job'.at \in {"flush", "mark", "flushed"}
      BY Zenon, <3>2, <3>4, GotoRecord DEF JobSteps, Units
    <3> QED
      BY ZenonT(40), <3>5 DEF RedisInv
  <2>5. ~(Verdicts \/ ResetStarts \/ Marks)
    <3>1. ~ResetStarts
      <4>1. JobStarts("reset") => job'.op = "reset"
        BY SMTT(30), StartRecord DEF JobStarts
      <4> QED
        BY Zenon, <4>1, StartsJob
    <3>2. ~(Marks \/ Verdicts)
      <4>1. Marks \/ RedisRestoreVerify => EndJob
        BY Zenon DEF Marks, PostgresResetMark, MySQLResetMark, MongoDBResetMark, RedisResetMark, RedisRestoreVerify
      <4>2. Verdicts => RedisRestoreVerify
        BY Zenon DEF Verdicts, PostgresRestoreCheck, PostgresRestoreVerify, MySQLRestoreVerify, MongoDBRestoreVerify, JobAt
      <4> QED
        BY Zenon, <4>1, <4>2, IdleRecord DEF EndJob
    <3> QED
      BY Zenon, <3>1, <3>2
  <2>6. CASE KeyAges
    <3>1. UNCHANGED <<target, job>> /\ ttl # "gone"
      BY Zenon, <2>6 DEF KeyAges
    <3> QED
      BY <2>0, <3>1, Zenon DEF RedisInv
  <2>7. CASE \/ Writes \/ AclChanges \/ OplogMoves \/ Inspects \/ DumpStarts \/ SqlDumpSteps \/ MongoDBDumpSteps
             \/ WriteRedisArchive \/ Verifies \/ Interrupt
    <3>1. UNCHANGED <<target, job, ttl>>
      <4>1. Interrupt => UNCHANGED job
        BY Zenon, IdleRecord DEF Interrupt
      <4> QED
        BY <2>7, <4>1, SourceFrame, DumpFrame, RestoreFrame, Zenon
    <3> QED
      BY <2>0, <3>1, Zenon DEF RedisInv
  <2>8. RestoreSteps => RedisRetryReset \/ RedisRestoreLoad
    BY Zenon DEF RestoreSteps, PostgresRestoreLoad, PostgresRestoreACL, MySQLRestoreLoad, MySQLRestoreGrant,
       MongoDBRestoreLoad, ApplyMongoDBOplogDelta, ApplyMongoDBIdentities, JobAt
  <2> QED
    BY <2>0, <2>1, <2>2, <2>3, <2>4, <2>5, <2>6, <2>7, <2>8, NextCases, Zenon
<1> SUFFICES ASSUME TypeOK, ArtInv, RestoreInv, Next
             PROVE  RestoreInv'
  BY Zenon
<1>1. engine' = engine
  BY Zenon, HostsStay
<1> QED
  BY ZenonT(40), <1>1, <1>PostgresInvNext, <1>MySQLInvNext, <1>MongoDBInvNext, <1>RedisInvNext DEF RestoreInv

----------------------------------------------------------------------------
(* Verdicts *)

\* A restore that succeeds has compared; so has a verify primitive that does.
LEMMA OkMatches ==
  ASSUME TypeOK, Next, NEW m \in Migrations, Ends(m, {"ok", "verified"})
  PROVE  /\ \/ job.op = "restore" /\ job.at = "verify" /\ m = job.mig /\ Verdicts /\ done'[m].art = job.art
            \/ Verifies /\ done[m].at \in {"ok", "verified"} /\ done'[m].art = done[m].art
         /\ Matches(done'[m].art) /\ UNCHANGED <<target, grants>>
<1>0. done'[m] # done[m] /\ done'[m].at \in {"ok", "verified"} /\ done \in [Migrations -> Outcomes]
      /\ <<engine, variant>> \in Variants
  BY Zenon DEF Ends, TypeOK, DoneOK
<1>1. DoneChange(m)
  BY Zenon, DoneMoves
<1>2. \/ Verdicts /\ job.op = "restore" /\ m = job.mig /\ done'[m].at = "ok" /\ done'[m].art = job.art
      \/ /\ Verifies /\ done[m].at \in {"ok", "verified"} /\ done'[m].at = "verified" /\ done'[m].art = done[m].art
  BY ZenonT(40), <1>0, <1>1, NotDoneRecord DEF DoneChange
<1>3. CASE Verdicts /\ job.op = "restore" /\ m = job.mig /\ done'[m].at = "ok" /\ done'[m].art = job.art
  <2>1. \A ok : Verdict(ok) => ok
    <3>1. SUFFICES ASSUME NEW ok, Verdict(ok), ~ok
                   PROVE  FALSE
      BY SMTT(30)
    <3>2. done' = [done EXCEPT ![m] = [at |-> "rejected", art |-> job.art]]
      BY Zenon, <1>3, <3>1 DEF Verdict
    <3>3. done'[m].at = "rejected"
      BY Zenon, <1>0, <3>2
    <3> QED
      BY Zenon, <1>3, <3>3
  <2>2. ~UNCHANGED done
    BY Zenon, <1>0
  <2>3. CASE PostgresRestoreCheck
    BY ZenonT(40), <2>1, <2>2, <2>3 DEF PostgresRestoreCheck
  <2>a. UNCHANGED <<target, grants>>
    BY Zenon, <1>3, RestoreFrame
  <2>4. CASE PostgresRestoreVerify
    <3>1. Verdict(PostgresManifestMatches(job.art)) /\ engine = "postgres" /\ job.at = "verify"
      BY Zenon, <2>4 DEF PostgresRestoreVerify, JobAt
    <3>2. PostgresManifestMatches(job.art)
      BY SMTT(30), <2>1, <3>1
    <3> QED
      BY Zenon, <1>3, <2>a, <3>1, <3>2 DEF Matches
  <2>5. CASE MySQLRestoreVerify
    <3>1. Verdict(MySQLManifestMatches(job.art)) /\ engine = "mysql" /\ job.at = "verify"
      BY Zenon, <2>5 DEF MySQLRestoreVerify, JobAt
    <3>2. MySQLManifestMatches(job.art)
      BY SMTT(30), <2>1, <3>1
    <3> QED
      BY Zenon, <1>3, <2>a, <3>1, <3>2 DEF Matches
  <2>6. CASE MongoDBRestoreVerify
    <3>1. Verdict(MongoDBManifestMatches(job.art)) /\ engine = "mongodb" /\ job.at = "verify"
      BY Zenon, <2>6 DEF MongoDBRestoreVerify, JobAt
    <3>2. MongoDBManifestMatches(job.art)
      BY SMTT(30), <2>1, <3>1
    <3> QED
      BY Zenon, <1>3, <2>a, <3>1, <3>2 DEF Matches
  <2>7. CASE RedisRestoreVerify
    <3>1. Verdict(RedisManifestMatches(job.art)) /\ engine = "redis" /\ job.at = "verify"
      BY Zenon, <2>7 DEF RedisRestoreVerify, JobAt
    <3>2. RedisManifestMatches(job.art)
      BY SMTT(30), <2>1, <3>1
    <3> QED
      BY Zenon, <1>3, <2>a, <3>1, <3>2 DEF Matches
  <2> QED
    BY Zenon, <1>3, <2>3, <2>4, <2>5, <2>6, <2>7 DEF Verdicts
<1>4. CASE /\ Verifies /\ done[m].at \in {"ok", "verified"} /\ done'[m].at = "verified" /\ done'[m].art = done[m].art
  <2>1. PICK n \in Migrations : PostgresVerify(n) \/ MySQLVerify(n) \/ MongoDBVerify(n) \/ RedisVerify(n)
    BY Zenon, <1>4 DEF Verifies
  <2>2. \A ok : Verified(n, ok) => n = m /\ ok
    <3>1. SUFFICES ASSUME NEW ok, Verified(n, ok)
                   PROVE  n = m /\ ok
      BY Zenon
    <3>2. done' = [done EXCEPT ![n].at = IF ok THEN "verified" ELSE "failed"]
      BY Zenon, <3>1 DEF Verified
    <3>3. n = m
      BY Zenon, <1>0, <3>2
    <3>4. ~ok => done'[m].at = "failed"
      <4>1. ~ok => done'[m] = [done[m] EXCEPT !.at = "failed"]
        BY Zenon, <1>0, <3>2, <3>3
      <4>2. LET p == [done[m] EXCEPT !.at = "failed"] IN p.at = "failed"
        BY Zenon, <1>0, VerifiedRecord
      <4> QED
        BY ZenonT(40), <4>1, <4>2
    <3> QED
      BY Zenon, <1>4, <3>3, <3>4
  <2>a. UNCHANGED <<target, grants>>
    BY Zenon, <1>4, RestoreFrame
  <2>3. CASE PostgresVerify(n)
    <3>1. Verified(n, PostgresManifestMatches(done[n].art)) /\ engine = "postgres"
      BY Zenon, <2>3 DEF PostgresVerify
    <3>2. n = m /\ PostgresManifestMatches(done[n].art)
      BY SMTT(30), <2>2, <3>1
    <3> QED
      BY Zenon, <1>4, <2>a, <3>1, <3>2 DEF Matches
  <2>4. CASE MySQLVerify(n)
    <3>1. Verified(n, MySQLManifestMatches(done[n].art)) /\ engine = "mysql"
      BY Zenon, <2>4 DEF MySQLVerify
    <3>2. n = m /\ MySQLManifestMatches(done[n].art)
      BY SMTT(30), <2>2, <3>1
    <3> QED
      BY Zenon, <1>4, <2>a, <3>1, <3>2 DEF Matches
  <2>5. CASE MongoDBVerify(n)
    <3>1. Verified(n, MongoDBManifestMatches(done[n].art)) /\ engine = "mongodb"
      BY Zenon, <2>5 DEF MongoDBVerify
    <3>2. n = m /\ MongoDBManifestMatches(done[n].art)
      BY SMTT(30), <2>2, <3>1
    <3> QED
      BY Zenon, <1>4, <2>a, <3>1, <3>2 DEF Matches
  <2>6. CASE RedisVerify(n)
    <3>1. Verified(n, RedisManifestMatches(done[n].art)) /\ engine = "redis"
      BY Zenon, <2>6 DEF RedisVerify
    <3>2. n = m /\ RedisManifestMatches(done[n].art)
      BY SMTT(30), <2>2, <3>1
    <3> QED
      BY Zenon, <1>4, <2>a, <3>1, <3>2 DEF Matches
  <2> QED
    BY Zenon, <2>1, <2>3, <2>4, <2>5, <2>6
<1> QED
  BY Zenon, <1>2, <1>3, <1>4

----------------------------------------------------------------------------
(* Hosts *)

LEMMA HostNext ==
  TypeOK /\ HostInv /\ Next => HostInv'
<1>MadeTogether.
      ASSUME TypeOK, HostInv, engine = "mysql", Next
      PROVE  target'[1].made = target'[2].made
  <2> USE <1>MadeTogether
  <2>0. target \in [Units -> UnitState] /\ Units = {1, 2} /\ target[1].made = target[2].made
    BY Zenon DEF TypeOK, TargetOK, Units, HostInv
  <2>1. target \in [Units -> [made: BOOLEAN, val: Contents, by: Migrations \cup {None, "other"}]]
    BY Zenon, <2>0 DEF UnitState
  <2>2. ASSUME NEW w \in Units, NEW v, NEW n, target[w].made, target' = [target EXCEPT ![w] = Holding(v, n)]
        PROVE  target'[1].made = target'[2].made
    <3>1. target'[w].made /\ \A u \in Units : u # w => target'[u] = target[u]
      BY Zenon, <2>0, <2>2, UnitRecords
    <3>2. target'[w].made = TRUE /\ target[w].made = TRUE
      BY <2>2, UnitRecords DEF Holding
    <3> QED
      BY Zenon, <2>0, <3>1, <3>2
  <2>3. CASE UNCHANGED target
    BY Zenon, <2>0, <2>3
  <2>4. CASE ForeignWrites
    BY Zenon, <2>2, <2>4 DEF ForeignWrites, ForeignWrite
  <2>5. CASE KeyAges
    BY Zenon, <2>5 DEF KeyAges
  <2>6. CASE ResetSteps
    <3>1. MySQLRevoke \/ MySQLResetDrop \/ MySQLResetCreate
      BY Zenon, <2>6 DEF ResetSteps, PostgresResetDrop, PostgresResetCreate, MongoDBResetDrop, FlushRedisDatabases, JobAt
    <3>2. UNCHANGED target \/ target' = [u \in Units |-> Absent] \/ target' = [u \in Units |-> Fresh]
      BY Zenon, <3>1 DEF MySQLRevoke, MySQLResetDrop, MySQLResetCreate
    <3>3. ASSUME NEW x, target' = [u \in Units |-> x]
          PROVE  target'[1].made = target'[2].made
      BY Zenon, <2>0, <3>3
    <3> QED
      BY Zenon, <2>3, <3>2, <3>3
  <2>7. CASE RestoreSteps
    <3>1. MySQLRestoreLoad \/ MySQLRestoreGrant
      BY ZenonT(40), <2>7 DEF RestoreSteps, PostgresRestoreLoad, PostgresRestoreACL, MongoDBRestoreLoad, ApplyMongoDBOplogDelta,
         ApplyMongoDBIdentities, RedisRetryReset, RedisRestoreLoad, JobAt
    <3>2. \/ UNCHANGED target
          \/ target[1].made /\ target' = [target EXCEPT ![job.unit] = Holding(job.art.data[job.unit], job.mig)]
      BY Zenon, <3>1 DEF MySQLRestoreLoad, MySQLRestoreGrant, MySQLExists, u_
    <3>3. job.unit \in Units
      BY Zenon DEF TypeOK, JobOK, Jobs
    <3>4. target[1].made => target[job.unit].made
      BY Zenon, <2>0, <3>3
    <3> QED
      BY Zenon, <2>2, <2>3, <3>2, <3>3, <3>4
  <2> QED
    BY Zenon, <2>3, <2>4, <2>5, <2>6, <2>7, TargetMoves
<1> SUFFICES ASSUME TypeOK, HostInv, Next
             PROVE  HostInv'
  BY Zenon
<1>0. UNCHANGED <<engine, variant>> /\ Scope' = Scope /\ Scope \subseteq Units
  BY Zenon, HostsStay, HostFacts DEF TypeOK, Scope, Last
<1>1. (engine # "redis" => ttl = "far")'
  <2>1. engine # "redis" => UNCHANGED ttl
    <3>1. KeyAges => engine = "redis"
      BY Zenon DEF KeyAges
    <3> QED
      BY <3>1, NextCases, SourceFrame, DumpFrame, ResetFrame, RestoreFrame, Zenon
  <2> QED
    BY Zenon, <1>0, <2>1 DEF HostInv
<1>2. (engine = "mysql" => target[1].made = target[2].made)'
  BY Zenon, <1>0, <1>MadeTogether
<1>3. TargetChange /\ None \notin Migrations /\ "other" \notin Migrations /\ Nothing # Foreign
  BY Zenon, TargetChanges, DatabaseHostsAssumption, VersionFacts
<1>4. (\A u \in Units : target[u].by \in Migrations => u \in Scope)'
  <2>1. ASSUME NEW u \in Units, u \notin Scope
        PROVE  target'[u] = target[u] \/ target'[u].by \notin Migrations
    <3>0. variant = "single" /\ engine = "postgres" /\ Scope = {1}
      BY Zenon, <2>1, HostFacts DEF TypeOK
    <3>1. CASE ResetSteps \/ RestoreSteps
      <4>1. job.unit \in Scope
        BY Zenon, <3>1, StepsMoveJob, IdleRecord DEF TypeOK, JobOK
      <4>2. \/ UNCHANGED target
            \/ \E x : target' = [target EXCEPT ![job.unit] = x]
        BY Zenon, <3>0, <3>1 DEF ResetSteps, RestoreSteps, PostgresResetDrop, PostgresResetCreate, MySQLRevoke, MySQLResetDrop,
           MySQLResetCreate, MongoDBResetDrop, FlushRedisDatabases, PostgresRestoreLoad, PostgresRestoreACL,
           MySQLRestoreLoad, MySQLRestoreGrant, MongoDBRestoreLoad, ApplyMongoDBOplogDelta, ApplyMongoDBIdentities,
           RedisRetryReset, RedisRestoreLoad, JobAt, u_
      <4>3. target \in [Units -> UnitState]
        BY Zenon DEF TypeOK, TargetOK
      <4> QED
        BY Zenon, <2>1, <4>1, <4>2, <4>3
    <3>2. CASE ForeignWrites
      <4>1. PICK w \in Units : w \in Scope /\ target' = [target EXCEPT ![w] = Holding(Foreign, "other")]
        BY Zenon, <3>2 DEF ForeignWrites, ForeignWrite
      <4>2. target \in [Units -> UnitState]
        BY Zenon DEF TypeOK, TargetOK
      <4> QED
        BY Zenon, <2>1, <4>1, <4>2
    <3>3. CASE KeyAges
      BY Zenon, <3>0, <3>3 DEF KeyAges
    <3> QED
      BY Zenon, <3>1, <3>2, <3>3, TargetMoves
  <2> QED
    BY Zenon, <1>0, <2>1 DEF HostInv
<1>5. (count["foreign"] = 0 => \A u \in Units : target[u].val # Foreign)'
  <2> SUFFICES ASSUME count'["foreign"] = 0, NEW u \in Units
               PROVE  target'[u].val # Foreign
    BY Zenon
  <2>1. count["foreign"] = 0 /\ ~ForeignWrites
    BY Zenon, NoForeign
  <2>2. target[u].val # Foreign
    BY Zenon, <2>1 DEF HostInv
  <2>3. ASSUME job.op = "restore"
        PROVE  job.art.data[u] # Foreign /\ job.art.delta[u] # Foreign
    <3>1. job.art \in Artifacts
      BY Zenon, <2>3 DEF TypeOK, JobOK
    <3>2. job.art.data[u] \in Versions /\ job.art.delta[u] \in Versions
      BY Zenon, <3>1, ArtifactRecord
    <3> QED
      BY Zenon, <3>2, VersionFacts
  <2>4. CASE KeyAges
    <3>1. UNCHANGED target \/ target' = [target EXCEPT ![2] = Fresh]
      BY Zenon, <2>4 DEF KeyAges
    <3>2. target \in [Units -> UnitState]
      BY Zenon DEF TypeOK, TargetOK
    <3> QED
      <4>1. target'[u] = target[u] \/ target'[u] = Fresh
        BY Zenon, <3>1, <3>2
      <4>2. Fresh.val # Foreign
        BY Zenon, UnitRecords, VersionFacts
      <4> QED
        BY Zenon, <2>2, <4>1, <4>2
  <2>5. CASE UNCHANGED target
    BY Zenon, <2>2, <2>5
  <2>6. CASE ResetSteps \/ RestoreSteps
    <3>1. target'[u] = target[u] \/ Emptied(u) \/ Filled(u)
      BY Zenon, <1>3 DEF TargetChange
    <3>2. CASE Emptied(u)
      BY Zenon, <3>2, UnitRecords, VersionFacts DEF Emptied
    <3>3. CASE job.op = "restore" /\ target'[u] \in {Holding(job.art.data[u], job.mig), Holding(job.art.delta[u], job.mig)}
      BY SMTT(30), <2>3, <3>3, UnitRecords
    <3>4. target'[u] # Holding(Foreign, "other") \/ target'[u] = target[u]
      <4>1. CASE target'[u] = Holding(Foreign, "other")
        <5>1. target'[u].by = "other" /\ target'[u].val = Foreign
          <6>1. Holding(Foreign, "other").by = "other" /\ Holding(Foreign, "other").val = Foreign
            BY Zenon DEF Holding
          <6> QED
            BY Zenon, <4>1, <6>1
        <5>2. \/ target'[u] = target[u] \/ target'[u].val = Nothing
              \/ job.op = "restore" /\ target'[u].by = job.mig /\ job.mig \in Migrations
          <6>1. \/ UNCHANGED target
                \/ \E x \in {Absent, Fresh} : target' = [target EXCEPT ![job.unit] = x] \/ target' = [w \in Units |-> x]
                \/ job.op = "restore" /\ \E v : target' = [target EXCEPT ![job.unit] = Holding(v, job.mig)]
            BY Zenon, <2>6 DEF ResetSteps, RestoreSteps, PostgresResetDrop, PostgresResetCreate, FlushRedisDatabases, u_,
               MySQLRevoke, MySQLResetDrop, MySQLResetCreate, MongoDBResetDrop, PostgresRestoreLoad,
               PostgresRestoreACL, MySQLRestoreLoad, MySQLRestoreGrant, MongoDBRestoreLoad, ApplyMongoDBOplogDelta,
               ApplyMongoDBIdentities, RedisRetryReset, RedisRestoreLoad, JobAt, atTarget
          <6>2. target \in [Units -> UnitState] /\ (job.op = "restore" => job.mig \in Migrations)
            BY Zenon, IdleRecord DEF TypeOK, TargetOK, JobOK
          <6>3. ASSUME NEW x, target' = [target EXCEPT ![job.unit] = x]
                PROVE  target'[u] = target[u] \/ target'[u] = x
            BY Zenon, <6>2, <6>3
          <6> QED
            <7>1. ASSUME NEW x \in {Absent, Fresh},
                         target' = [target EXCEPT ![job.unit] = x] \/ target' = [w \in Units |-> x]
                  PROVE  target'[u] = target[u] \/ target'[u].val = Nothing
              <8>1. x.val = Nothing
                BY Zenon, <7>1, UnitRecords
              <8>2. target'[u] = target[u] \/ target'[u] = x
                BY Zenon, <6>3, <7>1
              <8> QED
                BY Zenon, <8>1, <8>2
            <7>2. ASSUME NEW v, target' = [target EXCEPT ![job.unit] = Holding(v, job.mig)]
                  PROVE  target'[u] = target[u] \/ target'[u].by = job.mig
              <8>1. target'[u] = target[u] \/ target'[u] = Holding(v, job.mig)
                BY Zenon, <6>3, <7>2
              <8>2. Holding(v, job.mig).by = job.mig
                BY Zenon DEF Holding
              <8> QED
                BY Zenon, <8>1, <8>2
            <7> QED
              BY Zenon, <6>1, <6>2, <7>1, <7>2
        <5> QED
          BY Zenon, <1>3, <5>1, <5>2
      <4> QED
        BY Zenon, <4>1
    <3> QED
      BY Zenon, <2>2, <3>1, <3>2, <3>3, <3>4 DEF Filled
  <2> QED
    BY Zenon, <2>1, <2>4, <2>5, <2>6, TargetMoves
<1> QED
  BY Zenon, <1>1, <1>2, <1>4, <1>5 DEF HostInv

LEMMA PostgresSeen ==
  ASSUME TypeOK, engine = "postgres", NEW a \in Artifacts, PostgresManifestMatches(a), NEW u \in Scope
  PROVE  target[u].made /\ Seen(target[u].val) = a.want[u]
<1>0. u \in Units /\ a.want[u] \in Nat /\ a.acl[u] \in SUBSET Entries
  BY SMTT(30), HostFacts, ArtifactRecord DEF TypeOK
<1>1. InspectPostgres(u).manifest = PostgresExpected(a, u)
  BY Zenon DEF PostgresManifestMatches
<1>2. PostgresExpected(a, u) \in [seen: Nat, acl: SUBSET Entries]
  BY Zenon, <1>0 DEF PostgresExpected, PostgresContentManifestDigest
<1>3. InspectPostgres(u).manifest =
        IF target[u].made
          THEN PostgresContentManifestDigest(Seen(target[u].val), InspectPostgresPrivileges(grants[u]))
          ELSE None
  BY Zenon DEF InspectPostgres
<1>4. target[u].made
  BY Zenon, <1>1, <1>2, <1>3, PostgresAssumption
<1>5. \A x, p : PostgresContentManifestDigest(x, p).seen = x
  BY Zenon DEF PostgresContentManifestDigest
<1>6. PostgresExpected(a, u).seen = a.want[u]
  BY Zenon, <1>5 DEF PostgresExpected
<1> QED
  BY Zenon, <1>1, <1>3, <1>4, <1>5, <1>6

\* What a manifest that matches says of the content of a unit.
LEMMA MatchSeen ==
  ASSUME TypeOK, NEW a \in Artifacts, Matches(a), NEW u \in Scope, variant # "cache"
  PROVE  Seen(target[u].val) = a.want[u]
<1>0. u \in Units /\ engine \in {"postgres", "mysql", "mongodb", "redis"}
  BY Zenon, HostFacts DEF TypeOK
<1>1. CASE engine = "postgres"
  BY Zenon, <1>1, PostgresSeen DEF Matches
<1>2. CASE engine \in {"mysql", "mongodb"}
  <2>1. [w \in Units |-> Seen(target[w].val)] = a.want
    BY Zenon, <1>2 DEF Matches, MySQLManifestMatches, MySQLManifest, MySQLTableDataDigest, MongoDBManifestMatches,
       MongoDBManifest
  <2> QED
    BY Zenon, <1>0, <2>1
<1>3. CASE engine = "redis"
  <2>1. [w \in Units |-> Seen(target[w].val)] = a.want
    BY Zenon, <1>3 DEF Matches, RedisManifestMatches, RedisManifestDigest
  <2> QED
    BY Zenon, <1>0, <2>1
<1> QED
  BY ZenonT(40), <1>0, <1>1, <1>2, <1>3

LEMMA CutNext ==
  ASSUME TypeOK, ArtInv, RestoreInv, CutInv, Next
  PROVE  CutInv'
<1>0. UNCHANGED <<engine, variant>> /\ Scope' = Scope /\ Sql' = Sql
  BY Zenon, HostsStay DEF Scope, Last, Sql
<1> SUFFICES ASSUME NEW m \in Migrations, Sql, done'[m].at \in {"ok", "verified"}, NEW u \in Scope
             PROVE  done'[m].art.want[u] = done'[m].art.cut[u]
  BY Zenon, <1>0 DEF CutInv
<1>1. CASE done'[m] = done[m]
  BY Zenon, <1>1 DEF CutInv
<1>2. CASE done'[m] # done[m]
  <2>1. Ends(m, {"ok", "verified"})
    BY Zenon, <1>2 DEF Ends
  <2>2. CASE Verifies /\ done[m].at \in {"ok", "verified"} /\ done'[m].art = done[m].art
    BY Zenon, <2>2 DEF CutInv
  <2>3. CASE job.op = "restore" /\ job.at = "verify" /\ done'[m].art = job.art
    <3>1. Matches(job.art) /\ job.art \in Artifacts /\ Good(job.art)
      <4>1. Matches(done'[m].art)
        BY Zenon, <2>1, OkMatches
      <4> QED
        BY Zenon, <2>3, <4>1 DEF TypeOK, JobOK, ArtInv
    <3>2. variant # "cache" /\ u \in Units
      BY Zenon, HostFacts DEF TypeOK, Sql
    <3>3. Seen(target[u].val) = job.art.want[u]
      BY Zenon, <3>1, <3>2, MatchSeen
    <3>4. target[u].val \in {job.art.data[u], Foreign}
      BY Zenon, <2>3, <3>2 DEF RestoreInv, PostgresInv, MySQLInv, Loaded, Sql
    <3> QED
      BY Zenon, <2>3, <3>1, <3>3, <3>4, GoodData
  <2> QED
    BY ZenonT(40), <2>1, <2>2, <2>3, OkMatches
<1> QED
  BY Zenon, <1>1, <1>2

----------------------------------------------------------------------------
(* The invariant *)

LEMMA InitInv ==
  ASSUME Init
  PROVE  IInv
<1>1. SetInv /\ CutInv
  BY ZenonT(40), InitFacts, IdleRecord DEF SetInv, CutInv
<1>2. RestoreInv
  <2>1. job.op = "idle" /\ grants[1] = {} /\ \A u \in Units : grants[u] = {}
    BY Zenon, InitFacts, IdleRecord DEF Units
  <2> QED
    BY ZenonT(40), <2>1 DEF RestoreInv, PostgresInv, MySQLInv, MongoDBInv, RedisInv
<1>3. HostInv
  <2>1. PICK t \in {Absent, Fresh} : target = [u \in Units |-> t]
    BY Zenon, InitFacts
  <2>2. \A u \in Units : target[u].val = Nothing /\ target[u].by = None /\ target[u] = t
    BY Zenon, <2>1, UnitRecords
  <2>3. None \notin Migrations /\ Nothing # Foreign /\ 1 \in Units /\ 2 \in Units
    BY Zenon, DatabaseHostsAssumption, VersionFacts DEF Units
  <2>4. ttl = "far"
    BY Zenon, InitFacts
  <2> QED
    BY Zenon, <2>2, <2>3, <2>4 DEF HostInv
<1> QED
  BY Zenon, <1>1, <1>2, <1>3, InitArtifacts DEF IInv, ArtifactInv

LEMMA Inductive == IInv /\ [Next]_vars => IInv'
<1>1. ASSUME IInv, Next
      PROVE  IInv'
  <2>1. TypeOK /\ SourceInv /\ DumpInv /\ ArtInv /\ RestoreInv /\ SetInv /\ CutInv /\ HostInv
    BY Zenon, <1>1 DEF IInv
  <2>2. TypeOK' /\ SourceInv' /\ DumpInv' /\ ArtInv'
    BY Zenon, <1>1, <2>1, ArtifactsNext DEF ArtifactInv
  <2>3. RestoreInv'
    BY Zenon, <1>1, <2>1, RestoreNext
  <2>4. SetInv' /\ CutInv' /\ HostInv'
    BY ZenonT(40), <1>1, <2>1, SetNext, CutNext, HostNext
  <2> QED
    BY Zenon, <2>2, <2>3, <2>4 DEF IInv
<1>2. ASSUME IInv, UNCHANGED vars
      PROVE  IInv'
  <2>0. /\ UNCHANGED <<engine, variant, source, acl, oplog, oldest, ttl, target, grants>>
        /\ UNCHANGED <<marker, approved, artifact, dump, job, done, count>>
    BY Zenon, <1>2 DEF vars, hosts, atSource, atTarget, records
  <2>1. TypeOK' /\ SourceInv' /\ DumpInv' /\ ArtInv'
    BY Zenon, <1>2, ArtifactsNext DEF IInv, ArtifactInv
  <2>4. RestoreInv'
    BY <1>2, <2>0, ZenonT(40) DEF IInv, RestoreInv, PostgresInv, MySQLInv, MongoDBInv, RedisInv, Loaded, Granted, SamePrivileges,
       Restored, Scope, Last
  <2>5. SetInv' /\ CutInv'
    BY <1>2, <2>0, Zenon DEF IInv, SetInv, CutInv, OwnedByRun, LoadMarker, Sql, Scope, Last
  <2>6. HostInv'
    BY <1>2, <2>0, Zenon DEF IInv, HostInv, Scope, Last
  <2> QED
    BY ZenonT(40), <2>1, <2>4, <2>5, <2>6 DEF IInv
<1> QED
  BY Zenon, <1>1, <1>2

----------------------------------------------------------------------------
(* The theorems *)

\* IInv is an invariant.
THEOREM Invariant == Spec => []IInv
<1>1. Init => IInv
  BY Zenon, InitInv
<1> QED
  BY <1>1, Inductive, PTL DEF Spec

\* postgresResetDatabaseSet saves its marker before it drops the first database, so that the approval
\* rule of the resets lets its migration run it again, whatever it had dropped or created when it died.
THEOREM SetResets == Spec => []SetResetRetryable
<1>1. IInv => SetResetRetryable
  BY Zenon DEF IInv, SetInv, SetResetRetryable, Approves
<1> QED
  BY <1>1, Invariant, PTL

\* What a restore that succeeds leaves in the target, and a verify primitive confirms, is the source at one
\* moment, for every engine, any number of migrations and of writes: the source only moves on, so content
\* that was dumped after the inspection and still matches it had not changed in between (PostgreSQL, MySQL);
\* or the delta explains every difference (MongoDB); or the source kept still (Redis).
THEOREM RestoresACut == Spec => RestoredIsCut
<1>1. ASSUME IInv, IInv', Next, NEW m \in Migrations, Ends(m, {"ok", "verified"}),
             engine = "redis" => done'[m].art.calm, NEW u \in Scope
      PROVE  Seen(target'[u].val) = done'[m].art.cut[u]
  <2>0. TypeOK /\ UNCHANGED <<engine, variant>> /\ u \in Units
    BY Zenon, <1>1, HostsStay, HostFacts DEF IInv, TypeOK
  <2>1. Matches(done'[m].art) /\ target' = target
    BY Zenon, <1>1, <2>0, OkMatches
  <2>2. done'[m].at \in {"ok", "verified"} /\ done'[m].art \in Artifacts
    BY Zenon, <1>1 DEF Ends, IInv, TypeOK, DoneOK
  <2>3. Good(done'[m].art)
    <3>1. (\A n \in Migrations : done[n].at # "no" => Good(done[n].art))'
      BY Zenon, <1>1 DEF IInv, ArtInv
    <3>2. Good(done[m].art)'
      BY Zenon, <2>2, <3>1
    <3> QED
      BY <2>0, <3>2, Zenon DEF Good, Sql, Scope, Last, Merged, Restored, RedisManifestDigest
  <2>4. variant # "cache" => Seen(target[u].val) = done'[m].art.want[u]
    BY Zenon, <2>0, <2>1, <2>2, MatchSeen
  <2>5. CASE Sql
    <3>1. (Sql /\ done[m].at \in {"ok", "verified"} => \A w \in Scope : done[m].art.want[w] = done[m].art.cut[w])'
      BY Zenon, <1>1 DEF IInv, CutInv
    <3>2. done'[m].art.want[u] = done'[m].art.cut[u]
      BY Zenon, <2>0, <2>2, <2>5, <3>1 DEF Sql, Scope, Last
    <3>3. variant # "cache"
      BY Zenon, <2>0, <2>5, HostFacts DEF Sql, TypeOK
    <3> QED
      BY Zenon, <2>1, <2>4, <3>2, <3>3
  <2>6. CASE engine = "mongodb"
    <3>1. done'[m].art.want = done'[m].art.cut
      BY Zenon, <2>3, <2>6 DEF Good
    <3>2. variant # "cache"
      BY Zenon, <2>0, <2>6, HostFacts DEF TypeOK
    <3> QED
      BY Zenon, <2>1, <2>4, <3>1, <3>2
  <2>7. CASE engine = "redis"
    <3>1. done'[m].art.want = done'[m].art.cut
      BY ZenonT(40), <1>1, <2>3, <2>7 DEF Good
    <3>2. CASE variant = "cache"
      <4>1. done'[m].art.data[u] = Nothing /\ done'[m].art.want = [w \in Units |-> 0]
        BY ZenonT(40), <2>0, <2>3, <2>7, <3>2 DEF Good, RedisManifestDigest
      <4>2. target[u].val = Nothing
        BY ZenonT(40), <2>0, <2>1, <2>7, <4>1 DEF Matches, RedisManifestMatches, VerifyRedisArchiveTarget
      <4> QED
        BY SMTT(30), <2>0, <2>1, <3>1, <4>1, <4>2, VersionFacts
    <3> QED
      BY ZenonT(40), <2>1, <2>4, <3>1, <3>2
  <2> QED
    BY ZenonT(40), <2>0, <2>5, <2>6, <2>7, HostFacts DEF Sql, TypeOK
<1>2. IInv /\ IInv' /\ [Next]_vars =>
        [\A m \in Migrations :
           Ends(m, {"ok", "verified"}) /\ (engine = "redis" => done'[m].art.calm) =>
             \A u \in Scope : Seen(target'[u].val) = done'[m].art.cut[u]]_vars
  BY ZenonT(40), <1>1
<1> QED
  BY <1>2, Invariant, PTL DEF Spec, RestoredIsCut

----------------------------------------------------------------------------
(* Ownership of the target *)

\* A saved marker is found by every migration with its binding, and by no other.
LEMMA Saved ==
  ASSUME TypeOK, NEW m \in Migrations, NEW n \in Migrations, SaveMarker(m)
  PROVE  /\ BindingOf[n] = BindingOf[m] => LoadMarker(n)'.mig = m
         /\ BindingOf[n] # BindingOf[m] => LoadMarker(n)' = LoadMarker(n)
<1>1. BindingOf[n] \in Bindings /\ BindingOf[m] \in Bindings /\ DOMAIN marker = Bindings
  BY Zenon DEF Bindings, TypeOK, RecordsOK
<1>2. BindingOf[n] = BindingOf[m] => marker'[BindingOf[n]] = [mig |-> m, empty |-> approved[m]]
  BY Zenon, <1>1 DEF SaveMarker
<1>3. BindingOf[n] # BindingOf[m] => marker'[BindingOf[n]] = marker[BindingOf[n]]
  BY Zenon, <1>1 DEF SaveMarker
<1>4. BindingOf[n] = BindingOf[m] => LoadMarker(n)'.mig = m
  BY SMTT(30), <1>2 DEF LoadMarker
<1> QED
  BY Zenon, <1>3, <1>4 DEF LoadMarker

ResetsOf(m) == PostgresReset(m) \/ PostgresResetDatabaseSet(m) \/ MySQLReset(m) \/ MongoDBReset(m) \/ RedisReset(m)
RestoresOf(m) ==
  PostgresRestore(m) \/ PostgresRestoreDatabaseSet(m) \/ MySQLRestore(m) \/ MongoDBRestore(m) \/ RedisRestore(m)

\* The approval rule, and the marker a restore asks for.
LEMMA StartRules ==
  ASSUME NEW m \in Migrations
  PROVE  /\ RestoresOf(m) => LoadMarker(m).mig = m
         /\ ResetsOf(m) => \/ LoadMarker(m).mig = m
                           \/ engine = "postgres" /\ PostgresEmpty
                           \/ engine = "mysql" /\ MySQLEmpty
                           \/ engine = "mongodb" /\ MongoDBEmpty
                           \/ engine = "redis" /\ RedisEmpty
<1>1. RestoresOf(m) => LoadMarker(m).mig = m
  BY ZenonT(40) DEF RestoresOf, PostgresRestore, PostgresRestoreDatabaseSet, MySQLRestore, MongoDBRestore, RedisRestore
<1>2. \A e, d : Approves(m, e, d) => e \/ LoadMarker(m).mig = m
  BY Zenon DEF Approves, OwnedByRun
<1>3. PostgresReset(m) \/ PostgresResetDatabaseSet(m) => engine = "postgres" /\ Approves(m, PostgresEmpty, InspectPostgresDatabaseSet)
  BY Zenon DEF PostgresReset, PostgresResetDatabaseSet
<1>4. MySQLReset(m) => engine = "mysql" /\ Approves(m, MySQLEmpty, MySQLEmptyTargetDigest)
  BY Zenon DEF MySQLReset
<1>5. MongoDBReset(m) => engine = "mongodb" /\ Approves(m, MongoDBEmpty, "empty")
  BY Zenon DEF MongoDBReset
<1>6. RedisReset(m) => engine = "redis" /\ Approves(m, RedisEmpty, RedisEmptyTargetDigest)
  BY Zenon DEF RedisReset
<1> QED
  BY SMTT(30), <1>1, <1>2, <1>3, <1>4, <1>5, <1>6 DEF ResetsOf

\* A verdict that changes an outcome ends the restore; a verify primitive has the host for itself.
LEMMA OutcomeFrame ==
  /\ Verdicts => UNCHANGED done \/ EndJob
  /\ Verifies => job = IdleJob /\ UNCHANGED job
<1>1. Verdicts => UNCHANGED done \/ EndJob
  BY ZenonT(40) DEF Verdicts, PostgresRestoreCheck, PostgresRestoreVerify, MySQLRestoreVerify, MongoDBRestoreVerify, RedisRestoreVerify
<1>2. Verifies => job = IdleJob /\ UNCHANGED job
  BY Zenon DEF Verifies, PostgresVerify, MySQLVerify, MongoDBVerify, RedisVerify, Verified
<1> QED
  BY Zenon, <1>1, <1>2

LEMMA StartOf ==
  ASSUME TypeOK, ResetStarts \/ RestoreStarts
  PROVE  \E m \in Migrations :
           /\ ResetsOf(m) \/ RestoresOf(m)
           /\ job = IdleJob /\ job'.mig = m /\ job'.op \in {"reset", "restore"} /\ done'[m].at = "no"
           /\ (job'.op = "restore" <=> RestoresOf(m)) /\ (job'.op = "reset" <=> ResetsOf(m))
<1>0. done \in [Migrations -> Outcomes] /\ artifact \in [Migrations -> Artifacts \cup {None}]
  BY Zenon DEF TypeOK, DoneOK, RecordsOK
<1>1. ASSUME NEW m \in Migrations, ResetsOf(m)
      PROVE  job = IdleJob /\ job'.mig = m /\ job'.op = "reset" /\ done'[m].at = "no"
  <2>1. PICK at \in JobSteps, o \in BOOLEAN : StartJob("reset", m, at, o, None) /\ Forget(m)
    BY Zenon, <1>1 DEF ResetsOf, PostgresReset, PostgresResetDatabaseSet, MySQLReset, MongoDBReset, RedisReset, JobSteps, OwnedByRun
  <2>2. job = IdleJob /\ job'.mig = m /\ job'.op = "reset"
    BY SMTT(30), <2>1, StartRecord
  <2>3. done'[m] = NotDone
    BY Zenon, <1>0, <2>1 DEF Forget
  <2> QED
    BY Zenon, <2>2, <2>3, NotDoneRecord
<1>2. ASSUME NEW m \in Migrations, RestoresOf(m)
      PROVE  job = IdleJob /\ job'.mig = m /\ job'.op = "restore" /\ done'[m].at = "no"
  <2>1. PICK at \in JobSteps : StartJob("restore", m, at, FALSE, artifact[m]) /\ Forget(m)
    BY Zenon, <1>2 DEF RestoresOf, PostgresRestore, PostgresRestoreDatabaseSet, MySQLRestore, MongoDBRestore, RedisRestore, JobSteps
  <2>2. job = IdleJob /\ job'.mig = m /\ job'.op = "restore"
    BY ZenonT(40), <1>0, <2>1, StartRecord
  <2>3. done'[m] = NotDone
    BY Zenon, <1>0, <2>1 DEF Forget
  <2> QED
    BY Zenon, <2>2, <2>3, NotDoneRecord
<1>3. PICK m \in Migrations : ResetsOf(m) \/ RestoresOf(m)
  BY Zenon DEF ResetStarts, RestoreStarts, ResetsOf, RestoresOf
<1> QED
  BY Zenon, <1>1, <1>2, <1>3

LEMMA OwnNext ==
  TypeOK /\ ArtInv /\ HostInv /\ OwnInv /\ Next => OwnInv'
<1>StartsOwn.
      ASSUME TypeOK, HostInv, OwnInv, NEW m \in Migrations, ResetsOf(m) \/ RestoresOf(m),
             NEW u \in Units, target[u].by \in Migrations
      PROVE  Entitled(m, target[u].by)
  <2> USE <1>StartsOwn
  <2>0. /\ LoadMarker(target[u].by).mig = target[u].by /\ (engine # "mongodb" => target[u].val # Nothing)
        /\ u \in Scope /\ None \notin Migrations /\ u \in {1, 2}
    BY Zenon, DatabaseHostsAssumption DEF OwnInv, HostInv, Units
  <2>1. CASE LoadMarker(m).mig = m
    <3>1. BindingOf[m] = BindingOf[target[u].by] => LoadMarker(m) = LoadMarker(target[u].by)
      BY Zenon DEF LoadMarker
    <3> QED
      BY Zenon, <2>0, <2>1, <3>1 DEF Entitled
  <2>2. CASE engine = "postgres" /\ PostgresEmpty
    BY ZenonT(40), <2>0, <2>2 DEF PostgresEmpty, InspectPostgres
  <2>3. CASE engine = "mysql" /\ MySQLEmpty
    <3>1. MySQLExists
      <4>1. ASSUME ~target[1].made
            PROVE  FALSE
        <5>1. 1 \in Units /\ 2 \in Units
          BY Zenon DEF Units
        <5>2. ~target[2].made
          BY Zenon, <2>3, <4>1 DEF HostInv
        <5>3. target[u] = Absent
          BY Zenon, <2>0, <4>1, <5>1, <5>2 DEF TypeOK, TargetOK
        <5> QED
          BY Zenon, <2>0, <5>3, UnitRecords
      <4> QED
        BY Zenon, <4>1 DEF MySQLExists
    <3> QED
      BY Zenon, <2>0, <2>3, <3>1 DEF MySQLEmpty, MySQLTables
  <2>4. CASE engine = "mongodb" /\ MongoDBEmpty
    BY Zenon, <2>0, <2>4, UnitRecords DEF MongoDBEmpty
  <2>5. CASE engine = "redis" /\ RedisEmpty
    BY Zenon, <2>0, <2>5 DEF RedisEmpty
  <2> QED
    BY Zenon, <2>1, <2>2, <2>3, <2>4, <2>5, StartRules
\* A unit that comes to belong to a migration is filled by the restore at work, with content.
<1>UnitFilled.
      ASSUME TypeOK, ArtInv, Next, NEW u \in Units, target'[u].by \in Migrations, target'[u] # target[u]
      PROVE  /\ job.op = "restore" /\ target'[u].by = job.mig
             /\ engine # "mongodb" => target'[u].val # Nothing
  <2> USE <1>UnitFilled
  <2>0. /\ target \in [Units -> UnitState] /\ None \notin Migrations /\ "other" \notin Migrations
        /\ job \in Jobs
    BY Zenon, DatabaseHostsAssumption DEF TypeOK, TargetOK, JobOK
  <2>1. ASSUME NEW w, NEW x, target' = [target EXCEPT ![w] = x]
        PROVE  u = w /\ target'[u] = x
    BY Zenon, <2>0, <2>1
  <2>2. ASSUME NEW w, NEW x \in {Absent, Fresh, Holding(Foreign, "other")}, target' = [target EXCEPT ![w] = x]
        PROVE  FALSE
    <3>1. target'[u] = x
      BY Zenon, <2>1, <2>2
    <3> QED
      BY SMTT(30), <2>0, <3>1, UnitRecords
  <2>3. CASE ForeignWrites \/ KeyAges
    BY ZenonT(40), <2>2, <2>3 DEF ForeignWrites, ForeignWrite, KeyAges
  <2>4. CASE ResetSteps
    <3>1. \/ UNCHANGED target
          \/ \E x \in {Absent, Fresh} : target' = [target EXCEPT ![job.unit] = x] \/ target' = [w \in Units |-> x]
      BY ZenonT(40), <2>4 DEF ResetSteps, PostgresResetDrop, PostgresResetCreate, FlushRedisDatabases, u_,
         MySQLRevoke, MySQLResetDrop, MySQLResetCreate, MongoDBResetDrop
    <3>2. ASSUME NEW x \in {Absent, Fresh}, target' = [w \in Units |-> x]
          PROVE  FALSE
      <4>1. target'[u] = x
        BY Zenon, <3>2
      <4> QED
        BY Zenon, <2>0, <4>1, UnitRecords
    <3> QED
      BY Zenon, <2>2, <3>1, <3>2
  <2>5. CASE RestoreSteps
    <3>1. /\ job.op = "restore"
          /\ \/ UNCHANGED target
             \/ \E v : target' = [target EXCEPT ![job.unit] = Holding(v, job.mig)]
      BY ZenonT(40), <2>5 DEF RestoreSteps, PostgresRestoreLoad, PostgresRestoreACL, MySQLRestoreLoad, MySQLRestoreGrant,
         MongoDBRestoreLoad, ApplyMongoDBOplogDelta, ApplyMongoDBIdentities, RedisRetryReset, RedisRestoreLoad,
         JobAt, u_, atTarget
    <3>2. target'[u].by = job.mig
      <4>1. PICK v : target' = [target EXCEPT ![job.unit] = Holding(v, job.mig)]
        BY Zenon, <3>1
      <4>2. target'[u] = Holding(v, job.mig)
        BY <2>1, <4>1, Zenon
      <4> QED
        BY SMTT(30), <4>2 DEF Holding
    <3>3. ASSUME engine # "mongodb"
          PROVE  target'[u].val # Nothing
      <4>1. /\ target' = [target EXCEPT ![job.unit] = Holding(job.art.data[job.unit], job.mig)]
            /\ engine = "redis" => job.art.data[job.unit] # Nothing
        BY Zenon, <2>5, <3>3 DEF RestoreSteps, PostgresRestoreLoad, PostgresRestoreACL, MySQLRestoreLoad, MySQLRestoreGrant,
           MongoDBRestoreLoad, ApplyMongoDBOplogDelta, ApplyMongoDBIdentities, RedisRetryReset, RedisRestoreLoad,
           JobAt, u_, atTarget, ReadRedisArchive
      <4>2. engine # "redis" => Sql
        BY ZenonT(40), <3>3, HostFacts DEF Sql, TypeOK
      <4>3. job.art \in Artifacts /\ Good(job.art) /\ job.unit \in Scope
        BY Zenon, <3>1, IdleRecord DEF TypeOK, JobOK, ArtInv
      <4>4. job.art.data[job.unit] # Nothing
        BY ZenonT(40), <4>1, <4>2, <4>3, GoodData
      <4>5. target'[u] = Holding(job.art.data[job.unit], job.mig)
        BY Zenon, <2>1, <4>1
      <4> QED
        BY SMTT(30), <4>4, <4>5, UnitRecords
    <3> QED
      BY Zenon, <3>1, <3>2, <3>3
  <2> QED
    BY Zenon, <2>3, <2>4, <2>5, TargetMoves
<1> SUFFICES ASSUME TypeOK, ArtInv, HostInv, OwnInv, Next
             PROVE  OwnInv'
  BY Zenon
<1>0. /\ job = IdleJob \/ (job.op # "idle" /\ job.mig \in Migrations)
      /\ job \in Jobs /\ IdleJob.op = "idle" /\ engine' = engine
  BY Zenon, IdleRecord, HostsStay DEF TypeOK, JobOK
<1>1. ASSUME job.op # "idle", job'.op # "idle"
      PROVE  job'.mig = job.mig /\ job'.op = job.op /\ UNCHANGED marker
  <2>1. UNCHANGED job \/ JobGoes
    BY Zenon, <1>0, <1>1, JobCases DEF EndJob, JobStarts, StartJob
  <2>2. job'.mig = job.mig /\ job'.op = job.op
    BY <1>0, <2>1, Zenon DEF JobGoes, Goto, Jobs
  <2>3. UNCHANGED marker
    BY Zenon, <1>0, <1>1, MarkerMoves DEF EndJob, PostgresResetDatabaseSet, StartJob
  <2> QED
    BY ZenonT(40), <2>2, <2>3
<1>2. ASSUME job.op = "idle", job'.op # "idle"
      PROVE  \E m \in Migrations :
               /\ ResetsOf(m) \/ RestoresOf(m)
               /\ job'.mig = m /\ done'[m].at = "no" /\ (job'.op = "restore" <=> RestoresOf(m))
  <2>1. ResetStarts \/ RestoreStarts
    BY ZenonT(40), <1>0, <1>2, JobCases DEF EndJob, JobGoes
  <2> QED
    BY Zenon, <2>1, StartOf
<1>3. ASSUME job'.op # "idle"
      PROVE  done'[job'.mig].at = "no"
  <2>1. CASE job.op = "idle"
    BY Zenon, <1>2, <1>3, <2>1
  <2>2. CASE job.op # "idle"
    <3>1. job'.mig = job.mig /\ job.mig \in Migrations /\ done[job.mig].at = "no"
      BY ZenonT(40), <1>0, <1>1, <1>3, <2>2 DEF OwnInv
    <3>2. DoneChange(job.mig)
      BY Zenon, <3>1, DoneMoves
    <3>3. CASE done'[job.mig] = done[job.mig] \/ done'[job.mig] = NotDone
      BY Zenon, <3>1, <3>3, NotDoneRecord
    <3>4. ~(EndJob \/ job = IdleJob)
      BY Zenon, <1>0, <1>3, <2>2 DEF EndJob
    <3> QED
      BY Zenon, <3>1, <3>2, <3>3, <3>4, OutcomeFrame DEF DoneChange
  <2> QED
    BY Zenon, <2>1, <2>2
<1>4. ASSUME job'.op = "restore"
      PROVE  LoadMarker(job.mig)'.mig = job'.mig
  <2>1. CASE job.op = "idle"
    <3>1. PICK m \in Migrations : RestoresOf(m) /\ job'.mig = m
      BY Zenon, <1>2, <1>4, <2>1
    <3>2. UNCHANGED marker
      BY Zenon, <3>1 DEF RestoresOf, PostgresRestore, PostgresRestoreDatabaseSet, MySQLRestore, MongoDBRestore, RedisRestore, records
    <3>3. LoadMarker(m).mig = m
      BY Zenon, <3>1, StartRules
    <3> QED
      BY Zenon, <3>1, <3>2, <3>3 DEF LoadMarker
  <2>2. CASE job.op # "idle"
    <3>1. job'.mig = job.mig /\ UNCHANGED marker /\ job.op = "restore"
      BY Zenon, <1>1, <1>4, <2>2
    <3> QED
      BY Zenon, <3>1 DEF OwnInv, LoadMarker
  <2> QED
    BY Zenon, <2>1, <2>2
<1>5. ASSUME NEW u \in Units, target'[u].by \in Migrations
      PROVE  /\ LoadMarker(target[u].by)'.mig = target'[u].by
             /\ job'.op # "idle" => Entitled(job.mig, target[u].by)'
             /\ engine' # "mongodb" => target'[u].val # Nothing
  <2>1. CASE target'[u] # target[u]
    <3>1. job.op = "restore" /\ target'[u].by = job.mig /\ (engine # "mongodb" => target'[u].val # Nothing)
      BY Zenon, <1>5, <2>1, <1>UnitFilled
    <3>2. UNCHANGED marker
      BY ZenonT(40), <1>0, <3>1, MarkerMoves DEF PostgresResetDatabaseSet, StartJob
    <3>3. LoadMarker(job.mig).mig = job.mig
      BY Zenon, <3>1 DEF OwnInv
    <3>4. job'.op # "idle" => job'.mig = target'[u].by
      BY Zenon, <1>0, <1>1, <3>1
    <3>5. job'.op # "idle" => Entitled(job.mig, target[u].by)'
      BY Zenon, <3>4 DEF Entitled
    <3> QED
      BY Zenon, <1>0, <3>1, <3>2, <3>3, <3>5 DEF LoadMarker
  <2>2. CASE target'[u] = target[u]
    <3>0. target[u].by \in Migrations
      BY Zenon, <1>5, <2>2
    <3>1. LoadMarker(target[u].by).mig = target[u].by /\ (job.op # "idle" => Entitled(job.mig, target[u].by))
          /\ (engine # "mongodb" => target[u].val # Nothing)
      BY Zenon, <3>0 DEF OwnInv
    <3>2. PICK n \in Migrations : n = target[u].by
      BY Zenon, <3>0
    \* a marker is saved by the migration at work, or by one that starts
    <3>3. ASSUME NEW m \in Migrations, SaveMarker(m), Entitled(m, n)
          PROVE  LoadMarker(n)'.mig = n
      BY Zenon, <3>1, <3>2, <3>3, Saved DEF Entitled
    <3>4. LoadMarker(n)'.mig = n
      <4>1. CASE UNCHANGED marker
        BY Zenon, <3>1, <3>2, <4>1 DEF LoadMarker
      <4>2. ASSUME SaveMarker(job.mig), job.op = "reset"
            PROVE  LoadMarker(n)'.mig = n
        <5>1. job.mig \in Migrations /\ Entitled(job.mig, n)
          BY Zenon, <1>0, <3>1, <3>2, <4>2
        <5>2. PICK m \in Migrations : m = job.mig
          BY Zenon, <5>1
        <5> QED
          BY Zenon, <3>3, <4>2, <5>1, <5>2
      <4>3. ASSUME NEW m \in Migrations, PostgresResetDatabaseSet(m), SaveMarker(m)
            PROVE  LoadMarker(n)'.mig = n
        <5>1. Entitled(m, n)
          BY Zenon, <3>0, <3>2, <4>3, <1>StartsOwn DEF ResetsOf
        <5> QED
          BY Zenon, <3>3, <4>3, <5>1
      <4> QED
        BY ZenonT(40), <4>1, <4>2, <4>3, MarkerMoves
    <3>5. ASSUME job'.op # "idle"
          PROVE  Entitled(job.mig, target[u].by)'
      <4>1. CASE job.op # "idle"
        <5>1. job'.mig = job.mig /\ UNCHANGED marker /\ Entitled(job.mig, n)
          BY Zenon, <1>1, <3>1, <3>2, <3>5, <4>1
        <5> QED
          BY Zenon, <2>2, <3>2, <5>1 DEF Entitled, LoadMarker
      <4>2. CASE job.op = "idle"
        <5>1. PICK m \in Migrations : (ResetsOf(m) \/ RestoresOf(m)) /\ job'.mig = m
          BY Zenon, <1>2, <3>5, <4>2
        <5>2. Entitled(m, n)
          BY Zenon, <3>0, <3>2, <5>1, <1>StartsOwn
        <5>3. UNCHANGED marker \/ SaveMarker(m)
          BY ZenonT(40), <5>1 DEF ResetsOf, RestoresOf, PostgresReset, PostgresResetDatabaseSet, MySQLReset, MongoDBReset,
             RedisReset, PostgresRestore, PostgresRestoreDatabaseSet, MySQLRestore, MongoDBRestore, RedisRestore, records
        <5>4. LoadMarker(m).mig = m => LoadMarker(m)'.mig = m
          BY Zenon, <5>3, Saved DEF LoadMarker
        <5> QED
          BY Zenon, <2>2, <3>2, <5>1, <5>2, <5>4 DEF Entitled, LoadMarker
      <4> QED
        BY Zenon, <4>1, <4>2
    <3> QED
      BY ZenonT(40), <1>0, <2>2, <3>1, <3>2, <3>4, <3>5 DEF LoadMarker
  <2> QED
    BY Zenon, <2>1, <2>2
<1> QED
  BY ZenonT(40), <1>3, <1>4, <1>5 DEF OwnInv

----------------------------------------------------------------------------
(* What was verified stays verified *)

\* A target matches as long as it is not changed and no key expires.
LEMMA MatchesStays ==
  ASSUME UNCHANGED <<engine, variant, target, grants>>, ttl # "gone", ttl' # "gone", NEW a, Matches(a)
  PROVE  Matches(a)'
<1>1. engine = "postgres" => PostgresManifestMatches(a)'
  BY Zenon DEF Matches, PostgresManifestMatches, InspectPostgres, PostgresExpected, Scope, Last
<1>2. engine = "mysql" => MySQLManifestMatches(a)'
  BY Zenon DEF Matches, MySQLManifestMatches, MySQLManifest
<1>3. engine = "mongodb" => MongoDBManifestMatches(a)'
  BY Zenon DEF Matches, MongoDBManifestMatches, MongoDBManifest
<1>4. engine = "redis" => RedisManifestMatches(a)'
  <2>1. ~RedisExpired(a) /\ ~RedisExpired(a)'
    BY Zenon DEF RedisExpired
  <2>2. engine = "redis" => VerifyRedisArchiveTarget(a)'
    BY Zenon, <2>1 DEF Matches, RedisManifestMatches, VerifyRedisArchiveTarget
  <2>3. engine = "redis" => (RedisManifestDigest([u \in Units |-> Seen(target[u].val)]) = a.want)'
    BY Zenon DEF Matches, RedisManifestMatches, RedisManifestDigest
  <2> QED
    BY Zenon, <2>2, <2>3 DEF RedisManifestMatches
<1> QED
  BY Zenon, <1>1, <1>2, <1>3, <1>4 DEF Matches

\* To flush what is empty changes nothing either.
LEMMA EmptyMatches ==
  ASSUME UNCHANGED <<engine, variant, ttl>>, engine = "redis", RedisEmpty, RedisEmpty', NEW a, Matches(a)
  PROVE  Matches(a)'
<1>1. \A u \in Units : target'[u].val = target[u].val
  BY Zenon DEF RedisEmpty
<1>2. RedisManifestMatches(a)
  BY Zenon DEF Matches
<1>3. RedisExpired(a)' = RedisExpired(a)
  BY Zenon DEF RedisExpired
<1>4. VerifyRedisArchiveTarget(a)'
  BY Zenon, <1>1, <1>2, <1>3 DEF RedisManifestMatches, VerifyRedisArchiveTarget
<1>5. [u \in Units |-> Seen(target[u].val)]' = [u \in Units |-> Seen(target[u].val)]
  BY Zenon, <1>1
<1>6. (RedisManifestDigest([u \in Units |-> Seen(target[u].val)]) = a.want)'
  BY Zenon, <1>2, <1>5 DEF RedisManifestMatches, RedisManifestDigest
<1> QED
  BY Zenon, <1>4, <1>6 DEF Matches, RedisManifestMatches

LEMMA MatchesOutcome ==
  ASSUME NEW m \in Migrations, NEW a, done'[m].art = a, Matches(a)'
  PROVE  Matches(done[m].art)'
<1>1. engine' = "postgres" => PostgresManifestMatches(done[m].art)'
  BY Zenon DEF Matches, PostgresManifestMatches, PostgresExpected
<1>2. engine' = "mysql" => MySQLManifestMatches(done[m].art)'
  BY Zenon DEF Matches, MySQLManifestMatches
<1>3. engine' = "mongodb" => MongoDBManifestMatches(done[m].art)'
  BY Zenon DEF Matches, MongoDBManifestMatches
<1>4. engine' = "redis" => RedisManifestMatches(done[m].art)'
  BY Zenon DEF Matches, RedisManifestMatches, VerifyRedisArchiveTarget, RedisExpired, ReadRedisArchive
<1> QED
  BY Zenon, <1>1, <1>2, <1>3, <1>4 DEF Matches

LEMMA TtlStays == ASSUME Next, ttl' # "gone" PROVE ttl # "gone"
<1>1. KeyAges => ttl # "gone"
  BY Zenon DEF KeyAges
<1> QED
  BY <1>1, NextCases, SourceFrame, DumpFrame, ResetFrame, RestoreFrame, Zenon

\* No reset of another migration is approved on a target that matches, but for Redis and when it is empty.
LEMMA OthersRefused ==
  ASSUME TypeOK, ArtInv, NEW m \in Migrations, NEW n \in Migrations, ResetsOf(n) \/ RestoresOf(n), n # m,
         done[m].at \in {"ok", "verified"}, ~TakenOver(m), Intact(m)
  PROVE  ResetsOf(n) /\ engine = "redis" /\ RedisEmpty
<1>0. LoadMarker(n).mig # n
  BY Zenon, DatabaseHostsAssumption DEF TakenOver
<1>1. done[m].art \in Artifacts /\ Good(done[m].art) /\ Matches(done[m].art)
  BY Zenon DEF TypeOK, DoneOK, ArtInv, Intact
<1>2. 1 \in Scope /\ 1 \in Units
  BY Zenon, HostFacts DEF TypeOK
<1>3. ASSUME Sql, target[1].val = Nothing
      PROVE  FALSE
  <2>1. variant # "cache"
    BY Zenon, <1>3, HostFacts DEF TypeOK, Sql
  <2>2. Seen(target[1].val) = done[m].art.want[1]
    BY ZenonT(40), <1>1, <1>2, <2>1, MatchSeen
  <2>3. 1 <= done[m].art.want[1]
    BY ZenonT(40), <1>1, <1>2, <1>3 DEF Good
  <2> QED
    BY SMTT(30), <1>3, <2>2, <2>3, VersionFacts
<1>4. ~(engine = "postgres" /\ PostgresEmpty)
  BY ZenonT(40), <1>2, <1>3 DEF PostgresEmpty, InspectPostgres, Sql
<1>5. ~(engine = "mysql" /\ MySQLEmpty)
  <2>1. ~target[1].made => target[1].val = Nothing
    <3>1. \A u \in Units : ~target[u].made => target[u] = Absent
      BY Zenon DEF TypeOK, TargetOK
    <3>2. Absent.val = Nothing
      BY Zenon, UnitRecords
    <3> QED
      BY Zenon, <1>2, <3>1, <3>2
  <2> QED
    BY ZenonT(40), <1>2, <1>3, <2>1 DEF MySQLEmpty, MySQLTables, MySQLExists, Sql
<1>6. ~(engine = "mongodb" /\ MongoDBEmpty)
  <2>1. engine = "mongodb" => target[1].by = m
    BY Zenon, <1>2 DEF Intact
  <2>2. MongoDBEmpty => target[1].by = None
    BY Zenon, <1>2, UnitRecords DEF MongoDBEmpty
  <2> QED
    BY Zenon, <2>1, <2>2, DatabaseHostsAssumption
<1> QED
  BY Zenon, <1>0, <1>4, <1>5, <1>6, StartRules

LEMMA IntactNext ==
  ASSUME IInv, OwnInv, Next, NEW m \in Migrations, done'[m] = done[m], done[m].at \in {"ok", "verified"},
         Intact(m), ~TakenOver(m), UNCHANGED marker, ~ForeignWrites, ttl' # "gone"
  PROVE  Intact(m)'
<1>0. /\ TypeOK /\ ArtInv /\ UNCHANGED <<engine, variant>> /\ ttl # "gone" /\ job \in Jobs
      /\ (job = IdleJob \/ job.op # "idle") /\ (job.op # "idle" => engine = "redis" /\ job.op = "reset" /\ RedisEmpty)
  BY Zenon, HostsStay, TtlStays DEF IInv, TypeOK, JobOK, Intact
<1>1. PICK a : a = done[m].art
  BY Zenon
<1>2. Matches(a) /\ done'[m].art = a
  BY Zenon, <1>1 DEF Intact
<1>3. ASSUME UNCHANGED <<target, grants>>, job'.op # "idle" => engine = "redis" /\ job'.op = "reset" /\ RedisEmpty
      PROVE  Intact(m)'
  <2>1. Matches(a)'
    BY ZenonT(40), <1>0, <1>2, <1>3, MatchesStays
  <2>2. Matches(done[m].art)'
    BY ZenonT(40), <1>2, <2>1, MatchesOutcome
  <2>3. RedisEmpty' = RedisEmpty
    BY Zenon, <1>3 DEF RedisEmpty
  <2> QED
    BY ZenonT(40), <1>0, <1>3, <2>2, <2>3 DEF Intact
<1>4. CASE ResetStarts \/ RestoreStarts
  <2>1. PICK n \in Migrations :
          /\ ResetsOf(n) \/ RestoresOf(n)
          /\ job'.mig = n /\ job'.op \in {"reset", "restore"} /\ done'[n].at = "no"
          /\ (job'.op = "reset" <=> ResetsOf(n))
    BY ZenonT(40), <1>0, <1>4, StartOf
  <2>2. ResetsOf(n) /\ engine = "redis" /\ RedisEmpty
    BY ZenonT(40), <1>0, <2>1, OthersRefused
  <2>3. UNCHANGED <<target, grants>>
    BY ZenonT(40), <1>4, ResetFrame, RestoreFrame
  <2> QED
    BY Zenon, <1>3, <2>1, <2>2, <2>3
<1>5. CASE ResetSteps
  <2>1. engine = "redis" /\ job.op = "reset" /\ RedisEmpty /\ ttl' = ttl
    BY ZenonT(40), <1>0, <1>5, StepsMoveJob, ResetFrame
  <2>2. FlushRedisDatabases
    BY ZenonT(40), <1>5, <2>1 DEF ResetSteps, PostgresResetDrop, PostgresResetCreate, MySQLRevoke, MySQLResetDrop,
       MySQLResetCreate, MongoDBResetDrop, JobAt
  <2>3. target' = [target EXCEPT ![job.unit] = Fresh] /\ target \in [Units -> UnitState]
    BY ZenonT(40), <1>0, <2>2 DEF FlushRedisDatabases, u_, TypeOK, TargetOK
  <2>4. RedisEmpty'
    BY ZenonT(40), <2>1, <2>3, UnitRecords DEF RedisEmpty
  <2>5. job'.op = "reset"
    <3>1. \A at, u : Goto(at, u) => job'.op = job.op
      BY <1>0, Zenon DEF Goto, Jobs
    <3> QED
      BY Zenon, <2>1, <2>2, <3>1 DEF FlushRedisDatabases, NextUnit
  <2>6. Matches(a)'
    BY Zenon, <1>0, <1>2, <2>1, <2>4, EmptyMatches
  <2>7. Matches(done[m].art)'
    BY Zenon, <1>2, <2>6, MatchesOutcome
  <2> QED
    BY Zenon, <1>0, <2>1, <2>4, <2>5, <2>7 DEF Intact
<1>6. ~(RestoreSteps \/ Verdicts \/ Marks)
  <2>1. RestoreSteps \/ Verdicts => job.op = "restore"
    BY ZenonT(40) DEF RestoreSteps, PostgresRestoreLoad, PostgresRestoreACL, MySQLRestoreLoad, MySQLRestoreGrant,
       MongoDBRestoreLoad, ApplyMongoDBOplogDelta, ApplyMongoDBIdentities, RedisRetryReset, RedisRestoreLoad,
       Verdicts, PostgresRestoreCheck, PostgresRestoreVerify, MySQLRestoreVerify, MongoDBRestoreVerify,
       RedisRestoreVerify, JobAt
  <2>2. Marks => job.op = "reset" /\ SaveMarker(job.mig)
    BY Zenon DEF Marks, PostgresResetMark, MySQLResetMark, MongoDBResetMark, RedisResetMark, JobAt
  <2>3. ASSUME Marks
        PROVE  FALSE
    <3>1. job.mig \in Migrations /\ done[job.mig].at = "no"
      BY Zenon, <1>0, <2>2, <2>3, IdleRecord DEF TypeOK, JobOK, OwnInv
    <3>2. PICK n \in Migrations : n = job.mig
      BY Zenon, <3>1
    <3>3. LoadMarker(n)'.mig = n
      BY Zenon, <1>0, <2>2, <2>3, <3>2, Saved
    <3>4. LoadMarker(n).mig = n /\ n # m
      BY Zenon, <3>1, <3>2, <3>3 DEF LoadMarker
    <3> QED
      BY Zenon, <3>4, DatabaseHostsAssumption DEF TakenOver
  <2> QED
    BY Zenon, <1>0, <2>1, <2>3
<1>7. CASE KeyAges
  <2>1. UNCHANGED <<target, grants, job>>
    BY ZenonT(40), <1>7, SourceFrame DEF KeyAges
  <2> QED
    BY ZenonT(40), <1>0, <1>3, <2>1
<1>8. CASE \/ Writes \/ AclChanges \/ OplogMoves \/ Inspects \/ DumpStarts \/ SqlDumpSteps \/ MongoDBDumpSteps
           \/ WriteRedisArchive \/ Verifies \/ Interrupt
  <2>1. UNCHANGED <<target, grants>> /\ (UNCHANGED job \/ job' = IdleJob)
    <3>1. Interrupt => UNCHANGED job \/ job' = IdleJob
      BY Zenon DEF Interrupt
    <3> QED
      BY <1>8, <3>1, SourceFrame, DumpFrame, RestoreFrame, Zenon
  <2> QED
    BY Zenon, <1>0, <1>3, <2>1, IdleRecord
<1> QED
  BY <1>4, <1>5, <1>6, <1>7, <1>8, NextCases, Zenon

LEMMA DoneInvNext ==
  IInv /\ OwnInv /\ DoneInv /\ Next => DoneInv'
\* Where there is no other marker than m's afterwards, and m has an outcome, there was none before.
<1>MarkerKept.
      ASSUME TypeOK, OwnInv, Next, NEW m \in Migrations, done'[m] = done[m], done[m].at # "no",
             ~TakenOver(m)'
      PROVE  ~TakenOver(m) /\ UNCHANGED marker
  <2> USE <1>MarkerKept
  <2>0. \A n \in Migrations : LoadMarker(n)'.mig = n => n = m
    BY Zenon, DatabaseHostsAssumption DEF TakenOver
  <2>1. CASE UNCHANGED marker
    BY Zenon, <2>1 DEF TakenOver, LoadMarker
  <2>2. CASE Marks /\ SaveMarker(job.mig) /\ EndJob /\ job.op = "reset"
    <3>1. job.mig \in Migrations /\ done[job.mig].at = "no"
      BY Zenon, <2>2, IdleRecord DEF TypeOK, JobOK, OwnInv
    <3>2. PICK n \in Migrations : n = job.mig
      BY Zenon, <3>1
    <3>3. LoadMarker(n)'.mig = n
      BY Zenon, <2>2, <3>2, Saved
    <3> QED
      BY Zenon, <2>0, <3>1, <3>2, <3>3
  <2>3. ASSUME NEW n \in Migrations, PostgresResetDatabaseSet(n), SaveMarker(n)
        PROVE  FALSE
    <3>1. n = m
      BY Zenon, <2>0, <2>3, Saved
    <3>2. done' = [done EXCEPT ![n] = NotDone] /\ done \in [Migrations -> Outcomes]
      BY Zenon, <2>3 DEF PostgresResetDatabaseSet, Forget, TypeOK, DoneOK
    <3> QED
      BY Zenon, <3>1, <3>2, NotDoneRecord
  <2> QED
    BY ZenonT(40), <2>1, <2>2, <2>3, MarkerMoves
<1> SUFFICES ASSUME IInv, OwnInv, DoneInv, Next
             PROVE  DoneInv'
  BY Zenon
<1> SUFFICES ASSUME NEW m \in Migrations, done'[m].at \in {"ok", "verified"}, count'["foreign"] = 0,
                    ~TakenOver(m)', ttl' # "gone"
             PROVE  Intact(m)'
  BY Zenon DEF DoneInv
<1>0. TypeOK /\ count["foreign"] = 0 /\ ~ForeignWrites /\ ttl # "gone" /\ UNCHANGED <<engine, variant>>
  BY Zenon, NoForeign, TtlStays, HostsStay DEF IInv
<1>1. CASE done'[m] = done[m]
  <2>1. ~TakenOver(m) /\ UNCHANGED marker
    BY ZenonT(40), <1>0, <1>1, <1>MarkerKept
  <2>2. Intact(m)
    BY Zenon, <1>0, <1>1, <2>1 DEF DoneInv
  <2> QED
    BY Zenon, <1>0, <1>1, <2>1, <2>2, IntactNext
<1>2. CASE done'[m] # done[m]
  <2>1. /\ \/ job.op = "restore" /\ job.at = "verify" /\ m = job.mig /\ Verdicts /\ done'[m].art = job.art
           \/ Verifies /\ done[m].at \in {"ok", "verified"} /\ done'[m].art = done[m].art
        /\ Matches(done'[m].art) /\ UNCHANGED <<target, grants>>
    BY Zenon, <1>0, <1>2, OkMatches DEF Ends
  <2>2. PICK a : a = done'[m].art
    BY Zenon
  <2>3. Matches(a)'
    BY ZenonT(40), <1>0, <2>1, <2>2, MatchesStays
  <2>4. Matches(done[m].art)'
    BY ZenonT(40), <2>2, <2>3, MatchesOutcome
  <2>5. job'.op = "idle"
    BY ZenonT(40), <1>2, <2>1, OutcomeFrame, IdleRecord DEF EndJob
  <2>6. engine = "mongodb" => \A u \in Units : target[u].by = m
    <3>1. CASE job.op = "restore" /\ job.at = "verify" /\ m = job.mig
      <4>1. engine = "mongodb" => \A u \in Units : target[u] = Holding(Restored(job.art, u), job.mig)
        BY Zenon, <1>0, <3>1 DEF IInv, RestoreInv, MongoDBInv
      <4> QED
        BY SMTT(30), <3>1, <4>1, UnitRecords
    <3>2. CASE Verifies /\ done[m].at \in {"ok", "verified"}
      <4>1. ~TakenOver(m)
        <5>1. UNCHANGED marker
          BY Zenon, <3>2, RestoreFrame DEF records
        <5> QED
          BY Zenon, <5>1 DEF TakenOver, LoadMarker
      <4> QED
        BY Zenon, <1>0, <3>2, <4>1 DEF DoneInv, Intact
    <3> QED
      BY ZenonT(40), <2>1, <3>1, <3>2
  <2> QED
    BY Zenon, <1>0, <2>1, <2>4, <2>5, <2>6 DEF Intact
<1> QED
  BY Zenon, <1>1, <1>2

LEMMA OwnInvariant == Spec => [](IInv /\ OwnInv /\ DoneInv)
<1>1. Init => IInv /\ OwnInv /\ DoneInv
  <2> SUFFICES ASSUME Init
               PROVE  IInv /\ OwnInv /\ DoneInv
    BY Zenon
  <2>1. \A m \in Migrations : done[m].at = "no"
    <3>1. done = [m \in Migrations |-> NotDone]
      BY Zenon DEF Init
    <3> QED
      BY Zenon, <3>1, NotDoneRecord
  <2>2. \A u \in Units : target[u].by = None
    <3>1. PICK t \in {Absent, Fresh} : target = [u \in Units |-> t]
      BY Zenon DEF Init
    <3> QED
      BY Zenon, <3>1, UnitRecords
  <2>3. job.op = "idle" /\ None \notin Migrations
    BY Zenon, IdleRecord, DatabaseHostsAssumption DEF Init
  <2> QED
    BY Zenon, <2>1, <2>2, <2>3, InitInv DEF OwnInv, DoneInv
<1>2. IInv /\ OwnInv /\ DoneInv /\ [Next]_vars => (IInv /\ OwnInv /\ DoneInv)'
  <2>1. ASSUME IInv, OwnInv, DoneInv, Next
        PROVE  IInv' /\ OwnInv' /\ DoneInv'
    <3>1. TypeOK /\ ArtInv /\ HostInv
      BY Zenon, <2>1 DEF IInv
    <3> QED
      BY Zenon, <2>1, <3>1, Inductive, OwnNext, DoneInvNext
  <2>2. ASSUME IInv, OwnInv, DoneInv, UNCHANGED vars
        PROVE  IInv' /\ OwnInv' /\ DoneInv'
    <3>0. /\ UNCHANGED <<engine, variant, ttl, target, grants, marker, job, done, count>>
      BY Zenon, <2>2 DEF vars, hosts, atTarget, records
    <3>1. OwnInv'
      BY <2>2, <3>0, Zenon DEF OwnInv, Entitled, LoadMarker
    <3>2. ASSUME NEW m \in Migrations, Intact(m), ttl # "gone"
          PROVE  Intact(m)'
      <4>1. PICK a : a = done[m].art /\ a = done'[m].art
        BY <3>0, Zenon
      <4>2. Matches(a)'
        BY Zenon, <3>0, <3>2, <4>1, MatchesStays DEF Intact
      <4> QED
        BY <3>0, <3>2, <4>1, <4>2, Zenon DEF Intact, RedisEmpty
    <3>3. DoneInv'
      BY <2>2, <3>0, <3>2, Zenon DEF DoneInv, TakenOver, LoadMarker
    <3> QED
      BY Zenon, <2>2, <3>1, <3>3, Inductive
  <2> QED
    BY Zenon, <2>1, <2>2
<1> QED
  BY <1>1, <1>2, PTL DEF Spec

\* No primitive of a migration changes what another one with the same binding has restored: the approval rule
\* of the resets lets another migration in only on an empty target, and a restore asks for the marker of its
\* own reset.  One with another binding, which finds another marker, can: but only when it finds its own there.
THEOREM RestoredTargetsKept == Spec => RestoredKept
<1>1. IInv /\ OwnInv /\ DoneInv /\ [Next]_vars =>
        [\A u \in Units : target[u].by \in Migrations /\ target'[u] # target[u] =>
           \/ job.op = "idle" \/ job.mig = target[u].by
           \/ BindingOf[job.mig] # BindingOf[target[u].by] /\ LoadMarker(job.mig).mig = job.mig]_vars
  BY Zenon DEF OwnInv, Entitled
<1> QED
  BY <1>1, OwnInvariant, PTL DEF Spec, RestoredKept

\* What a restore brought over is rejected, then or by a later verify primitive, only for a reason: the source
\* had drifted between inspection and dump, somebody else wrote to the target, another migration took it over,
\* with the same binding or another one, or a key expired.
THEOREM RejectsOnlyDrift == Spec => RejectedOnlyWhenDrifted
\* How a restore is rejected, and how a verify primitive fails.
<1>BadMismatch.
      ASSUME TypeOK, Next, NEW m \in Migrations, Ends(m, {"rejected", "failed"})
      PROVE  \/ /\ job.op = "restore" /\ job.at = "verify" /\ m = job.mig /\ done'[m].at = "rejected"
                /\ done'[m].art = job.art /\ ~Matches(job.art)
             \/ /\ engine = "postgres" /\ job.op = "restore" /\ job.at = "check" /\ m = job.mig /\ done'[m].at = "rejected"
                /\ done'[m].art = job.art /\ InspectPostgres(job.unit).manifest # PostgresExpected(job.art, job.unit)
             \/ Verifies /\ done[m].at \in {"ok", "verified"} /\ ~Matches(done[m].art)
  <2> USE <1>BadMismatch
  <2>0. done'[m] # done[m] /\ done'[m].at \in {"rejected", "failed"} /\ done \in [Migrations -> Outcomes]
        /\ <<engine, variant>> \in Variants
    BY Zenon DEF Ends, TypeOK, DoneOK
  <2>1. DoneChange(m)
    BY Zenon, DoneMoves
  <2>2. \/ Verdicts /\ job.op = "restore" /\ m = job.mig /\ done'[m].at = "rejected" /\ done'[m].art = job.art
        \/ Verifies /\ done[m].at \in {"ok", "verified"} /\ done'[m].at = "failed"
    BY ZenonT(40), <2>0, <2>1, NotDoneRecord DEF DoneChange
  <2>3. CASE Verdicts /\ job.op = "restore" /\ m = job.mig /\ done'[m].at = "rejected" /\ done'[m].art = job.art
    <3>1. \A ok : Verdict(ok) => ~ok
      <4>1. SUFFICES ASSUME NEW ok, Verdict(ok), ok
                     PROVE  FALSE
        BY Zenon
      <4>2. done' = [done EXCEPT ![m] = [at |-> "ok", art |-> job.art]]
        BY Zenon, <2>3, <4>1 DEF Verdict
      <4>3. done'[m].at = "ok"
        BY Zenon, <2>0, <4>2
      <4> QED
        BY Zenon, <2>3, <4>3
    <3>2. ~UNCHANGED done
      BY Zenon, <2>0
    <3>3. CASE PostgresRestoreCheck
      BY ZenonT(40), <2>3, <3>2, <3>3 DEF PostgresRestoreCheck, JobAt, u_
    <3>4. CASE PostgresRestoreVerify
      BY ZenonT(40), <2>3, <3>1, <3>4 DEF PostgresRestoreVerify, Matches, JobAt
    <3>5. CASE MySQLRestoreVerify
      BY ZenonT(40), <2>3, <3>1, <3>5 DEF MySQLRestoreVerify, Matches, JobAt
    <3>6. CASE MongoDBRestoreVerify
      BY ZenonT(40), <2>3, <3>1, <3>6 DEF MongoDBRestoreVerify, Matches, JobAt
    <3>7. CASE RedisRestoreVerify
      BY ZenonT(40), <2>3, <3>1, <3>7 DEF RedisRestoreVerify, Matches, JobAt
    <3> QED
      BY ZenonT(40), <2>3, <3>3, <3>4, <3>5, <3>6, <3>7 DEF Verdicts
  <2>4. CASE Verifies /\ done[m].at \in {"ok", "verified"} /\ done'[m].at = "failed"
    <3>1. PICK n \in Migrations : PostgresVerify(n) \/ MySQLVerify(n) \/ MongoDBVerify(n) \/ RedisVerify(n)
      BY ZenonT(40), <2>4 DEF Verifies
    <3>2. \A ok : Verified(n, ok) => n = m /\ ~ok
      <4>1. SUFFICES ASSUME NEW ok, Verified(n, ok)
                     PROVE  n = m /\ ~ok
        BY Zenon
      <4>2. done' = [done EXCEPT ![n].at = IF ok THEN "verified" ELSE "failed"]
        BY Zenon, <4>1 DEF Verified
      <4>3. n = m
        BY Zenon, <2>0, <4>2
      <4>4. ok => done'[m].at = "verified"
        <5>1. ok => done'[m] = [done[m] EXCEPT !.at = "verified"]
          BY Zenon, <2>0, <4>2, <4>3
        <5>2. LET p == [done[m] EXCEPT !.at = "verified"] IN p.at = "verified"
          BY Zenon, <2>0, VerifiedRecord
        <5> QED
          BY ZenonT(40), <5>1, <5>2
      <4> QED
        BY Zenon, <2>4, <4>3, <4>4
    <3>3. CASE PostgresVerify(n)
      BY ZenonT(40), <2>4, <3>2, <3>3 DEF PostgresVerify, Matches
    <3>4. CASE MySQLVerify(n)
      BY Zenon, <2>4, <3>2, <3>4 DEF MySQLVerify, Matches
    <3>5. CASE MongoDBVerify(n)
      BY ZenonT(40), <2>4, <3>2, <3>5 DEF MongoDBVerify, Matches
    <3>6. CASE RedisVerify(n)
      BY ZenonT(40), <2>4, <3>2, <3>6 DEF RedisVerify, Matches
    <3> QED
      BY ZenonT(40), <3>1, <3>3, <3>4, <3>5, <3>6
  <2> QED
    BY ZenonT(40), <2>2, <2>3, <2>4
\* A member of a PostgreSQL set whose content is as the inspection saw it has the manifest of the artifact.
<1>PostgresRestored.
      ASSUME IInv, engine = "postgres", job.op = "restore", count["foreign"] = 0, NEW u \in Scope, Loaded(u), Granted(u),
             Seen(job.art.data[u]) = job.art.want[u]
      PROVE  InspectPostgres(u).manifest = PostgresExpected(job.art, u)
  <2> USE <1>PostgresRestored
  <2>0. u \in Units /\ PostgresInv /\ HostInv
    BY ZenonT(40), HostFacts DEF IInv, RestoreInv, TypeOK
  <2>1. target[u].made /\ target[u].val = job.art.data[u] /\ SamePrivileges(grants[u], job.art.acl[u])
    BY ZenonT(40), <2>0 DEF PostgresInv, HostInv
  <2>2. InspectPostgres(u).manifest =
          PostgresContentManifestDigest(Seen(target[u].val), InspectPostgresPrivileges(grants[u]))
    BY ZenonT(40), <2>1 DEF InspectPostgres
  <2>3. InspectPostgresPrivileges(grants[u]) \ {OwnerEntry} = job.art.acl[u] \ {OwnerEntry}
    BY Zenon, <2>1 DEF SamePrivileges
  <2> QED
    BY ZenonT(40), <2>1, <2>2, <2>3 DEF PostgresExpected, PostgresContentManifestDigest, OwnerEntry
\* What a restore has put into the target matches, unless the source drifted, or somebody else wrote to it,
\* or a key expired.
<1>RestoredMatches.
      ASSUME IInv, job.op = "restore", job.at = "verify", count["foreign"] = 0, engine = "redis" => ttl # "gone",
             variant = "oplog" \/ \A u \in Scope : Seen(job.art.data[u]) = job.art.want[u]
      PROVE  Matches(job.art)
  <2> USE <1>RestoredMatches
  <2>0. /\ TypeOK /\ RestoreInv /\ HostInv /\ job.art \in Artifacts /\ Good(job.art) /\ 1 \in Units
        /\ job.art.want \in [Units -> Nat] /\ (engine # "postgres" => Scope = Units)
        /\ (variant = "oplog" => engine = "mongodb")
    <3>1. TypeOK /\ RestoreInv /\ HostInv /\ ArtInv
      BY Zenon DEF IInv
    <3>2. job.art \in Artifacts /\ Good(job.art)
      BY Zenon, <3>1 DEF TypeOK, JobOK, ArtInv
    <3>3. (engine # "postgres" => Scope = Units) /\ (variant = "oplog" => engine = "mongodb") /\ 1 \in Units
      BY Zenon, <3>1, HostFacts DEF TypeOK
    <3> QED
      BY ZenonT(40), <3>1, <3>2, <3>3, ArtifactRecord
  <2>1. CASE engine = "postgres"
    <3>1. \A u \in Scope : Loaded(u) /\ Granted(u)
      BY Zenon DEF Loaded, Granted
    <3> QED
      BY ZenonT(40), <2>0, <2>1, <3>1, <1>PostgresRestored DEF Matches, PostgresManifestMatches
  <2>2. CASE engine = "mysql"
    <3>1. \A u \in Units : target[u].val = job.art.data[u]
      BY ZenonT(40), <2>0, <2>2 DEF RestoreInv, MySQLInv, HostInv, Loaded
    <3>2. grants[1] = job.art.acl[1]
      BY ZenonT(40), <2>0, <2>2 DEF RestoreInv, MySQLInv
    <3>3. [u \in Units |-> Seen(target[u].val)] = job.art.want
      BY ZenonT(40), <2>0, <2>2, <3>1
    <3> QED
      BY ZenonT(40), <2>2, <3>2, <3>3 DEF Matches, MySQLManifestMatches, MySQLManifest, MySQLTableDataDigest
  <2>3. CASE engine = "mongodb"
    <3>1. (\A u \in Units : target[u].val = Restored(job.art, u)) /\ grants[1] = job.art.acl[1]
      <4>1. \A u \in Units : target[u] = Holding(Restored(job.art, u), job.mig)
        BY ZenonT(40), <2>0, <2>3 DEF RestoreInv, MongoDBInv
      <4>2. grants[1] = job.art.acl[1]
        BY ZenonT(40), <2>0, <2>3 DEF RestoreInv, MongoDBInv
      <4>3. ASSUME NEW u \in Units
            PROVE  target[u].val = Restored(job.art, u)
        <5>1. target[u] = Holding(Restored(job.art, u), job.mig)
          BY Zenon, <4>1
        <5>2. Holding(Restored(job.art, u), job.mig).val = Restored(job.art, u)
          BY Zenon DEF Holding
        <5> QED
          BY Zenon, <5>1, <5>2
      <4> QED
        BY Zenon, <4>2, <4>3
    <3>2. \A u \in Units : Seen(Restored(job.art, u)) = job.art.want[u]
      <4>1. CASE variant = "oplog"
        BY ZenonT(40), <2>0, <4>1 DEF Good
      <4>2. CASE variant # "oplog"
        BY ZenonT(40), <2>0, <2>3, <4>2 DEF Good, Restored
      <4> QED
        BY Zenon, <4>1, <4>2
    <3>3. [u \in Units |-> Seen(target[u].val)] = job.art.want
      BY SMTT(30), <2>0, <3>1, <3>2
    <3> QED
      BY Zenon, <2>3, <3>1, <3>3 DEF Matches, MongoDBManifestMatches, MongoDBManifest
  <2>4. CASE engine = "redis"
    <3>1. \A u \in Units : target[u].val = job.art.data[u]
      BY Zenon, <2>0, <2>4 DEF RestoreInv, RedisInv
    <3>2. VerifyRedisArchiveTarget(job.art)
      BY Zenon, <2>4, <3>1 DEF VerifyRedisArchiveTarget, RedisExpired
    <3>3. [u \in Units |-> Seen(target[u].val)] = [u \in Units |-> Seen(job.art.data[u])]
      BY Zenon, <3>1
    <3>4. job.art.want = RedisManifestDigest([u \in Units |-> Seen(job.art.data[u])])
      BY Zenon, <2>0, <2>4 DEF Good
    <3> QED
      BY ZenonT(40), <2>4, <3>2, <3>3, <3>4 DEF Matches, RedisManifestMatches
  <2> QED
    BY ZenonT(40), <2>0, <2>1, <2>2, <2>3, <2>4, HostFacts DEF TypeOK
<1>1. ASSUME IInv, OwnInv, DoneInv, Next, NEW m \in Migrations, Ends(m, {"rejected", "failed"}),
             ~(count["foreign"] > 0), ~TakenOver(m), ~(engine = "redis" /\ ttl = "gone")
      PROVE  /\ variant # "oplog" /\ done'[m].at = "rejected"
             /\ \E u \in Scope : Seen(done'[m].art.data[u]) # done'[m].art.want[u]
  <2>0. TypeOK /\ count["foreign"] = 0 /\ ttl # "gone" /\ job \in Jobs /\ <<engine, variant>> \in Variants
    <3>1. TypeOK /\ HostInv
      BY Zenon, <1>1 DEF IInv
    <3>2. count["foreign"] \in Nat
      BY Zenon, <3>1 DEF TypeOK, CountOK
    <3>3. ttl # "gone"
      BY Zenon, <1>1, <3>1 DEF HostInv
    <3> QED
      BY SMTT(30), <1>1, <3>1, <3>2, <3>3 DEF TypeOK, JobOK
  <2>1. CASE Verifies /\ done[m].at \in {"ok", "verified"} /\ ~Matches(done[m].art)
    BY Zenon, <1>1, <2>0, <2>1 DEF DoneInv, Intact
  <2>2. CASE /\ job.op = "restore" /\ job.at = "verify" /\ m = job.mig /\ done'[m].at = "rejected"
             /\ done'[m].art = job.art /\ ~Matches(job.art)
    BY ZenonT(40), <1>1, <2>0, <2>2, <1>RestoredMatches
  <2>3. CASE /\ engine = "postgres" /\ job.op = "restore" /\ job.at = "check" /\ m = job.mig /\ done'[m].at = "rejected"
             /\ done'[m].art = job.art /\ InspectPostgres(job.unit).manifest # PostgresExpected(job.art, job.unit)
    <3>1. job.unit \in Scope /\ job.unit \in Nat /\ variant # "oplog"
      <4>1. job.unit \in Scope /\ variant # "oplog"
        BY ZenonT(40), <2>0, <2>3, HostFacts, IdleRecord DEF TypeOK, JobOK
      <4> QED
        BY SMTT(30), <2>0, <4>1, HostFacts DEF Units
    <3>2. Loaded(job.unit) /\ Granted(job.unit)
      BY SMTT(30), <2>3, <3>1 DEF Loaded, Granted
    <3>3. Seen(job.art.data[job.unit]) # job.art.want[job.unit]
      BY ZenonT(40), <1>1, <2>0, <2>3, <3>1, <3>2, <1>PostgresRestored
    <3> QED
      BY Zenon, <2>3, <3>1, <3>3
  <2> QED
    BY ZenonT(40), <1>1, <2>0, <2>1, <2>2, <2>3, <1>BadMismatch
<1>2. IInv /\ OwnInv /\ DoneInv /\ [Next]_vars =>
        [\A m \in Migrations :
           Ends(m, {"rejected", "failed"}) =>
             \/ count["foreign"] > 0 \/ TakenOver(m)
             \/ engine = "redis" /\ ttl = "gone"
             \/ /\ variant # "oplog" /\ done'[m].at = "rejected"
                /\ \E u \in Scope : Seen(done'[m].art.data[u]) # done'[m].art.want[u]]_vars
  BY Zenon, <1>1
<1> QED
  BY <1>2, OwnInvariant, PTL DEF Spec, RejectedOnlyWhenDrifted

=============================================================================
