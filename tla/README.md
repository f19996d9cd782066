# A TLA+ model of the Askio host agent

This directory holds TLA+ specifications of `askio-monitor`, the agent that
monitors a host and migrates its services, and of the root-only "typed broker"
that carries out the privileged steps of a migration. The specifications are
translated from the Go sources under `src/`; `PROJECT.json` maps every
definition to the lines it stands for.

## The system and its parts

| Part | Source | State | What makes it hard | Module |
|---|---|---|---|---|
| Writer fences of the broker | `migration/broker.go`, `writer_fence_inhibitor.go` | fence records in memory and in the state file, boot-inhibitor markers, running services | three stores that change one at a time, a watchdog beside requests, crashes and reboots between any two steps | `WriterFence` |
| Broker admission | `migration/broker.go`, `task.go` | highest token per domain, live nonces | concurrent connections, expiry, failed writes, restarts | `BrokerAccept` |
| Signed-task runner | `migration/task.go`, `executor.go` | nonces, the attempt, its progress number and the result outbox, in memory and on disk | heartbeat beside the executor, lost requests and answers, fencing by the backend, crashes | `TaskRunner` |
| Data plane and file transfer | `migration/dataplane.go`, `files.go` | ticket, transfer cache, `.partial` files, checkpoint | a source that changes between check and read, resumption, retries | `FileTransfer` |
| File swap | `migration/files.go` | ownership marker, apply and backup directories, the target | resumption after a crash at any rename | `FileSwap` |
| Database engines | `migration/postgres.go`, `mysql.go`, `mongodb.go`, `redis.go` | reset markers, dump artifacts, contents and privileges of the target | reads spread over time, destructive steps and their marker, retries, two migrations on one target | `DatabaseHosts`, `PostgresTarget`, `MySQLTarget`, `MongoTarget`, `RedisTarget`, `DatabaseMigration` |
| Logical replication | `migration/postgres_logical.go` | publication, slot, subscription, markers on two hosts | objects that outlive a failed step, an apply worker of its own | `LogicalReplication` |
| Compose runtime | `migration/compose.go`, `compose_snapshot.go`, `broker.go` | staged secrets and their clean-up marker, snapshot, containers | two processes, deadlines, abandoned requests, partial starts | `ComposeRuntime` |
| Operations, commands, audit | `operations/`, `agent/*_handler.go`, `commands*.go`, `store/` | result cache, jobs in flight | the same job polled again while it runs, lost answers | `RemoteJobs`, `JobLedger` (the jobs; not the plan interpreter) |
| Quiescence and estimates, remediation, gateway | `migration/quiescence.go`, `remediation/`, `gateway/` | none that another step depends on | | not modelled |
| Discovery, checks, metrics, CLI, configuration, API client, identity, canonical JSON, paths | the rest | none or constant | single reads, requests and encodings | not modelled |

The parts interact in one chain. The backend hands the runner a signed task;
the runner admits its nonce, executes it and delivers the result from an outbox.
Privileged primitives go through a socket to the broker, which verifies the same
envelope, admits it against its own nonces and fencing tokens and runs the
operation; host-writer operations work on the writer fences, which the broker
also watches every two seconds and attests in every heartbeat. A file sync
downloads a manifest and its chunks from the source's data plane into a cache
(`FileTransfer`) and then swaps the verified tree with the target directory
(`FileSwap`, where `Begin` takes up the tree that `FileTransfer` hands over in
`Apply`). A database is dumped on the source host and reset, restored and verified
on the target host, or follows its source by logical replication after a reset
(`LogicalReplication` begins after a reset of `PostgresTarget`). A Compose project
is started and stopped by the agent and the broker together. Apart from migrations
the backend hands out actions, audits and commands with the configuration the
agent polls.

## WriterFence

A fence stops the writer services of a source host. Its record is in memory
(`mem`, `b.state.WriterFences`) and in the state file (`disk`); a marker per
service (`markers`) keeps systemd from starting it. `pc` and `op` are the
position and the locals of the goroutine that holds `writerFenceMu`, one step per
system call or write: `ActivateBegin`, `InstallMarker`, `PersistIntent`,
`StopService`, `VerifyStopped`, `CommitActive` for `activateWriterFence`;
`ReleaseBegin`, `AuthorizeRelease`, `RemoveMarker`, `StartService`,
`VerifyRestarted`, `CommitReleased` and the roll-back (`x_…`) for
`releaseWriterFence`; `VerifyBegin`, `VerifyPoll`, `VerifyCommit` for
`verifyWriterFence`; `ReconcileBegin` … `ReconcileDone` for the watchdog;
`ResumeBegin` … `ResumeDone` for the start. `Validate`, `Unavailable` and
`AcceptPersists` work without the lock, as the code does.

`budget` is the environment: which migrations and scopes are asked for, which
kinds of failure happen (`persist`: a write of the state file, reported before or
after its rename; `marker`; `control`: a systemctl call; `systemctl`: no
systemctl; `crash`; `reboot`) and how many more. The properties that a certain failure
really breaks name it in their premise; the code's behaviour under that failure
is described under *Divergences*.

* `SingleOwner`: no service has two fences that own markers.
* `NoLooseAuthorization` (proved): no request meets a half-done release.
* `RemovalAuthorized`: a marker is removed only under a durable authorization.
* `FenceInhibited`: a durable active fence has all its markers whenever systemd
  may start writers.
* `EvidenceKept`: violation and error counts in the state file never go down.
* `NoSilentRestart`: a fenced service that ran and was stopped again left a
  violation.
* `RemembersWriters`: an active fence knows which services to start again.
* `Enforced`, `ActivationEnds`, `ReleaseEnds`: the watchdog stops what runs and
  finishes what a crash or failure interrupted.

Fairness (`FairSpec`): the lock holder goes on (its calls have timeouts), the
watchdog ticks and gets the mutex (Go mutexes do not starve), systemd restarts
the broker (`Restart=on-failure`).

## BrokerAccept

Each connection `c` is a goroutine at `at[c]`: `Submit` (`handleConnection`),
`Verify` (`verifySignedTaskEnvelope`), `Accept` (`acceptFence`, under `b.mu`),
`Enter` and `End` (the primitive in `execute`). Time passes between the steps,
several connections may bring the same envelope, `FencePersists` is a write of
the shared state by a fence operation.

* `ConsumedOnce`: no envelope is carried out twice.
* `AdmittedAboveBegun`: once a primitive of a domain has begun with a token, no
  request with a lower one is let through `Accept`, also after a failed write or a
  restart. (A request let through *before* may still begin later: divergence 3.)
* `TokensRise` (proved): no token in the state file goes down.

## TaskRunner

`pc` is the main goroutine in `RunOnce`: `NothingPending`/`FlushPending`
(`flushPending`), `Claim`/`NoTask`, `Verify`, `Reject`/`Admit` (`verifyEnvelope`
and the save before execution), `Started`, `Executed`, `Finished`, `Finalized`,
`SaveResult`, `PostResult`. `Report` and `ReportDone` are the two halves of
`progressCallback`, by the executor or the heartbeat under `progressMu`. A
request is answered, or acted on without an answer arriving, or not heard; the
backend may fence an attempt at any time until it has its result, and may hand
out a task again.

* `OutboxKept`: a saved result leaves the state file only when the backend has
  it or has fenced its attempt.
* `AdmittedOnceWhileValid`: no task is let through twice while its envelope is
  valid.
* `ControlHonoured`: a pause or cancellation the agent was told of is what it
  reports, even if the primitive had just succeeded.
* `OneResult`, `ProgressRises` (proved): one result per execution, rising progress
  numbers.
* `ResultDelivered`: executions are answered, and saved results arrive, even
  across a crash.

Fairness (`LiveSpec`): `migrationLoop` calls `RunOnce` again and again, systemd
restarts the agent, and a primitive ends. Faults are finite: the network and the
disk work again eventually.

## FileSwap

`target`, `apply[k]` and `backup[k]` are the contents of the target directory and
of the two directories named after a migration and a manifest digest; `marker` is
the ownership marker. One attempt is `Begin`, then, when the marker says
"swapping", `recoverFileSwap`: `RecoverTarget`, `RecoverRename`, `RecoverMark`;
then `applyFileTree`: `Inspect`, `Copy`, `VerifyCopy`, `MarkSwapping`, `RenameOld`,
`RenameNew` or `RenameNewFails` (which tries to undo the first rename),
`MarkActive`. `RemoveFiles` and `RemoveDone` are a recursive removal: a crash or
a failure leaves it half done. `Request` is the backend asking for a sync, again
and again until it succeeds. `ChangeTarget` is somebody else writing to or
deleting the target; it happens between attempts only, so the window between
`Inspect` and the renames is not exposed to others.

* `TreeKept`: the tree the marker calls active is in the target, or during a swap
  in the backup while the new one is complete.
* `ForeignKept`: what somebody else wrote to the target is not replaced.
* `SyncedWhenDone` (proved): a sync that succeeds, as a replay too, left its tree.
* `SyncEnds`: a sync that is repeated succeeds, unless the target is taken or a
  left-over directory is in its way (divergence 4).

Fairness (`SwapLiveSpec`): the sync at work goes on, and the backend repeats a step
that failed. Faults are finite.

## RemoteJobs and JobLedger

`conf` is the answer `configPollLoop` works on: `Poll`, then one of
`DispatchAction`, `DispatchAudit` (with `beginAuditJob`), `DispatchCommand` and
`DispatchLegacy`, in the code's order of precedence, each of which starts at most
one goroutine `h` in `Handlers`. The handlers of actions and audits are the same
steps: `Look` (a result in the store?), `Repost` and `Drop`, or `Execute`, `Post`
and, when that fails, `FileStore.Put` as `PutOpen`, `PutWrite`, `PutRename` on a
temporary file whose name two Puts of one entry share (`fd` says which file a
writer still has open). `EndAudit` is `endAuditJob`; `Age` makes entries of
`auditRecent` older than its half hour. The backend keeps a job open until it has
heard a result; a request is answered, heard without an answer, or not heard.
Which jobs the agent refuses (invalid, or in the migration profile all but
audits) does not change during a behaviour.

* `AuditRunsBounded`: an audit is executed once, plus once per crash and per
  failed access to the store.
* `AuditEntryWhole`: the entry of an audit in the store always parses, across
  crashes in the middle of a Put. An audit has one handler at a time; of an action
  there may be two, and their Puts can tear its entry (divergence 5).
* `ResultKept`: a kept result is removed only when the backend has a result.
* `LedgerKept`: the audit handlers implement `JobLedger`, whose ledger takes a
  job from waiting to running, held and answered. The mapping calls a job running
  while a handler executes it, answered once the backend's acknowledgement was
  received, held while a handler or the store has a result.
* `JobsAnswered`: every open action, audit and command is answered, unless the
  agent refuses it or one that it looks at before.

Fairness (`JobsLiveSpec`): the poll loop ticks, and a handler, whose calls have
timeouts, goes on. Faults are finite.

## FileTransfer

`filesSync` up to the swap, and the data plane it reads from. `cache[m]` is the
transfer cache of manifest `m`: the finished files (`tree`), the `.partial` files
and the checkpoint (`record`). A request is `Ask` (`ensureTicket` and `post`),
`Admit` (the source checks the ticket), `Walk` (the source builds its manifest
again, file after file) and `ReadChunk`, which reads after the check; `Edit` may
come between any two of them. The client's steps are `Begin`, `Manifest`,
`Capacity`, `File`, `Chunk` (with `OnRecord`, which hashes a chunk on record
again), `Write`, `Save`, `Assemble`, `VerifyTree`, `Apply` (the hand-over to
`FileSwap`), `RemoveEntry` and `RemoveCache`. Calls fail, the ticket runs out
(`Tick`), the agent crashes, and `Request` approves the manifest of the day.

* `HandedIsManifest`: the tree handed to the swap is the approved one.
* `RecordedOnDisk`: the checkpoint is never ahead of the data.
* `TransferEnds`: retries finish the sync unless the source has drifted or a chunk
  on record is not the manifest's (divergence 8).

Fairness (`LiveSpec`): an attempt goes on, its calls having timeouts, and the
backend repeats a step that failed.

## The database engines

`DatabaseHosts` has what the four engines share: a source that clients write to, a
target, the reset marker of each binding, the approval rule of the resets
(`Approves`: the target is the approved empty one, or the marker shows that this
migration reset it before), the artifact of a dump, and the environment: writes and
changes of privileges at the source, writes by others at the target, an oplog that
rolls over, a key that expires, and `Interrupt`, which ends a primitive between any
two of its steps. A database is two units (members of a set, tables, documents,
keys) read and written one after another; the content of a unit is what a manifest
sees of it and the rest.

Each engine has a module with its inspect, dump, reset, restore and verify
primitives, one action per command or write: `PostgresTarget` (single databases and
sets; privileges in an artifact of their own, merged by the role map),
`MySQLTarget` (grants that outlive the database, revoked option by option),
`MongoTarget` (documents dumped while clients write, closed by an oplog window) and
`RedisTarget` (keys read one by one, cache mode, a restore that flushes and tries
again). `DatabaseMigration` composes them: `Init` chooses the engine, two
migrations take turns on one target.

* `RestoredKept`: no primitive destroys what another migration with the same
  binding restored; one with another binding, for which there is another marker,
  can, when it has reset the target before and comes back (divergence 12).
* `RestoredIsCut`: a restore or verification that succeeds finds the source as it
  was at one moment, although its parts were read at different times.
* `RejectedOnlyWhenDrifted`: a verification fails only if the source changed
  between inspection and dump, others wrote to the target, another migration took
  it over, with the same binding or another one, or a key expired; so mapping, merging and granting privileges again
  agree with what the manifests expect of them.
* `SetResetRetryable`: a reset of a database set that died can be run again.

No fairness: these are safety properties.

## LogicalReplication

The source is the log of what clients committed; an entry is a change manifests
see, one outside their sample of rows, or an advance of a sequence, which
replication does not carry. The target holds a prefix of the log (`tgt.rows`).
`jobS` and `jobT` are the primitives at work on the two hosts, step by step:
`PrepareSource` … `PrepareReady`, `FinalizeSource` … `CaptureState`,
`CleanupSource` … `CleanupMark` at the source; `RestoreSchema` …, `StartSubscription`
… `StartReplicating`, `FinalizeTarget` …, its recovery `Recover…`, `VerifyAgain` and
`CleanupTarget` at the target. `WorkerStarts`, `WorkerStops`, `Copy` and `Apply` are
the apply worker, a process of the server that nobody waits for unless the code
does; `Interference` is an administrator or another subscriber. `phase` is the
order in which the backend runs the primitives of a plan; a primitive whose answer
it did not get runs again, and a plan may be given up.

* `VerifiedHoldsSource`: a target reported as verified has every change the source
  had at its capture, those no manifest sees included.
* `DetachedVerified`: the subscription is detached only while the target is what
  the recorded final state says.
* `RecoveryFindsVerdict`: a finalization that is repeated finds the target as it
  left it.
* `ObjectsOwned`: publication, slot and subscription never exist without the marker
  that the clean-up asks for.

## ComposeRuntime

The agent (`agent`) renders the document, stages the secrets under a clean-up marker
(`Mark`, `MakeDirectory`, `Stage`), sends the request and, whatever the answer, wipes
and removes them (`Wipe`, `RemoveDirectory`, …); the same clean-up runs when it
starts. The broker serves requests (`req[i]`) side by side: `composeStart` is
`ReadPolicy`, `Probe`, `CopySecret`, `Publish` (the snapshot), `Absent`, `Up`,
`Wait` and after a failure `Down`, `Proof`; `composeStop` is `Load`, `Stop`; both end
in `Remove`, file by file, when the snapshot goes. A start that fails or dies before
`Publish` has its secrets in a temporary directory: `Discard` is its deferred
removal, whose error nobody looks at, a broker that dies removes nothing, and
`strays` says that such a directory is left, for good. `Late` is the request's deadline,
`GiveUp` the agent that no longer waits, `AgentCrash` and `BrokerCrash` may come
anywhere.

* `MarkerCovers`: secrets are staged only under their marker.
* `UpHasSnapshot`: containers keep the snapshot that a stop needs.
* `SecretsRemovable`: as long as a snapshot holds a secret, also one that is half
  removed, it can be loaded, so that a stop can remove the rest. It does not speak of
  `strays`, which no request removes (divergence 10).
* `ReportTrue`: a reported success is one, and the project runs from the secrets as
  they were staged.
* `StopEnds`: a stop that is repeated takes the containers down.

The last four except two requests at work at once, or a snapshot that cannot be
loaded any more (divergences 10 and 11). Fairness (`LiveSpec`): the agent and each
request go on (commands have deadlines), and the backend repeats what failed.

## Runs

| Run | Bounds | Shows |
|---|---|---|
| `fence_safety` | two migrations on overlapping scopes of two services, one failure of any kind, a crash (and, where markers can be written, a reboot), 3 requests; one migration with two failed writes or systemctl calls and a restarting service | `SingleOwner`, `FenceInhibited`, `NoSilentRestart`, `RemembersWriters`, `RemovalAuthorized`, `EvidenceKept` |
| `fence_live` | one migration, one failed systemctl call, a restart and a crash, 2 requests | `Enforced`, `ActivationEnds`, `ReleaseEnds` |
| `fence_orphan` (violation) | two migrations, one failed write | divergence 1 |
| `accept_once` | three connections, three envelopes in two domains, one failed write, one crash, clock 0..3 | `ConsumedOnce`, `AdmittedAboveBegun` |
| `runner_safety` | two attempts, one failure, one crash, expiry inside the run, up to 2 reports before the last | `ControlHonoured`, `OutboxKept`, `AdmittedOnceWhileValid` |
| `runner_live` | one attempt, two failures, one crash | `ResultDelivered` |
| `swap_safety` | two migrations and two trees for one target, two failures, two crashes, one change by others, 3 requests | `TreeKept`, `ForeignKept`, `SyncEnds` |
| `transfer` | files of two chunks and one, two values, 2 writes to the source, 2 mishaps, 2 approved manifests | `HandedIsManifest`, `RecordedOnDisk`, `TransferEnds` |
| `jobs_kept` | an action before an audit, two audits, or a command and a legacy command; two handlers, two failures, one crash | all properties of `RemoteJobs`, the refinement of `JobLedger` |
| `databases` | seven engine configurations, two migrations with one binding, two sets of privileges, 1 write during a dump, 2 mishaps, 1 dump, 2 resets | `SetResetRetryable`, `RestoredKept`, `RestoredIsCut`, `RejectedOnlyWhenDrifted` |
| `logical` | two slots, 2 writes, 2 mishaps, 2 captures of the final state | `VerifiedHoldsSource`, `DetachedVerified`, `RecoveryFindsVerdict`, `ObjectsOwned` |
| `compose` | two secrets, two requests at once, 2 mishaps, 3 requests of the backend | `MarkerCovers`, `UpHasSnapshot`, `SecretsRemovable`, `ReportTrue`, `StopEnds` |

Two migrations are enough because the code compares a fence with one other
fence at a time; two services give every loop over services a first and a later
iteration; one failure and one crash, anywhere, already put every pair of
consecutive steps apart, and the roll-back paths that need a second failure are
in the environment with two. Deadlock is not checked where the bounded
environment runs out; `TaskRunner` and `RemoteJobs` never stop. Two trees and two
migrations give a swap a predecessor of its own and one of somebody else's; a second crash interrupts the recovery
from the first. Two handlers let a job overlap with itself or with another. Two
chunks and two files give the download a resumption inside a file and between
files; two values per chunk let a write be undone again, which is how a chunk slips
past the manifest check. Two units give every dump, reset and restore a point where
it is half done; one write is enough to tear a dump (with `MaxWrites = 2` the same
properties hold over 5.4 million states, in about six minutes). Two mishaps put a crash into the recovery
from another one. Two captures make the last final state differ from the one the
target was verified against. Three requests are a start, a stop, and one that
overlaps with either. With one binding `RestoredKept` says that nobody else destroys
what a migration restored; with two bindings, which the theorem covers, the same
properties hold of two migrations, 2 dumps and 3 resets without mishaps, and
without the exception `RestoredKept` does not. The two migrations of `databases` are interchangeable, hence
the symmetry (it is not used for liveness).

## Proofs

The theorems hold for every value of the constants: any number of migrations,
services, connections, envelopes, files, secrets, requests, writes and failures.
Every safety property that a run checks is a theorem, and so is the refinement of
`JobLedger`. Type correctness is a theorem for all modules and not in a run, and so
are some safety properties, because the proof covers the instance:
`NoLooseAuthorization`, `TokensRise`, `OneResult`, `ProgressRises`,
`SyncedWhenDone`.

A module of proofs may be about two models (their names are disjoint), and a
model may have two modules of proofs. Each has its inductive invariant, which says
what the property alone does not: what the process at work knows at each of its
steps.

* `WriterFenceProofs`: `TypeCorrect` (`Spends` says what a step may do to the
  environment) and `LockInvariant`. `LockInv` says, for each position of the
  lock holder, how its copy of the record, the state file and memory agree (the
  safety invariants alone say nothing about the copy that
  is about to be written). From it follow `SingleOwnerHolds`,
  `NoLooseAuthorizationHolds` and, as an action property,
  `RemovalAuthorizedHolds`. `FenceInhibitedHolds` needs a second inductive
  invariant, `MarkerInv`: which markers the lock holder has already installed or
  re-installed at each step; it is inductive relative to `LockInv`, and only
  while no marker write fails.
* `WriterFenceRecordProofs`: what the records of a fence remember, relative to
  `LockInv`. `EvidenceInv` (memory is never behind the state file, and a copy that
  will be written back carries the counters of memory) gives the action property
  `EvidenceKeptHolds`. `RememberInv` (without failing writes memory is what a start
  would load, and every production service that does not run belongs to a fence
  that remembers it) gives `WritersRemembered`. `RestartInv` (a fenced service that
  restarted still runs, has been charged, or is about to be charged by the lock
  holder) gives `RestartsCharged`.
* `BrokerRequestProofs`, for `BrokerAccept`: `AcceptTypeCorrect`,
  `ConsumedOnceHolds`, `TokensRiseHolds`, `AdmittedAboveBegunHolds`. `AcceptInv`
  says that a connection past `Accept` has its nonce in memory and in the state
  file unless it has expired, that no two such connections bring the same envelope,
  and that memory is never behind the state file. `DurableInv`, on top of it, says
  that every token a primitive has begun with, or is about to, is in the state
  file, so that a restart forgets none.
* `BrokerRequestProofs`, for `ComposeRuntime`: `MarkerAlways`, `SnapshotAlways`,
  `SecretsAlwaysRemovable`, `ComposeTypes`, `ReportsTrue`. `IInv` says that the marker is there when the
  agent is about to make the directory (`MarkerInv`) and, while no two requests
  have overlapped, at which positions of a request there are no containers and at
  which there is a snapshot that can be loaded (`SnapshotInv`). `WorkInv` is about
  the secrets: what the agent has staged at each step (`AgentInv`), that the
  request it waits for is the one it sent (`AwaitInv`), that the broker's copies are
  the staged ones as long as the agent waits (`CopyInv`), and that a request that is
  over keeps no copies and secrets are only in directories that exist (`LeftInv`). `SecretsInv`, beside them, says that the document and
  the metadata of a snapshot are there until its secrets are gone.
* `AgentTaskProofs`, for `TaskRunner`: `RunnerTypeCorrect`, `OutboxKeptHolds`,
  `AdmittedOnceHolds`, `OneResultHolds`, `ControlHonouredHolds`,
  `ProgressRisesHolds`. `RunnerInv` has one part per
  concern: `Shaped` (where the goroutine has a task, a result, a report under
  way), `Fenced` (a task let through is known in memory and on disk until it
  expires), `Outbox` (memory and state file hold the same result, or it has been
  dealt with), `Single` (an attempt at work has no result anywhere yet), `Told`
  (the control received is on its way into the result) and `Numbered` (the next
  number is above all that were heard). `...Effect` lemmas say what each step
  that saves the state writes; each part then has a lemma with one step per
  action.
* `AgentTaskProofs`, for `FileSwap`: `SwapTypeCorrect`, `TreeKeptHolds`,
  `ForeignKeptHolds`, `SyncedWhenDoneHolds`. `SwapInv` is `Copied` (what the sync
  at work knows of the marker), `Placed` (which directory holds which tree at each
  of its steps) and `Safe` (`TreeKept`, and that a recovery about to restore the
  old marker has the old tree in the target).
* `AgentExchangeProofs`, for `RemoteJobs`: `JobsTypeCorrect`,
  `AuditRunsBoundedHolds`, `AuditEntryWholeHolds`, `ResultKeptHolds` and the
  refinement, `LedgerKeptHolds`. `JobsInv` says that a
  handler's position suits its job (`Formed`), that an audit has one handler
  (`Exclusive`), that an acknowledged audit is not begun again, also by a poll
  answer that is older (`Done`), that nobody disturbs the file an audit's handler
  is writing or has read (`Saved`), and that an audit without a result has
  executions left (`Spent`). `EntryEffect` says how each step of a handler moves
  its audit in the ledger; the bound and the refinement both follow from it.
* `AgentExchangeProofs`, for `FileTransfer`: `TransferTypeCorrect`,
  `HandedAlways`, `RecordedAlways`.
  `IInv` adds to the types (`Types`) that a finished file in a cache is the one of
  its manifest and that chunks on record are on disk (`CacheInv`), what the sync at
  work knows at each position of the file and chunk it is at (`PlaceInv`) and of the
  cache it has open (`HereInv`), and the property itself (`HandedInv`).
* `DatabaseArtifactProofs`: `DatabaseTypes` and `ArtifactInvariant`, the way of the
  data to the artifact. `SourceInv` says that the source only moves on, `DumpInv`
  what a dump at work has read so far, and `ArtInv` that a finished artifact holds
  versions not older than its inspection (PostgreSQL, MySQL), a window that explains
  every difference (MongoDB) or keys of a source that kept still (Redis).
* `DatabaseMigrationProofs`: the way from the artifact to the target. `RestoreInv`
  says, engine by engine, what a restore at work has already brought over and
  checked; with `HostInv` (what cannot be in a target of this engine), `SetInv` and
  `CutInv` it is inductive (`Invariant`) and gives `SetResets` and `RestoresACut`.
  `OwnInv` (what a migration restored carries its marker, and at work on it is only
  itself or, with another binding, one that finds its own marker: `Entitled`) and
  `DoneInv` (it is still what it was, or there is a reason) give
  `RestoredTargetsKept` and `RejectsOnlyDrift`, for any assignment of bindings.
* `LogicalReplicationProofs`: `Inductive`, `ReplicationTypes`, `ObjectsAreOwned`,
  `VerifiedTargetHoldsSource`, `VerdictSurvives`, `DetachedOnlyVerified`. `IInv`
  says which primitive is at work in which phase and which objects exist by then
  (`PlanInv`), how far the subscription's tables are (`SubInv`), in which order
  final states were captured and that a later one holds what an earlier one does
  (`FinalInv`, `OrderInv`), what a finalization has achieved at each of its steps
  (`StepInv`), and that a verdict keeps describing the target (`VerdictInv`,
  `VerifiedInv`, `DriftInv`). A manifest is the set of log positions it sees
  (`Entries`), which is what lets the order of captures be a matter of inclusion.

The proofs assume what the modules' `ASSUME`s say of the constants: that the
special values differ from the others, that bounds and expiry times are
naturals, and that a MySQL account has one entry in a set of privileges. Model-checked
only is liveness (`Enforced`, `ActivationEnds`, `ReleaseEnds`, `ResultDelivered`,
`SyncEnds`, `JobsAnswered`, `TransferEnds`, `StopEnds`), which under fairness is out
of the prover's reach.

## Divergences

1. `fence_orphan`: `broker.go:943` says an unexpected restart is "immediately
   stopped". After a failed activation of one migration its orphan marker makes
   `validateServiceFenceMarkers` fail and the watchdog stops watching every
   fence.
2. The record written when the last persist of an activation fails lacks the run
   id (`broker.go:602`), so the run's own retry is rejected (`broker.go:536`).
3. The fencing token is compared (`broker.go:1384`) before the wait for
   `writerFenceMu`, so an older token that was let through first can begin after a
   newer one.
4. A crash while the tree is copied, before the marker is written, leaves the apply
   directory; its name depends only on migration and digest, so every later attempt
   at this tree ends in "apply directory collision" (`files.go:827`), although a test
   (`dataplane_test.go:323`) expects an interrupted sync to resume. A backup left by
   a crash after the last marker write blocks a later return to the same tree in the
   same way. `SyncEnds` excepts both.
5. `docs/OPERATIONS.md:22` says that an action whose `run_id` appears again is not
   executed again. Only a cached result prevents that (`daemon.go:382`): an action
   that is at work when the next poll brings it again is started a second time. Two
   such executions can also save their results at the same time, through one
   temporary file, and leave an entry that does not parse, although
   `file_store.go:16` says that values are written atomically; the entry is then
   ignored.
6. `verifyEnvelope` reads the clock twice. An envelope handed out again
   that expires between the readings has its nonce pruned and is executed again;
   the premise of `AdmittedOnceWhileValid` leaves this case out.
7. In the premises of the fence properties: a crash between the watchdog's stop
   and its write, or a repeated fence request, hides a restart
   (`NoSilentRestart`); counts added without the lock when systemctl is missing
   are overwritten (`EvidenceKept`); when the first write of an activation fails
   the services are stopped unrecorded and a retry forgets to restart them, and a
   fence asked for after a reboot, before systemd has started the services again,
   takes them for stopped (`RemembersWriters`); a marker that cannot be written leaves a fence without
   inhibitor (`FenceInhibited`).
8. Transfer: a chunk read after a write to the source that came after the manifest
   check goes on record under its own digest. If the source is put back to the
   approved manifest, every retry trusts the checkpoint and ends in "assembled file
   digest verification failed" (`files.go:607`). Caches of superseded manifests are
   never removed.
9. Compose: after a start that failed half way the broker asks to "Preserve the
   runtime-secret staging area for reviewed recovery." (`broker.go:1411`), but
   `composeStartWithRuntimeSecrets` always wipes it. The request's deadline of 90 s
   (`broker.go:1462`) is shorter than `--wait-timeout 120`, and the `down` after a
   start that ran into it uses the same context and never runs.
10. Compose: a removal of the snapshot that dies after `compose.yaml` is gone leaves
    a directory that can neither be loaded by a stop nor replaced by a start. The
    retry of a stop whose answer was lost fails for want of a snapshot, and the retry
    of a rendering that succeeded is a collision. Temporary snapshot directories of a
    broker that died stay, with the secrets copied so far, and so does one whose
    deferred removal fails (`compose_snapshot.go:139`); nothing looks for them later.
    A stop that keeps the volumes makes a later start refuse.
11. Compose, two requests at once (the agent gave up on the first): a stop beside a
    start can leave containers without snapshot, and an agent that wipes its files
    while the abandoned request copies them can leave zeros in the snapshot.
12. Databases: resets of a single PostgreSQL or MySQL database save their marker
    last; one that dies after it created a database that was approved as absent
    cannot be retried. A set saves it first (`postgres.go:1689`), which
    `SetResetRetryable` states. Markers are kept per binding (`postgres.go:964`):
    nothing in the agent keeps two migrations from using two bindings for one
    database, and then one of them can come back, find its own marker and destroy what
    the other restored. `RestoredKept` says so. A migration that inspects a target another one has
    emptied and not yet restored can take it over. PostgreSQL manifests cover a
    sample of rows, so changes elsewhere between inspection and dump go unnoticed;
    a Redis dump is not compared with the source again (`RestoredIsCut` asks for a
    still one).
13. Logical replication: `cleanupTarget` selects two columns
    (`postgres_logical.go:1721`) and wants three (`:1736`), so a plan given up after
    its subscription was created cannot be cleaned at the target. A crash between
    the schema load and its marker needs a reset of the target; a reset after the
    marker makes every later schema restore refuse. `finalizeSource` asks for a free
    slot although it creates none.

Only the first is a run of its own. The others are cases that the premises of the
properties leave out, or behaviours of the actions that no property is about.

## Abstractions

Signatures, digests, names, paths, permissions and messages are left out; a digest
is the content it is taken of. Timestamps are left out of fences and are a counter in
`BrokerAccept` and `TaskRunner`. A crash keeps every completed rename: a power loss
that undoes the rename of the runner's state file (its directory is not synced) is not
modelled. Deadlines of requests are modelled in `ComposeRuntime` and
`LogicalReplication` only, elsewhere a call that runs out of time is one that fails;
an orderly shutdown of the daemon is not told apart from a crash. The clock only goes forward. Docker, systemd,
the database servers and their tools are external: they are modelled by what the code
relies on (`pg_restore` in one transaction, `mysqldump` from one snapshot,
`mongodump` document by document, `create subscription` making the slot first). The
inspection of a target is one step. The backend runs the primitives of a plan in the
order of the plan and repeats the ones that failed.

## Not modelled

* Quiescence and estimates: two observations beside the broker's fence check, which is
  in `WriterFence`, and their comparison; nothing is changed.
* The plan interpreter of the operations: it runs the steps of one action in sequence
  within `Execute` of `RemoteJobs` and keeps no state across actions. Remediation: a
  fixed list of commands and a verification. The gateway: checks a token and forwards.
* Preflights, the policy of a Compose document, the eligibility checks of logical
  replication beyond slots, publication and schema: they read and accept or refuse.
* Text: rendering, the rewriting of definers in a MySQL dump, schema dumps, canonical
  JSON, parsing of bindings. The properties here do not depend on it, and its
  correctness is better tested than model-checked.
* Cryptography, TLS, key files and enrolment; `openat2` and path scopes.
* Discovery, checks, metrics, command line, configuration and API client: reads and
  single requests without state that another step depends on.
* A reboot of the target host during a Compose migration: snapshots are in `/run` and
  do not survive it.
