--------------------------- MODULE ComposeRuntime ---------------------------
(***************************************************************************)
(* The isolated Compose project of a migration: composeRender and          *)
(* composeStartWithRuntimeSecrets in the agent (internal/migration/        *)
(* compose.go), composeStart and composeStop in the broker (broker.go) and *)
(* the snapshot between them (compose_snapshot.go).  The agent stages the  *)
(* secrets of the project in files under a clean-up marker, asks the       *)
(* broker, and wipes them.  The broker copies the document and the secrets *)
(* into a snapshot, has docker start the project from it, and keeps the    *)
(* snapshot for as long as the project may exist: stopping needs it.       *)
(*                                                                         *)
(* The broker serves requests side by side and gives each a deadline; the  *)
(* agent may give up on a request that the broker still works on; either   *)
(* may crash between any two steps, and any call may fail.                 *)
(*                                                                         *)
(* Abstracted: one project and one approved document; a secret file holds  *)
(* its value, zeros, or is not there; the objects of the project are its   *)
(* containers (with the networks) and its named volumes.                   *)
(***************************************************************************)
EXTENDS Naturals, FiniteSets

CONSTANTS
  Secrets,       \* the secrets of the document
  Slots,         \* requests the broker may have at work
  None,
  MaxMishaps, MaxRequests

VARIABLES
  rendered,      \* the Compose file is in place
  staged,        \* the staged secret files of the agent
  stagingDir, marker,
  agent,         \* the primitive at work in the agent
  snap,          \* the snapshot directory of the project
  req,           \* the requests at the broker
  strays,        \* a temporary directory with values of secrets is left that nothing will remove
  project,       \* what docker has of the project
  want,          \* what the backend asks for, again and again until it succeeds
  overlapped,    \* the broker has had two requests at work
  mishaps, requests

bounds == <<mishaps, requests>>
staging == <<staged, stagingDir, marker>>
vars == <<rendered, staging, agent, snap, req, strays, project, want, overlapped, bounds>>

Kinds == {"render", "start", "stop"}
Contents == {"none", "value", "zeros"}
Gone == [s \in Secrets |-> "none"]
Real == [s \in Secrets |-> "value"]

NoAgent == [pc |-> "idle", kind |-> None, slot |-> None, res |-> None]
NoReq == [pc |-> "free", kind |-> None, got |-> Gone, late |-> FALSE, volumes |-> FALSE]
NoSnap == [dir |-> FALSE, yaml |-> FALSE, meta |-> FALSE, secrets |-> Gone]
NoProject == [containers |-> "none", volumes |-> FALSE]

Removing == {"r_secrets", "r_yaml", "r_meta", "r_dir"}
ReqPCs == {"free", "policy", "probe", "copy", "publish", "absent", "up", "wait", "down", "proof", "load", "stop"} \cup Removing
AgentPCs == {"idle", "boot", "render", "recover", "mark", "mkdir", "stage", "send", "await", "clean"}

Agent == [pc: AgentPCs, kind: Kinds \cup {None}, slot: Slots \cup {None}, res: {"ok", "rejected", "partial", "lost", None}]
Req == [pc: ReqPCs, kind: Kinds \cup {None}, got: [Secrets -> Contents], late: BOOLEAN, volumes: BOOLEAN]
Snapshot == [dir: BOOLEAN, yaml: BOOLEAN, meta: BOOLEAN, secrets: [Secrets -> Contents]]
Project == [containers: {"none", "part", "up"}, volumes: BOOLEAN]

ASSUME ComposeAssumption ==
  /\ IsFiniteSet(Secrets) /\ Secrets # {} /\ None \notin Slots /\ None \notin Kinds
  /\ MaxMishaps \in Nat /\ MaxRequests \in Nat

Init ==
  /\ rendered \in BOOLEAN /\ staged = Gone /\ stagingDir = FALSE /\ marker = FALSE
  /\ agent = NoAgent /\ snap = NoSnap /\ req = [i \in Slots |-> NoReq] /\ strays = FALSE /\ project = NoProject
  /\ want = None /\ overlapped = FALSE /\ mishaps = 0 /\ requests = 0

-----------------------------------------------------------------------------
(* Common steps *)

Sound == UNCHANGED bounds
Mishap == mishaps < MaxMishaps /\ mishaps' = mishaps + 1 /\ UNCHANGED requests
Fault(ok) == IF ok THEN Sound ELSE Mishap

Goto(next) == agent' = [agent EXCEPT !.pc = next]

\* the primitive ends; a failed one stays wanted
Finish(ok) == agent' = NoAgent /\ want' = IF ok THEN None ELSE want
Failed == Finish(FALSE)

Brokers == <<snap, req, strays, project, overlapped>>

-----------------------------------------------------------------------------
(* The agent *)

\* a start whose document is not there fails before it changes anything
Begin ==
  /\ agent.pc = "idle" /\ want # None /\ (want = "start" => rendered)
  /\ agent' = [NoAgent EXCEPT !.kind = want,
                              !.pc = CASE want = "render" -> "render" [] want = "start" -> "recover" [] want = "stop" -> "send"]
  /\ Sound /\ UNCHANGED <<rendered, staging, want, Brokers>>

\* composeRender: a file that is there is a collision
Render(ok) ==
  /\ agent.pc = "render"
  /\ Fault(ok)
  /\ rendered' = (rendered \/ ok)
  /\ Finish(ok /\ ~rendered)
  /\ UNCHANGED <<staging, Brokers>>

\* writeComposeSecretCleanupMarker; one that fails may have renamed the marker into place
Mark(ok) ==
  /\ agent.pc = "mark"
  /\ Fault(ok)
  /\ marker' \in IF ok THEN {TRUE} ELSE {marker, TRUE}
  /\ IF ok THEN Goto("mkdir") /\ UNCHANGED want ELSE Failed
  /\ UNCHANGED <<rendered, staged, stagingDir, Brokers>>

\* the staging directory must be new
MakeDirectory(ok) ==
  /\ agent.pc = "mkdir"
  /\ Fault(ok)
  /\ IF ok /\ ~stagingDir THEN stagingDir' = TRUE /\ Goto("stage") /\ UNCHANGED want ELSE Failed /\ UNCHANGED stagingDir
  /\ UNCHANGED <<rendered, staged, marker, Brokers>>

\* one secret is written; a failed one is cleaned up with those before it
Stage(s, ok) ==
  /\ agent.pc = "stage" /\ staged[s] = "none"
  /\ Fault(ok)
  /\ \/ staged' = [staged EXCEPT ![s] = "value"]
     \/ ~ok /\ UNCHANGED staged
  /\ Goto(IF ok THEN "stage" ELSE "clean")
  /\ UNCHANGED <<rendered, stagingDir, marker, want, Brokers>>

Staged ==
  /\ agent.pc = "stage" /\ staged = Real
  /\ Goto("send")
  /\ Sound /\ UNCHANGED <<rendered, staging, want, Brokers>>

\* connections have no names: the first that is free
NextSlot == IF \E i \in Slots : req[i].pc = "free" THEN CHOOSE i \in Slots : req[i].pc = "free" ELSE None

\* the request is at the broker, next to those it may still be working on
Send(i, volumes) ==
  /\ agent.pc = "send" /\ i = NextSlot
  /\ req' = [req EXCEPT ![i] = [NoReq EXCEPT !.pc = IF agent.kind = "start" THEN "policy" ELSE "load",
                                             !.kind = agent.kind, !.volumes = volumes]]
  /\ agent' = [agent EXCEPT !.pc = "await", !.slot = i]
  /\ overlapped' = (overlapped \/ \E j \in Slots : req[j].pc # "free")
  /\ Sound /\ UNCHANGED <<rendered, staging, want, snap, strays, project>>

\* composeStartWithRuntimeSecrets cleans up whatever the broker has answered
AfterAnswer(res) ==
  IF agent.kind = "start" THEN agent' = [agent EXCEPT !.pc = "clean", !.slot = None, !.res = res] /\ UNCHANGED want
  ELSE Finish(res = "ok")

\* there is no connection, or it breaks, or the context of the task ends before the broker has answered
GiveUp ==
  /\ agent.pc \in {"send", "await"}
  /\ AfterAnswer("lost") /\ Mishap
  /\ UNCHANGED <<rendered, staging, Brokers>>

Wiping == agent.pc \in {"boot", "recover", "clean"}

\* wipeAndRemoveComposeSecret: zeros first, then the file goes
Wiped(content) == IF content = "value" THEN "zeros" ELSE "none"

\* wipeAndRemoveOpenComposeSecret does the same
Wipe(s) ==
  /\ Wiping /\ staged[s] # "none"
  /\ staged' = [staged EXCEPT ![s] = Wiped(@)]
  /\ Sound /\ UNCHANGED <<rendered, stagingDir, marker, agent, want, Brokers>>

\* mutant: the marker goes first
ClearMarker_First == Wiping

\* clearComposeSecretCleanupMarker: the last step of a clean-up
ClearMarker == Wiping /\ staged = Gone /\ ~stagingDir

RemoveDirectory ==
  /\ Wiping /\ staged = Gone /\ stagingDir
  /\ stagingDir' = FALSE
  /\ Sound /\ UNCHANGED <<rendered, staged, marker, agent, want, Brokers>>

\* recoverComposeRuntimeSecrets at start-up and before staging, and the clean-up after an answer
Cleaned ==
  /\ ClearMarker
  /\ marker' = FALSE
  /\ CASE agent.pc = "boot" -> agent' = NoAgent /\ UNCHANGED want
       [] agent.pc = "recover" -> Goto("mark") /\ UNCHANGED want
       [] agent.pc = "clean" -> Finish(agent.res = "ok")
  /\ Sound /\ UNCHANGED <<rendered, staged, stagingDir, Brokers>>

\* a clean-up fails, the sync after the marker is cleared included: so does the primitive, and the agent does not start
CleaningFails ==
  /\ Wiping /\ Mishap
  /\ IF agent.pc = "boot" THEN UNCHANGED <<agent, want>> ELSE Failed
  /\ UNCHANGED marker \/ (ClearMarker /\ marker' = FALSE)
  /\ UNCHANGED <<rendered, staged, stagingDir, Brokers>>

\* the agent goes down; systemd may have removed the runtime directory when it is back
AgentCrash ==
  /\ agent.pc # "boot" /\ Mishap
  /\ agent' = [NoAgent EXCEPT !.pc = "boot"]
  /\ \/ UNCHANGED <<staged, stagingDir>>
     \/ staged' = Gone /\ stagingDir' = FALSE
  /\ UNCHANGED <<rendered, marker, want, Brokers>>

-----------------------------------------------------------------------------
(* The broker: how a request goes on and how it ends *)

Agents == <<rendered, staging>>

\* the snapshot directory is not there or has no files
NothingIn == snap.secrets = Gone /\ ~snap.yaml /\ ~snap.meta

ToPC(i, next) == req' = [req EXCEPT ![i].pc = next] /\ UNCHANGED <<agent, want>>

\* the answer reaches the agent if it is still waiting for it
Reply(i, res) ==
  /\ req' = [req EXCEPT ![i] = NoReq]
  /\ IF agent.pc = "await" /\ agent.slot = i THEN AfterAnswer(res) ELSE UNCHANGED <<agent, want>>

\* the deadline of handleConnection's context: no command is run after it
Late(i) ==
  /\ req[i].pc # "free" /\ ~req[i].late /\ Mishap
  /\ req' = [req EXCEPT ![i].late = TRUE]
  /\ UNCHANGED <<Agents, agent, want, snap, strays, project, overlapped>>

\* a command: not after the deadline, and it may fail
Command(i, ok) == (ok => ~req[i].late) /\ IF ok \/ req[i].late THEN Sound ELSE Mishap

\* createImmutableComposeSnapshot has values of secrets in the temporary directory of the request
Copying(i) == req[i].pc \in {"copy", "publish"} /\ \E s \in Secrets : req[i].got[s] = "value"

\* the deferred RemoveAll, whose error is not looked at
Discard(i) == strays' \in {strays, strays \/ Copying(i)}

\* nothing is deferred in a process that is gone, and no later one looks for temporary directories
BrokerCrash ==
  /\ Mishap
  /\ req' = [i \in Slots |-> NoReq]
  /\ strays' = (strays \/ \E i \in Slots : Copying(i))
  /\ IF agent.pc = "await" THEN AfterAnswer("lost") ELSE UNCHANGED <<agent, want>>
  /\ UNCHANGED <<Agents, snap, project, overlapped>>

-----------------------------------------------------------------------------
(* composeStart *)

\* readComposePolicy and validateComposeSecretScope: the document, and every secret as it was staged
ReadPolicy(i) ==
  /\ req[i].pc = "policy"
  /\ IF rendered /\ staged = Real THEN ToPC(i, "probe") ELSE Reply(i, "rejected")
  /\ Sound /\ UNCHANGED <<Agents, snap, strays, project, overlapped>>

\* createImmutableComposeSnapshot begins
Probe(i) ==
  /\ req[i].pc = "probe"
  /\ IF snap.dir THEN Reply(i, "rejected") ELSE ToPC(i, "copy")
  /\ Sound /\ UNCHANGED <<Agents, snap, strays, project, overlapped>>

\* readStableRegularFile of a secret into the temporary directory: it finds the value, or zeros, or no file
CopySecret(i, s) ==
  /\ req[i].pc = "copy" /\ req[i].got[s] = "none"
  /\ IF staged[s] = "none" THEN Reply(i, "rejected") /\ Discard(i)
     ELSE req' = [req EXCEPT ![i].got[s] = staged[s]] /\ UNCHANGED <<agent, want, strays>>
  /\ Sound /\ UNCHANGED <<Agents, snap, project, overlapped>>

Copied(i) ==
  /\ req[i].pc = "copy" /\ \A s \in Secrets : req[i].got[s] # "none"
  /\ ToPC(i, "publish")
  /\ Sound /\ UNCHANGED <<Agents, snap, strays, project, overlapped>>

\* the temporary directory is renamed; a directory with files in it is not replaced
Publish(i, ok) ==
  /\ req[i].pc = "publish"
  /\ Fault(ok)
  /\ IF ok /\ NothingIn
     THEN snap' = [dir |-> TRUE, yaml |-> TRUE, meta |-> TRUE, secrets |-> req[i].got] /\ ToPC(i, "absent") /\ UNCHANGED strays
     ELSE UNCHANGED snap /\ Reply(i, "rejected") /\ Discard(i)
  /\ UNCHANGED <<Agents, project, overlapped>>

\* ensureComposeTargetAbsent and compose config; the snapshot is removed if they fail
Absent(i, ok) ==
  /\ req[i].pc = "absent"
  /\ Command(i, ok)
  /\ ToPC(i, IF ok /\ project = NoProject THEN "up" ELSE "r_secrets")
  /\ UNCHANGED <<Agents, snap, strays, project, overlapped>>

\* compose up has read the snapshot and creates the objects of the project
Up(i, ok) ==
  /\ req[i].pc = "up"
  /\ Command(i, ok)
  /\ IF ok /\ snap.yaml THEN project' = [containers |-> "part", volumes |-> TRUE] /\ ToPC(i, "wait")
     ELSE UNCHANGED project /\ ToPC(i, "down")
  /\ UNCHANGED <<Agents, snap, strays, overlapped>>

\* mutant: how the command ended is not looked at
Wait_Assumed(i, ok, healthy) ==
  /\ req[i].pc = "wait" /\ (ok => healthy)
  /\ Command(i, ok)
  /\ project' = IF healthy THEN [containers |-> "up", volumes |-> TRUE] ELSE project
  /\ Reply(i, "ok")
  /\ UNCHANGED <<Agents, snap, strays, overlapped>>

\* up --wait returns; a command that fails or is killed may have started everything all the same
Wait(i, ok, healthy) ==
  /\ req[i].pc = "wait" /\ (ok => healthy)
  /\ Command(i, ok)
  /\ project' = IF healthy THEN [containers |-> "up", volumes |-> TRUE] ELSE project
  /\ IF ok THEN Reply(i, "ok") ELSE ToPC(i, "down")
  /\ UNCHANGED <<Agents, snap, strays, overlapped>>

\* mutant: the snapshot is removed although the project is still there
AfterDown_Removes(i, ok) == ToPC(i, IF ok THEN "proof" ELSE "r_secrets")

\* the snapshot stays if the project may still be there
AfterDown(i, ok) == IF ok THEN ToPC(i, "proof") ELSE Reply(i, "partial")

\* compose down --volumes after a failed start
Down(i, ok) ==
  /\ req[i].pc = "down"
  /\ Command(i, ok)
  /\ project' = IF ok /\ snap.yaml THEN NoProject ELSE project
  /\ AfterDown(i, ok /\ snap.yaml)
  /\ UNCHANGED <<Agents, snap, strays, overlapped>>

\* ensureComposeTargetAbsent once more
Proof(i, ok) ==
  /\ req[i].pc = "proof"
  /\ Command(i, ok)
  /\ IF ok /\ project = NoProject THEN ToPC(i, "r_secrets") ELSE Reply(i, "partial")
  /\ UNCHANGED <<Agents, snap, strays, project, overlapped>>

-----------------------------------------------------------------------------
(* composeStop, and the removal of a snapshot *)

\* loadImmutableComposeSnapshot needs the metadata and the document
Loadable == snap.dir /\ snap.meta /\ snap.yaml

\* mutant: a project that is only partly there is not stopped
Load_RefusesPartial(i) ==
  /\ req[i].pc = "load"
  /\ IF Loadable /\ project.containers # "part" THEN ToPC(i, "stop") ELSE Reply(i, "rejected")
  /\ Sound /\ UNCHANGED <<Agents, snap, strays, project, overlapped>>

Load(i) ==
  /\ req[i].pc = "load"
  /\ IF Loadable THEN ToPC(i, "stop") ELSE Reply(i, "rejected")
  /\ Sound /\ UNCHANGED <<Agents, snap, strays, project, overlapped>>

\* compose down, with or without the volumes
Stop(i, ok) ==
  /\ req[i].pc = "stop"
  /\ Command(i, ok)
  /\ IF ok /\ snap.yaml
     THEN /\ project' = [containers |-> "none", volumes |-> project.volumes /\ ~req[i].volumes]
          /\ ToPC(i, "r_secrets")
     ELSE UNCHANGED project /\ Reply(i, "rejected")
  /\ UNCHANGED <<Agents, snap, strays, overlapped>>

Removed(i) == IF req[i].kind = "stop" THEN Reply(i, "ok") ELSE Reply(i, "rejected")

\* mutant: the document goes with the first secret
RemoveSecret_AndDocument(s) == [snap EXCEPT !.secrets[s] = Wiped(@), !.yaml = FALSE]

\* one of the secrets is overwritten, or goes
RemoveSecret(s) == [snap EXCEPT !.secrets[s] = Wiped(@)]

\* removeImmutableComposeSnapshot: the secrets, the document, the metadata, the directory
Remove(i) ==
  /\ req[i].pc \in Removing
  /\ CASE req[i].pc = "r_secrets" /\ snap.secrets # Gone ->
            (\E s \in Secrets : snap.secrets[s] # "none" /\ snap' = RemoveSecret(s)) /\ UNCHANGED <<req, agent, want>>
       [] req[i].pc = "r_secrets" /\ snap.secrets = Gone -> UNCHANGED snap /\ ToPC(i, "r_yaml")
       [] req[i].pc = "r_yaml" -> snap' = [snap EXCEPT !.yaml = FALSE] /\ ToPC(i, "r_meta")
       [] req[i].pc = "r_meta" -> snap' = [snap EXCEPT !.meta = FALSE] /\ ToPC(i, "r_dir")
       [] req[i].pc = "r_dir" /\ NothingIn -> snap' = NoSnap /\ Removed(i)
       [] req[i].pc = "r_dir" /\ ~NothingIn -> UNCHANGED snap /\ Reply(i, "rejected")
  /\ Sound /\ UNCHANGED <<Agents, strays, project, overlapped>>

\* a removal that fails is over; composeStart does not look at its result
RemoveFails(i) ==
  /\ req[i].pc \in Removing /\ Mishap
  /\ Reply(i, "rejected")
  /\ UNCHANGED <<Agents, snap, strays, project, overlapped>>

-----------------------------------------------------------------------------

\* the backend asks for a primitive, whether or not the last one has succeeded
Ask(kind) ==
  /\ agent.pc = "idle" /\ requests < MaxRequests
  /\ want' = kind /\ requests' = requests + 1
  /\ UNCHANGED <<rendered, staging, agent, Brokers, mishaps>>

AgentStep ==
  \/ Begin \/ Staged \/ RemoveDirectory \/ Cleaned \/ CleaningFails \/ GiveUp
  \/ \E s \in Secrets : Wipe(s) \/ \E ok \in BOOLEAN : Stage(s, ok)
  \/ \E ok \in BOOLEAN : Render(ok) \/ Mark(ok) \/ MakeDirectory(ok)
  \/ \E i \in Slots, volumes \in BOOLEAN : (agent.kind = "start" => ~volumes) /\ Send(i, volumes)

BrokerStep(i) ==
  \/ ReadPolicy(i) \/ Probe(i) \/ Copied(i) \/ Load(i) \/ Remove(i) \/ RemoveFails(i)
  \/ \E s \in Secrets : CopySecret(i, s)
  \/ \E ok \in BOOLEAN :
       \/ Publish(i, ok) \/ Absent(i, ok) \/ Up(i, ok) \/ Down(i, ok) \/ Proof(i, ok) \/ Stop(i, ok)
       \/ \E healthy \in BOOLEAN : Wait(i, ok, healthy)

Next ==
  \/ AgentStep \/ AgentCrash \/ BrokerCrash
  \/ \E i \in Slots : BrokerStep(i) \/ Late(i)
  \/ \E kind \in Kinds : Ask(kind)

Spec == Init /\ [][Next]_vars

\* the agent and the requests of the broker go on, and the backend has a failed primitive tried again
LiveSpec == Spec /\ WF_vars(AgentStep) /\ \A i \in Slots : WF_vars(BrokerStep(i))

-----------------------------------------------------------------------------
(* Properties *)

\* The types.
TypeOK ==
  /\ rendered \in BOOLEAN /\ staged \in [Secrets -> Contents] /\ stagingDir \in BOOLEAN /\ marker \in BOOLEAN
  /\ agent \in Agent /\ snap \in Snapshot /\ project \in Project /\ req \in [Slots -> Req] /\ strays \in BOOLEAN
  /\ want \in Kinds \cup {None} /\ overlapped \in BOOLEAN
  /\ snap.secrets # Gone => snap.dir
  /\ staged # Gone => stagingDir

\* There is no moment, and no crash, at which a secret is staged and the clean-up marker is not there: it is
\* written before the staging directory is made and cleared after that is gone.
MarkerCovers == stagingDir => marker

\* As long as docker has containers of the project, the snapshot they were started from can be loaded, so a stop
\* is possible after any failure, deadline or crash of a start; two requests at work at once may break this.
UpHasSnapshot == project.containers # "none" => Loadable \/ overlapped

\* A snapshot that still has a secret in it, whole or overwritten, can be loaded: wherever a start or a stop dies or
\* fails, in the middle of a removal included, a later stop finds the snapshot and removes the secrets.  Two requests
\* at work at once may break this; the copies that a dead broker leaves in a temporary directory (strays) are in no
\* snapshot, and nothing removes them.
SecretsRemovable == snap.secrets # Gone => Loadable \/ overlapped

Answered(kind) == agent.pc = "await" /\ agent.kind = kind /\ \E i \in Slots : agent.slot = i /\ req[i].pc # "free" /\ req'[i].pc = "free"
Success(kind) == IF kind = "start" THEN agent'.res = "ok" ELSE want' = None

\* An agent that is told of a success is told the truth: after a start the project is up and runs from a snapshot
\* with the secrets as they were staged (not wiped by an earlier attempt), after a stop no container and no
\* snapshot is left; unless two requests have been at work at once.
ReportTrue ==
  [][~overlapped =>
       /\ Answered("start") /\ Success("start") => project'.containers = "up" /\ Loadable' /\ snap'.secrets = Real
       /\ Answered("stop") /\ Success("stop") => project'.containers = "none" /\ ~snap'.dir]_vars

\* A stop that the backend keeps asking for takes the containers down, whatever has become of the start before it,
\* unless the snapshot cannot be loaded any more.
StopEnds == want = "stop" ~> (want # "stop" \/ project.containers = "none" \/ ~Loadable)
=============================================================================
