----------------------------- MODULE RemoteJobs -----------------------------
(***************************************************************************)
(* Jobs the backend hands to the agent in its configuration                *)
(* (internal/agent/daemon.go, operations_handler.go, audit_handler.go,     *)
(* commands_v2.go, commands_handler.go, internal/store/file_store.go):     *)
(* operations ("actions"), audits, commands and legacy commands.  The poll *)
(* loop starts a goroutine for the first job of an answer; the handlers of *)
(* actions and audits keep a result they could not post in a file store    *)
(* and post it again when the job comes back.                              *)
(*                                                                         *)
(* Abstracted: what a job does and reports; a result is the number of the  *)
(* execution that produced it.  A job of the backend stays open until the  *)
(* backend has heard a result of it.                                       *)
(***************************************************************************)
EXTENDS Naturals

CONSTANTS
  Actions, Audits, Commands, Legacy,   \* run ids and command ids
  Handlers,      \* goroutines at work at the same time, at most
  Absent,        \* no file
  Torn,          \* a file whose content does not parse
  NoJob,
  Issued,        \* the sets of jobs the backend may have open at first
  MaxFaults, MaxCrashes

Kept == Actions \cup Audits            \* jobs whose results are kept
Jobs == Kept \cup Commands \cup Legacy

VARIABLES
  refused,       \* jobs that fail validation, or all but audits in the migration profile
  open,          \* backend: jobs it has not heard a result of
  acked,         \* history: jobs whose result the backend has acknowledged
  conf,          \* the answer the poll loop works on
  last,          \* lastCommandKey
  inFlight,      \* auditInFlight
  recent,        \* auditRecent
  aged,          \* entries of it that are older than 30 minutes
  at, job, res,  \* the handlers: position, job and result
  file, tmp,     \* the store: the entry of a job and its temporary file
  fd,            \* which of them a handler that saves has open
  runs,          \* history: how often each job was executed
  faults,
  lost,          \* history: failed accesses to the store
  crashes

polling == <<conf, last, inFlight, recent, aged>>
handling == <<at, job, res>>
storing == <<file, tmp, fd>>
jobVars == <<refused, open, acked, polling, handling, storing, runs, faults, lost, crashes>>

ASSUME RemoteJobsAssumption ==
  /\ Actions \cap Audits = {} /\ Kept \cap (Commands \cup Legacy) = {} /\ Commands \cap Legacy = {}
  /\ NoJob \notin Jobs /\ Absent \notin Nat /\ Torn \notin Nat /\ Absent # Torn
  /\ Issued \subseteq SUBSET Jobs /\ MaxFaults \in Nat /\ MaxCrashes \in Nat

JobsInit ==
  /\ open \in Issued /\ acked = {}
  /\ refused \in {{}, open \ Audits} \cup {{j} : j \in Kept \cap open}
  /\ conf = NoJob /\ last = NoJob /\ inFlight = {} /\ recent = {} /\ aged = {}
  /\ at = [h \in Handlers |-> "free"] /\ job = [h \in Handlers |-> NoJob] /\ res = [h \in Handlers |-> 0]
  /\ file = [j \in Kept |-> Absent] /\ tmp = [j \in Kept |-> Absent] /\ fd = [h \in Handlers |-> "none"]
  /\ runs = [j \in Jobs |-> 0] /\ faults = 0 /\ lost = 0 /\ crashes = 0

-----------------------------------------------------------------------------
(* configPollLoop *)

JobFault(ok) ==
  /\ ok \/ faults < MaxFaults
  /\ faults' = IF ok THEN faults ELSE faults + 1

Offer(S) == IF S \cap open = {} THEN NoJob ELSE CHOOSE j \in S \cap open : TRUE

\* PollOnce: the request, and the cache of the configuration
Poll(ok) ==
  /\ conf = NoJob /\ JobFault(ok)
  /\ conf' = IF ok THEN [action |-> Offer(Actions), audit |-> Offer(Audits),
                         command |-> Offer(Commands), legacy |-> Offer(Legacy)]
             ELSE NoJob
  /\ UNCHANGED <<refused, open, acked, last, inFlight, recent, aged, handling, storing, runs, lost, crashes>>

\* a goroutine is started for job j, which executes at once or looks for a result
Start(j, p) ==
  \E h \in Handlers :
    /\ at[h] = "free"
    /\ at' = [at EXCEPT ![h] = p] /\ job' = [job EXCEPT ![h] = j]
    /\ runs' = IF p = "exec" THEN [runs EXCEPT ![j] = @ + 1] ELSE runs
    /\ res' = [res EXCEPT ![h] = runs'[j]]

Skip == UNCHANGED <<handling, runs>>

DispatchAction ==
  /\ conf # NoJob /\ conf.action # NoJob
  /\ conf' = NoJob
  /\ IF conf.action \in refused THEN Skip ELSE Start(conf.action, "look")
  /\ UNCHANGED <<refused, open, acked, last, inFlight, recent, aged, storing, faults, lost, crashes>>

\* variant of DispatchAudit: what was handled recently is not looked at
DispatchAudit_InFlightOnly ==
  /\ conf # NoJob /\ conf.action = NoJob /\ conf.audit # NoJob
  /\ conf' = NoJob
  /\ IF conf.audit \in refused \cup inFlight THEN Skip /\ UNCHANGED inFlight
     ELSE inFlight' = inFlight \cup {conf.audit} /\ Start(conf.audit, "look")
  /\ UNCHANGED <<refused, open, acked, last, recent, aged, storing, faults, lost, crashes>>

\* beginAuditJob: not while it is at work, nor when it was handled recently
DispatchAudit ==
  /\ conf # NoJob /\ conf.action = NoJob /\ conf.audit # NoJob
  /\ conf' = NoJob
  /\ IF conf.audit \in refused THEN Skip /\ UNCHANGED <<inFlight, recent, aged>>
     ELSE /\ recent' = recent \ aged /\ aged' = {}
          /\ IF conf.audit \in inFlight \cup recent' THEN Skip /\ UNCHANGED inFlight
             ELSE inFlight' = inFlight \cup {conf.audit} /\ Start(conf.audit, "look")
  /\ UNCHANGED <<refused, open, acked, last, storing, faults, lost, crashes>>

DispatchCommand ==
  /\ conf # NoJob /\ conf.action = NoJob /\ conf.audit = NoJob /\ conf.command # NoJob
  /\ conf' = NoJob
  /\ IF conf.command \in refused THEN Skip ELSE Start(conf.command, "exec")
  /\ UNCHANGED <<refused, open, acked, last, inFlight, recent, aged, storing, faults, lost, crashes>>

\* a legacy command is compared with the one before
DispatchLegacy ==
  /\ conf # NoJob /\ conf.action = NoJob /\ conf.audit = NoJob /\ conf.command = NoJob
  /\ conf' = NoJob
  /\ IF conf.legacy \in refused \cup {last, NoJob} THEN Skip /\ UNCHANGED last
     ELSE last' = conf.legacy /\ Start(conf.legacy, "exec")
  /\ UNCHANGED <<refused, open, acked, inFlight, recent, aged, storing, faults, lost, crashes>>

-----------------------------------------------------------------------------
(* handlePendingAction, handlePendingAuditJob, handlePendingCommandV2,       *)
(* handleCommand                                                             *)

Proceed(h, p) == at' = [at EXCEPT ![h] = p] /\ UNCHANGED <<job, res>>

\* the handler returns; that of an audit goes on to endAuditJob
Leave(h, handled) ==
  Proceed(h, IF job[h] \notin Audits THEN "free" ELSE IF handled THEN "handled" ELSE "unhandled")

\* a result in the store is posted again; one that cannot be read is not
Look(h, ok) ==
  LET j == job[h] IN
  /\ at[h] = "look" /\ JobFault(ok)
  /\ lost' = IF ok THEN lost ELSE lost + 1
  /\ IF ok /\ file[j] \in Nat
     THEN /\ at' = [at EXCEPT ![h] = "repost"] /\ res' = [res EXCEPT ![h] = file[j]]
          /\ UNCHANGED runs
     ELSE /\ at' = [at EXCEPT ![h] = "exec"] /\ runs' = [runs EXCEPT ![j] = @ + 1]
          /\ res' = [res EXCEPT ![h] = runs'[j]]
  /\ UNCHANGED <<refused, open, acked, polling, job, storing, crashes>>

\* a request is answered, heard but not answered, or not heard
Calls == {"ok", "unanswered", "unheard"}

Send(h, call) ==
  /\ JobFault(call = "ok")
  /\ open' = IF call = "unheard" THEN open ELSE open \ {job[h]}
  /\ acked' = IF call = "ok" THEN acked \cup {job[h]} ELSE acked

\* variant of Repost: the result is dropped whatever became of the request
Repost_DropsAlways(h, call) ==
  /\ at[h] = "repost" /\ Send(h, call)
  /\ Proceed(h, "drop")
  /\ UNCHANGED <<refused, polling, storing, runs, lost, crashes>>

Repost(h, call) ==
  /\ at[h] = "repost" /\ Send(h, call)
  /\ IF call = "ok" THEN Proceed(h, "drop") ELSE Leave(h, FALSE)
  /\ UNCHANGED <<refused, polling, storing, runs, lost, crashes>>

\* who has the file open that is removed or replaced keeps writing to nothing
Unlinked(f) == [h \in Handlers |-> IF job[h] = f /\ fd[h] = "file" THEN "gone" ELSE fd[h]]

Drop(h, ok) ==
  /\ at[h] = "drop" /\ JobFault(ok)
  /\ IF ok THEN file' = [file EXCEPT ![job[h]] = Absent] /\ fd' = Unlinked(job[h]) ELSE UNCHANGED <<file, fd>>
  /\ Leave(h, TRUE)
  /\ UNCHANGED <<refused, open, acked, polling, tmp, runs, lost, crashes>>

\* a legacy command may end without a report
Execute(h) ==
  /\ at[h] = "exec"
  /\ Proceed(h, "post") \/ (job[h] \in Legacy /\ Proceed(h, "free"))
  /\ UNCHANGED <<refused, open, acked, polling, storing, runs, faults, lost, crashes>>

\* variant of Post: a result that was not acknowledged is thrown away
Post_Forgets(h, call) ==
  /\ at[h] = "post" /\ Send(h, call)
  /\ Leave(h, call = "ok")
  /\ UNCHANGED <<refused, polling, storing, runs, lost, crashes>>

Post(h, call) ==
  /\ at[h] = "post" /\ Send(h, call)
  /\ IF call = "ok" \/ job[h] \notin Kept THEN Leave(h, call = "ok") ELSE Proceed(h, "put")
  /\ UNCHANGED <<refused, polling, storing, runs, lost, crashes>>

\* variant of EndAudit: an audit counts as handled even when its result was not posted
EndAudit_AlwaysHandled(h) ==
  /\ at[h] \in {"handled", "unhandled"}
  /\ inFlight' = inFlight \ {job[h]}
  /\ recent' = recent \cup {job[h]} /\ aged' = aged \ {job[h]}
  /\ Proceed(h, "free")
  /\ UNCHANGED <<refused, open, acked, conf, last, storing, runs, faults, lost, crashes>>

\* endAuditJob
EndAudit(h) ==
  /\ at[h] \in {"handled", "unhandled"}
  /\ inFlight' = inFlight \ {job[h]}
  /\ recent' = IF at[h] = "handled" THEN recent \cup {job[h]} ELSE recent
  /\ aged' = IF at[h] = "handled" THEN aged \ {job[h]} ELSE aged
  /\ Proceed(h, "free")
  /\ UNCHANGED <<refused, open, acked, conf, last, storing, runs, faults, lost, crashes>>

-----------------------------------------------------------------------------
(* FileStore.Put: the temporary file has one name per entry *)

\* variant of PutOpen: what is in the temporary file is not truncated
PutOpen_KeepsRest(h, ok) ==
  /\ at[h] = "put" /\ JobFault(ok)
  /\ IF ok
     THEN /\ tmp' = [tmp EXCEPT ![job[h]] = IF @ = Absent THEN Torn ELSE @] /\ fd' = [fd EXCEPT ![h] = "tmp"]
          /\ Proceed(h, "write") /\ UNCHANGED lost
     ELSE /\ lost' = lost + 1 /\ Leave(h, FALSE) /\ UNCHANGED <<tmp, fd>>
  /\ UNCHANGED <<refused, open, acked, polling, file, runs, crashes>>

\* open and truncate, or any error of Put
PutOpen(h, ok) ==
  /\ at[h] = "put" /\ JobFault(ok)
  /\ IF ok
     THEN /\ tmp' = [tmp EXCEPT ![job[h]] = Torn] /\ fd' = [fd EXCEPT ![h] = "tmp"]
          /\ Proceed(h, "write") /\ UNCHANGED lost
     ELSE /\ lost' = lost + 1 /\ Leave(h, FALSE) /\ UNCHANGED <<tmp, fd>>
  /\ UNCHANGED <<refused, open, acked, polling, file, runs, crashes>>

\* over what another handler has written to the same file the result may not parse
PutWrite(h) ==
  LET j == job[h]
      Over(old) == {res[h]} \cup (IF old \in Nat THEN {Torn} ELSE {})
  IN
  /\ at[h] = "write" /\ Proceed(h, "rename")
  /\ \/ fd[h] = "tmp" /\ \E v \in Over(tmp[j]) : tmp' = [tmp EXCEPT ![j] = v] /\ UNCHANGED file
     \/ fd[h] = "file" /\ \E v \in Over(file[j]) : file' = [file EXCEPT ![j] = v] /\ UNCHANGED tmp
     \/ fd[h] = "gone" /\ UNCHANGED <<file, tmp>>
  /\ UNCHANGED <<refused, open, acked, polling, fd, runs, faults, lost, crashes>>

\* nothing to rename is an error of Put
PutRename(h) ==
  LET j == job[h] IN
  /\ at[h] = "rename"
  /\ IF tmp[j] = Absent THEN fd' = [fd EXCEPT ![h] = "none"] /\ UNCHANGED <<file, tmp>>
     ELSE /\ file' = [file EXCEPT ![j] = tmp[j]] /\ tmp' = [tmp EXCEPT ![j] = Absent]
          /\ fd' = [g \in Handlers |-> IF g = h THEN "none"
                                       ELSE IF job[g] = j /\ fd[g] = "tmp" THEN "file" ELSE Unlinked(j)[g]]
  /\ Leave(h, FALSE)
  /\ UNCHANGED <<refused, open, acked, polling, runs, faults, lost, crashes>>

-----------------------------------------------------------------------------
(* Environment *)

\* half an hour passes; a poll does not take that long
Age ==
  /\ conf = NoJob /\ recent # aged
  /\ aged' = recent
  /\ UNCHANGED <<refused, open, acked, conf, last, inFlight, recent, handling, storing, runs, faults, lost, crashes>>

\* the agent crashes and NewDaemon starts it again
DaemonCrash ==
  /\ crashes < MaxCrashes /\ crashes' = crashes + 1
  /\ conf' = NoJob /\ last' = NoJob /\ inFlight' = {} /\ recent' = {} /\ aged' = {}
  /\ at' = [h \in Handlers |-> "free"] /\ job' = [h \in Handlers |-> NoJob] /\ res' = [h \in Handlers |-> 0]
  /\ fd' = [h \in Handlers |-> "none"]
  /\ UNCHANGED <<refused, open, acked, file, tmp, runs, faults, lost>>

Dispatch == DispatchAction \/ DispatchAudit \/ DispatchCommand \/ DispatchLegacy
PollLoop == Dispatch \/ \E ok \in BOOLEAN : Poll(ok)

Handler(h) ==
  \/ \E ok \in BOOLEAN : Look(h, ok) \/ Drop(h, ok) \/ PutOpen(h, ok)
  \/ \E call \in Calls : Repost(h, call) \/ Post(h, call)
  \/ Execute(h) \/ PutWrite(h) \/ PutRename(h) \/ EndAudit(h)

JobsNext == PollLoop \/ Age \/ DaemonCrash \/ \E h \in Handlers : Handler(h)

JobsSpec == JobsInit /\ [][JobsNext]_jobVars

\* the poll loop ticks, and every handler, whose calls all have timeouts, goes on
JobsLiveSpec == JobsSpec /\ WF_jobVars(PollLoop) /\ \A h \in Handlers : WF_jobVars(Handler(h))

-----------------------------------------------------------------------------
(* Properties *)

JobsTypeOK ==
  /\ refused \subseteq Jobs /\ open \subseteq Jobs /\ acked \subseteq Jobs
  /\ conf = NoJob \/ conf \in [action: Actions \cup {NoJob}, audit: Audits \cup {NoJob},
                              command: Commands \cup {NoJob}, legacy: Legacy \cup {NoJob}]
  /\ last \in Legacy \cup {NoJob} /\ inFlight \subseteq Audits /\ recent \subseteq Audits /\ aged \subseteq recent
  /\ at \in [Handlers -> {"free", "look", "repost", "drop", "exec", "post", "put", "write", "rename",
                          "handled", "unhandled"}]
  /\ job \in [Handlers -> Jobs \cup {NoJob}] /\ res \in [Handlers -> Nat]
  /\ file \in [Kept -> Nat \cup {Absent, Torn}] /\ tmp \in [Kept -> Nat \cup {Absent, Torn}]
  /\ fd \in [Handlers -> {"none", "tmp", "file", "gone"}]
  /\ runs \in [Jobs -> Nat] /\ faults \in Nat /\ lost \in Nat /\ crashes \in Nat

\* An audit is executed once, and once more at most for every crash and every
\* failed access to the store: neither repeated polls, nor an answer of the
\* poll that is older than the result, nor lost requests execute it again
\* (beginAuditJob, endAuditJob, handlePendingAuditJob).
AuditRunsBounded ==
  \A j \in Audits : runs[j] <= 1 + crashes + lost

\* The entry of an audit in the store always parses, although Put writes every
\* version of it through one temporary name (FileStore.Put): no second handler
\* of the audit writes into that file, and what a crash leaves of it is
\* truncated before it can be renamed. For actions, of which several handlers
\* may be at work, it is false.
AuditEntryWhole ==
  \A j \in Audits : file[j] # Torn

\* A kept result is removed from the store only when the backend has a result
\* of its job, whichever handlers of the job read, save and remove it.
ResultKept ==
  [][\A j \in Kept : file[j] # Absent /\ file'[j] = Absent => j \notin open]_jobVars

Executing(j) == \E h \in Handlers : job[h] = j /\ at[h] = "exec"
Holding(j) == \E h \in Handlers : job[h] = j /\ at[h] \in {"post", "put", "write", "rename", "repost"}

Entry(j) ==
  IF Executing(j) THEN "running"
  ELSE IF j \in acked THEN "answered"
  ELSE IF Holding(j) \/ file[j] \in Nat THEN "held" ELSE "waiting"

Ledger == INSTANCE JobLedger WITH Jobs <- Audits, ledger <- [j \in Audits |-> Entry(j)]

\* The agent keeps the ledger of audits: only produced results are answered,
\* and an audit whose result was acknowledged is not executed again.
LedgerKept == Ledger!Spec

\* jobs of an answer that keep the poll loop from looking at job j
Ahead(j) == IF j \in Actions THEN Actions ELSE IF j \in Audits THEN Kept ELSE Kept \cup Commands

\* Every open action, audit and command is answered, across failures and
\* crashes, unless the agent refuses it or a job it looks at before it.
JobsAnswered ==
  \A j \in Kept \cup Commands : <>(j \notin open \/ refused \cap open \cap Ahead(j) # {})
=============================================================================
