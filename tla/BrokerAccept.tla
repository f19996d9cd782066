---------------------------- MODULE BrokerAccept ----------------------------
(***************************************************************************)
(* How the typed broker (internal/migration/broker.go) admits a task: every*)
(* connection is a goroutine that checks the signed envelope, then, under  *)
(* b.mu, the nonce and the fencing token of the task's domain, persists    *)
(* both, and only then runs the primitive.  Connections interleave, the    *)
(* same envelope may arrive again after a lost answer or a restart of the  *)
(* agent, time passes between the steps, and the broker may crash.         *)
(*                                                                         *)
(* Abstracted: signatures and digests (every envelope is one the backend   *)
(* signed), the legacy list SeenNonces (nothing adds to it), what the      *)
(* primitive does (module WriterFence has the host-writers domain).        *)
(***************************************************************************)
EXTENDS Naturals, FiniteSets

CONSTANTS
  Conns,        \* connections, each used once
  Tasks,        \* signed envelopes; each has its own nonce
  Domains,      \* brokerFenceDomain
  Domain,       \* the domain of each task's primitive
  Token,        \* its fencing token
  Expiry,       \* when it expires
  Locked,       \* domains whose primitives take writerFenceMu
  MaxClock, MaxFaults, MaxCrashes

ASSUME BrokerAcceptAssumption ==
  /\ Domain \in [Tasks -> Domains] /\ Token \in [Tasks -> Nat] /\ Expiry \in [Tasks -> Nat]
  /\ Locked \subseteq Domains
  /\ MaxClock \in Nat /\ MaxFaults \in Nat /\ MaxCrashes \in Nat

VARIABLES
  up,       \* the broker runs
  clock,
  mem,      \* b.state: the highest token per domain and the live nonces
  disk,     \* the state file
  at,       \* where each connection is
  task,     \* the task each connection brings
  begun,    \* history: connections whose primitive has begun
  highest,  \* history: the highest token begun in each domain
  faults, crashes

acceptVars == <<up, clock, mem, disk, at, task, begun, highest, faults, crashes>>

State == [tokens: [Domains -> Nat], seen: SUBSET Tasks]
Blank == [tokens |-> [d \in Domains |-> 0], seen |-> {}]

Steps == {"free", "verify", "accept", "ready", "busy", "done"}

-----------------------------------------------------------------------------

\* handleConnection decodes a request of the agent
Submit(c) ==
  /\ up /\ at[c] = "free"
  /\ at' = [at EXCEPT ![c] = "verify"]
  /\ UNCHANGED <<up, clock, mem, disk, task, begun, highest, faults, crashes>>

\* verifySignedTaskEnvelope: the first look at the clock
Verify(c) ==
  /\ at[c] = "verify"
  /\ at' = [at EXCEPT ![c] = IF Expiry[task[c]] >= clock THEN "accept" ELSE "done"]
  /\ UNCHANGED <<up, clock, mem, disk, task, begun, highest, faults, crashes>>

\* the nonces acceptFence keeps: those that have not expired
Live(seen) == {t \in seen : Expiry[t] > clock}

\* variant of Admissible: an envelope that expires now is still taken
Admissible_AtExpiry(t) ==
  /\ t \notin Live(mem.seen)
  /\ Expiry[t] >= clock
  /\ mem.tokens[Domain[t]] <= Token[t]

\* the three rejections of acceptFence, on its one reading of the clock
Admissible(t) ==
  /\ t \notin Live(mem.seen)
  /\ Expiry[t] > clock
  /\ mem.tokens[Domain[t]] <= Token[t]

Outcomes == {"ok", "before", "after"}

\* persistFences reports an error before the rename, or after it
Persist(state, out) ==
  /\ out = "ok" \/ faults < MaxFaults
  /\ faults' = IF out = "ok" THEN faults ELSE faults + 1
  /\ disk' = IF out = "before" THEN disk ELSE state

\* variant of Consume: the comparison is the wrong way round
Consume_KeepsLower(t) ==
  [tokens |-> [mem.tokens EXCEPT ![Domain[t]] = IF @ > Token[t] THEN Token[t] ELSE @],
   seen |-> Live(mem.seen) \cup {t}]

\* what acceptFence notes: the nonce, and the token if it is higher
Consume(t) ==
  [tokens |-> [mem.tokens EXCEPT ![Domain[t]] = IF @ < Token[t] THEN Token[t] ELSE @],
   seen |-> Live(mem.seen) \cup {t}]

\* acceptFence; memory keeps what could not be persisted
Accept(c, out) ==
  LET t == task[c] IN
  /\ at[c] = "accept"
  /\ IF Admissible(t)
     THEN /\ mem' = Consume(t)
          /\ Persist(Consume(t), out)
          /\ at' = [at EXCEPT ![c] = IF out = "ok" THEN "ready" ELSE "done"]
     ELSE /\ out = "ok"
          /\ mem' = [mem EXCEPT !.seen = Live(@)]
          /\ at' = [at EXCEPT ![c] = "done"]
          /\ UNCHANGED <<disk, faults>>
  /\ UNCHANGED <<up, clock, task, begun, highest, crashes>>

\* execute enters the primitive, past writerFenceMu where it takes it
Enter(c) ==
  LET d == Domain[task[c]] IN
  /\ at[c] = "ready"
  /\ d \in Locked => \A b \in Conns : at[b] = "busy" => Domain[task[b]] # d
  /\ at' = [at EXCEPT ![c] = "busy"]
  /\ begun' = begun \cup {c}
  /\ highest' = [highest EXCEPT ![d] = IF @ < Token[task[c]] THEN Token[task[c]] ELSE @]
  /\ UNCHANGED <<up, clock, mem, disk, task, faults, crashes>>

\* the primitive returns, or gives up at the deadline of 90 seconds
End(c) ==
  /\ at[c] = "busy"
  /\ at' = [at EXCEPT ![c] = "done"]
  /\ UNCHANGED <<up, clock, mem, disk, task, begun, highest, faults, crashes>>

\* a writer-fence operation or the watchdog persists the same state
FencePersists ==
  /\ up
  /\ disk' = mem
  /\ UNCHANGED <<up, clock, mem, at, task, begun, highest, faults, crashes>>

Tick ==
  /\ clock < MaxClock
  /\ clock' = clock + 1
  /\ UNCHANGED <<up, mem, disk, at, task, begun, highest, faults, crashes>>

Crash ==
  /\ up /\ crashes < MaxCrashes
  /\ crashes' = crashes + 1
  /\ up' = FALSE
  /\ mem' = Blank
  /\ at' = [c \in Conns |-> IF at[c] = "free" THEN "free" ELSE "done"]
  /\ UNCHANGED <<clock, disk, task, begun, highest, faults>>

\* loadFences
Start ==
  /\ ~up
  /\ up' = TRUE
  /\ mem' = disk
  /\ UNCHANGED <<clock, disk, at, task, begun, highest, faults, crashes>>

AcceptInit ==
  /\ up = FALSE /\ clock = 0
  /\ mem = Blank /\ disk = Blank
  /\ at = [c \in Conns |-> "free"]
  /\ task \in [Conns -> Tasks]
  /\ begun = {} /\ highest = [d \in Domains |-> 0]
  /\ faults = 0 /\ crashes = 0

AcceptNext ==
  \/ \E c \in Conns : \/ Submit(c) \/ Verify(c) \/ Enter(c) \/ End(c)
                      \/ \E out \in Outcomes : Accept(c, out)
  \/ FencePersists \/ Tick \/ Crash \/ Start

AcceptSpec == AcceptInit /\ [][AcceptNext]_acceptVars

-----------------------------------------------------------------------------
(* Properties *)

\* The types of the broker's state, of the state file and of the connections.
AcceptTypeOK ==
  /\ up \in BOOLEAN /\ clock \in Nat
  /\ mem \in State /\ disk \in State
  /\ at \in [Conns -> Steps] /\ task \in [Conns -> Tasks]
  /\ begun \subseteq Conns /\ highest \in [Domains -> Nat]
  /\ faults \in Nat /\ crashes \in Nat

\* A signed envelope is carried out at most once, however often it arrives,
\* whatever write fails and whenever the broker restarts: acceptFence forgets a
\* nonce only when the envelope can no longer pass.
ConsumedOnce ==
  \A b, c \in begun : b # c => task[b] # task[c]

\* The highest token of a domain never goes down in the state file, so that a
\* restart does not reopen the broker to tokens it has already superseded.
TokensRise ==
  [][\A d \in Domains : disk'.tokens[d] >= disk.tokens[d]]_acceptVars

\* No request is admitted with a token below one that a primitive of its domain has begun with, although the broker
\* may have restarted in between or failed to write its state: acceptFence lets nothing begin that is not durable.
\* (A request that was admitted before may still begin later: it waits for writerFenceMu and is not compared again.)
AdmittedAboveBegun ==
  [][\A c \in Conns : at[c] = "accept" /\ at'[c] = "ready" => highest[Domain[task[c]]] <= Token[task[c]]]_acceptVars
=============================================================================
