------------------------ MODULE BrokerRequestProofs ------------------------
(***************************************************************************)
(* Proofs about the requests the broker serves: how they are admitted      *)
(* (BrokerAccept), for any connections, tasks, domains, tokens, expiry     *)
(* times and bounds, and how those of the Compose runtime are carried out  *)
(* (ComposeRuntime), for any secrets, requests and bounds.                 *)
(***************************************************************************)
EXTENDS BrokerAccept, ComposeRuntime, TLAPS

-----------------------------------------------------------------------------
(* Part 1: admission *)

\* the task can never be admitted again
Spent(t) == \/ Expiry[t] <= clock
            \/ t \in disk.seen /\ (up => t \in mem.seen)

\* connections past acceptFence
Passed == {c \in Conns : at[c] \in {"ready", "busy"}} \cup begun

\* Every task that got past acceptFence did so once and is spent, and memory
\* never knows less about tokens than the state file.
AcceptInv ==
  /\ \A c \in Passed : Spent(task[c])
  /\ \A b, c \in Passed : b # c => task[b] # task[c]
  /\ up => \A d \in Domains : mem.tokens[d] >= disk.tokens[d]
  /\ ~up => \A c \in Conns : at[c] \in {"free", "done"}

LEMMA ConsumeFacts ==
  ASSUME NEW t \in Tasks, mem \in State
  PROVE  /\ Consume(t) \in State
         /\ Consume(t).seen = Live(mem.seen) \cup {t}
         /\ \A d \in Domains : Consume(t).tokens[d] >= mem.tokens[d]
         /\ Consume(t).tokens[Domain[t]] >= Token[t]
<1> USE BrokerAcceptAssumption
<1> DEFINE high == IF mem.tokens[Domain[t]] < Token[t] THEN Token[t] ELSE mem.tokens[Domain[t]]
           tokens == [mem.tokens EXCEPT ![Domain[t]] = high]
<1>1. mem.tokens \in [Domains -> Nat] /\ mem.seen \subseteq Tasks
  BY Zenon DEF State
<1>2. high \in Nat /\ high >= mem.tokens[Domain[t]] /\ high >= Token[t]
  BY <1>1
<1> HIDE DEF high
<1>3. tokens \in [Domains -> Nat] /\ (\A d \in Domains : tokens[d] >= mem.tokens[d]) /\ tokens[Domain[t]] >= Token[t]
  BY <1>1, <1>2
<1>4. Consume(t) = [tokens |-> tokens, seen |-> Live(mem.seen) \cup {t}]
  BY Zenon DEF Consume, high
<1>5. Live(mem.seen) \cup {t} \subseteq Tasks
  BY Zenon, <1>1 DEF Live
<1> HIDE DEF tokens
<1> QED
  BY <1>3, <1>4, <1>5 DEF State

LEMMA BlankType == Blank \in State
<1>1. [d \in Domains |-> 0] \in [Domains -> Nat]
  BY Zenon
<1> QED
  BY Zenon, <1>1 DEF Blank, State

LEMMA TypeNext == AcceptTypeOK /\ [AcceptNext]_acceptVars => AcceptTypeOK'
<1> SUFFICES ASSUME AcceptTypeOK, [AcceptNext]_acceptVars PROVE AcceptTypeOK'
  BY Zenon
<1> USE BrokerAcceptAssumption DEF AcceptTypeOK, Steps
<1>1. ASSUME NEW c \in Conns, Submit(c) \/ Verify(c) \/ End(c) PROVE AcceptTypeOK'
  BY Zenon, <1>1 DEF Submit, Verify, End
<1>2. ASSUME NEW c \in Conns, Enter(c) PROVE AcceptTypeOK'
  <2> DEFINE d == Domain[task[c]]
             high == IF highest[d] < Token[task[c]] THEN Token[task[c]] ELSE highest[d]
  <2>1. d \in Domains /\ high \in Nat
    BY Zenon
  <2>2. highest' = [highest EXCEPT ![d] = high]
    BY Zenon, <1>2 DEF Enter
  <2> HIDE DEF d, high
  <2>3. highest' \in [Domains -> Nat]
    BY Zenon, <2>1, <2>2
  <2> QED
    BY Zenon, <1>2, <2>3 DEF Enter
<1>3. ASSUME NEW c \in Conns, NEW out \in Outcomes, Accept(c, out) PROVE AcceptTypeOK'
  <2> DEFINE t == task[c]
  <2>1. t \in Tasks
    BY Zenon
  <2>2. CASE Admissible(t)
    <3>1. /\ mem' = Consume(t) /\ disk' \in {disk, Consume(t)} /\ faults' \in {faults, faults + 1}
          /\ at' = [at EXCEPT ![c] = IF out = "ok" THEN "ready" ELSE "done"]
          /\ UNCHANGED <<up, clock, task, begun, highest, crashes>>
      BY Zenon, <1>3, <2>2 DEF Accept, Persist
    <3>2. Consume(t) \in State
      BY Zenon, <2>1, ConsumeFacts
    <3> QED
      BY <3>1, <3>2
  <2>3. CASE ~Admissible(t)
    <3>1. /\ mem' = [mem EXCEPT !.seen = Live(mem.seen)] /\ UNCHANGED <<disk, faults>>
          /\ at' = [at EXCEPT ![c] = "done"]
          /\ UNCHANGED <<up, clock, task, begun, highest, crashes>>
      BY Zenon, <1>3, <2>3 DEF Accept
    <3>2. mem' \in State
      BY Zenon, <3>1 DEF State, Live
    <3> QED
      BY Zenon, <3>1, <3>2
  <2> QED
    BY Zenon, <2>2, <2>3
<1>4. ASSUME FencePersists \/ Start PROVE AcceptTypeOK'
  BY Zenon, <1>4 DEF FencePersists, Start
<1>5. ASSUME Tick PROVE AcceptTypeOK'
  BY <1>5 DEF Tick
<1>6. ASSUME Crash PROVE AcceptTypeOK'
  <2>1. at' \in [Conns -> Steps]
    BY Zenon, <1>6 DEF Crash
  <2>2. up' \in BOOLEAN
    BY <1>6, Zenon DEF Crash
  <2>3. /\ mem' = Blank /\ crashes' = crashes + 1
        /\ UNCHANGED <<clock, disk, task, begun, highest, faults>>
    BY Zenon, <1>6 DEF Crash
  <2> QED
    BY <2>1, <2>2, <2>3, BlankType
<1>7. CASE UNCHANGED acceptVars
  BY Zenon, <1>7 DEF acceptVars
<1> QED
  BY Zenon, <1>1, <1>2, <1>3, <1>4, <1>5, <1>6, <1>7 DEF AcceptNext

\* Every reachable state of the admission is well typed.
THEOREM AcceptTypeCorrect == AcceptSpec => []AcceptTypeOK
<1>1. ASSUME AcceptInit PROVE AcceptTypeOK
  <2>1. up \in BOOLEAN
    BY <1>1, Zenon DEF AcceptInit
  <2> QED
    BY Zenon, <1>1, <2>1, BlankType DEF AcceptInit, AcceptTypeOK, Steps
<1> QED
  BY <1>1, TypeNext, PTL DEF AcceptSpec

LEMMA AcceptInvNext == AcceptTypeOK /\ AcceptTypeOK' /\ AcceptInv /\ [AcceptNext]_acceptVars => AcceptInv'
<1> SUFFICES ASSUME AcceptTypeOK, AcceptTypeOK', AcceptInv, [AcceptNext]_acceptVars PROVE AcceptInv'
  BY Zenon
<1> USE BrokerAcceptAssumption
<1>a. at \in [Conns -> Steps] /\ task \in [Conns -> Tasks] /\ mem \in State /\ disk \in State /\ clock \in Nat
      /\ begun \subseteq Conns /\ \A t \in Tasks : Expiry[t] \in Nat
  BY Zenon DEF AcceptTypeOK
<1>1. ASSUME NEW c \in Conns, Submit(c) \/ Verify(c) \/ End(c) PROVE AcceptInv'
  <2>1. /\ UNCHANGED <<up, clock, mem, disk, task, begun>>
        /\ Passed' \subseteq Passed
        /\ up \/ at' = at
    BY Zenon, <1>1, <1>a DEF Submit, Verify, End, Passed, AcceptInv
  <2> QED
    BY Zenon, <1>1, <1>a, <2>1 DEF AcceptInv, Spent
<1>2. ASSUME NEW c \in Conns, Enter(c) PROVE AcceptInv'
  <2>1. /\ UNCHANGED <<up, clock, mem, disk, task>> /\ up
        /\ Passed' = Passed
    BY Zenon, <1>2, <1>a DEF Enter, Passed, AcceptInv
  <2> QED
    BY Zenon, <2>1 DEF AcceptInv, Spent
<1>3. ASSUME NEW c \in Conns, NEW out \in Outcomes, Accept(c, out) PROVE AcceptInv'
  <2> DEFINE t == task[c]
  <2>1. t \in Tasks /\ up
    BY Zenon, <1>3, <1>a DEF Accept, AcceptInv
  <2>2. CASE Admissible(t)
    <3>1. /\ mem' = Consume(t) /\ disk' \in {disk, Consume(t)} /\ (out = "ok" => disk' = Consume(t))
          /\ at' = [at EXCEPT ![c] = IF out = "ok" THEN "ready" ELSE "done"]
          /\ UNCHANGED <<up, clock, task, begun>>
      BY Zenon, <1>3, <2>2 DEF Accept, Persist
    <3>2. Consume(t).seen = Live(mem.seen) \cup {t} /\ \A d \in Domains : Consume(t).tokens[d] >= mem.tokens[d]
      BY Zenon, <1>a, <2>1, ConsumeFacts
    <3>3. /\ Passed' = IF out = "ok" THEN Passed \cup {c} ELSE Passed
      BY Zenon, <1>3, <1>a, <3>1 DEF Passed, Accept
    <3>4. \A b \in Passed : Spent(task[b])' /\ task[b] # t
      <4> SUFFICES ASSUME NEW b \in Passed PROVE Spent(task[b])' /\ task[b] # t
        BY Zenon
      <4>1. task[b] \in Tasks /\ Spent(task[b])
        BY Zenon, <1>a DEF AcceptInv, Passed
      <4>2. Expiry[task[b]] <= clock \/ task[b] \in Live(mem.seen)
        BY <1>a, <2>1, <4>1 DEF Spent, Live
      <4>3. task[b] # t
        BY <1>a, <2>1, <2>2, <4>2 DEF Admissible
      <4>4. Spent(task[b])'
        BY Zenon, <2>1, <3>1, <3>2, <4>1, <4>2 DEF Spent
      <4> QED
        BY Zenon, <4>3, <4>4
    <3>5. out = "ok" => Spent(t)'
      BY Zenon, <3>1, <3>2 DEF Spent
    <3>6. \A d \in Domains : mem'.tokens[d] >= disk'.tokens[d]
      <4>1. \A d \in Domains : /\ mem.tokens[d] >= disk.tokens[d]
                               /\ mem.tokens[d] \in Nat /\ disk.tokens[d] \in Nat
                               /\ Consume(t).tokens[d] \in Nat
        BY <1>a, <2>1, ConsumeFacts DEF AcceptInv, State
      <4> QED
        BY <3>1, <3>2, <4>1
    <3> QED
      BY Zenon, <2>1, <3>1, <3>3, <3>4, <3>5, <3>6 DEF AcceptInv
  <2>3. CASE ~Admissible(t)
    <3>1. /\ mem' = [mem EXCEPT !.seen = Live(mem.seen)] /\ UNCHANGED <<disk, up, clock, task, begun>>
          /\ at' = [at EXCEPT ![c] = "done"]
      BY Zenon, <1>3, <2>3 DEF Accept
    <3>2. mem'.seen = Live(mem.seen) /\ mem'.tokens = mem.tokens
      BY Zenon, <1>a, <3>1 DEF State
    <3>3. Passed' \subseteq Passed
      BY Zenon, <1>a, <3>1 DEF Passed
    <3>4. \A b \in Passed : Spent(task[b])'
      <4> SUFFICES ASSUME NEW b \in Passed PROVE Spent(task[b])'
        BY Zenon
      <4>1. task[b] \in Tasks /\ Spent(task[b])
        BY Zenon, <1>a DEF AcceptInv, Passed
      <4> QED
        BY <1>a, <2>1, <3>1, <3>2, <4>1 DEF Spent, Live
    <3> QED
      BY Zenon, <2>1, <3>1, <3>2, <3>3, <3>4 DEF AcceptInv
  <2> QED
    BY Zenon, <2>2, <2>3
<1>4. ASSUME FencePersists PROVE AcceptInv'
  <2>1. up /\ disk' = mem /\ UNCHANGED <<up, clock, mem, at, task, begun>>
    BY Zenon, <1>4 DEF FencePersists
  <2>2. Passed' = Passed
    BY Zenon, <2>1 DEF Passed
  <2>3. \A d \in Domains : mem.tokens[d] >= mem.tokens[d]
    BY <1>a DEF State
  <2> QED
    BY Zenon, <2>1, <2>2, <2>3 DEF AcceptInv, Spent
<1>5. ASSUME Tick PROVE AcceptInv'
  <2>1. clock' = clock + 1 /\ UNCHANGED <<up, mem, disk, at, task, begun>>
    BY Zenon, <1>5 DEF Tick
  <2>2. Passed' = Passed
    BY Zenon, <2>1 DEF Passed
  <2>3. \A c \in Passed : Spent(task[c])'
    <3> SUFFICES ASSUME NEW c \in Passed PROVE Spent(task[c])'
      BY Zenon
    <3>1. Expiry[task[c]] \in Nat /\ Spent(task[c])
      BY Zenon, <1>a DEF AcceptInv, Passed
    <3> QED
      BY <1>a, <2>1, <3>1 DEF Spent
  <2> QED
    BY Zenon, <2>1, <2>2, <2>3 DEF AcceptInv
<1>6. ASSUME Crash PROVE AcceptInv'
  <2>1. up /\ ~up' /\ UNCHANGED <<clock, disk, task, begun>>
        /\ at' = [c \in Conns |-> IF at[c] = "free" THEN "free" ELSE "done"]
    BY Zenon, <1>6 DEF Crash
  <2>2. Passed' \subseteq Passed
    BY Zenon, <1>a, <2>1 DEF Passed
  <2> QED
    BY Zenon, <1>a, <2>1, <2>2 DEF AcceptInv, Spent
<1>7. ASSUME Start PROVE AcceptInv'
  <2>1. ~up /\ mem' = disk /\ UNCHANGED <<clock, disk, at, task, begun>>
    BY Zenon, <1>7 DEF Start
  <2>2. Passed' = Passed
    BY Zenon, <2>1 DEF Passed
  <2>3. \A d \in Domains : disk.tokens[d] >= disk.tokens[d]
    BY <1>a DEF State
  <2>4. up'
    BY Zenon, <1>7 DEF Start
  <2> QED
    BY Zenon, <2>1, <2>2, <2>3, <2>4 DEF AcceptInv, Spent
<1>8. CASE UNCHANGED acceptVars
  BY ZenonT(40), <1>8 DEF acceptVars, AcceptInv, Spent, Passed
<1> QED
  BY Zenon, <1>1, <1>2, <1>3, <1>4, <1>5, <1>6, <1>7, <1>8 DEF AcceptNext

LEMMA AcceptInvariant == AcceptSpec => []AcceptInv
<1>1. AcceptInit => AcceptInv
  BY Zenon DEF AcceptInit, AcceptInv, Passed
<1> QED
  BY <1>1, AcceptInvNext, AcceptTypeCorrect, PTL DEF AcceptSpec

\* acceptFence lets no envelope through twice, whatever the interleaving of
\* connections, the passing of time, failed writes and restarts.
THEOREM ConsumedOnceHolds == AcceptSpec => []ConsumedOnce
<1>1. AcceptInv => ConsumedOnce
  BY Zenon DEF AcceptInv, ConsumedOnce, Passed
<1> QED
  BY <1>1, AcceptInvariant, PTL

\* No step takes a token in the state file down.
LEMMA TokensStep == AcceptTypeOK /\ AcceptTypeOK' /\ AcceptInv /\ [AcceptNext]_acceptVars => \A d \in Domains : disk'.tokens[d] >= disk.tokens[d]
<1> DEFINE A == \A d \in Domains : disk'.tokens[d] >= disk.tokens[d]
<1> SUFFICES ASSUME AcceptTypeOK, AcceptTypeOK', AcceptInv, [AcceptNext]_acceptVars PROVE A
  BY Zenon
<1>a. \A d \in Domains : mem.tokens[d] \in Nat /\ disk.tokens[d] \in Nat /\ disk'.tokens[d] \in Nat
  BY Zenon DEF AcceptTypeOK, State
<1>1. CASE disk' = disk
  BY <1>a, <1>1
<1>2. CASE FencePersists
  BY Zenon, <1>a, <1>2 DEF FencePersists, AcceptInv
<1>3. ASSUME NEW c \in Conns, NEW out \in Outcomes, Accept(c, out), disk' # disk PROVE A
  <2>1. disk' = Consume(task[c]) /\ task[c] \in Tasks /\ up
    BY Zenon, <1>3 DEF Accept, Persist, AcceptTypeOK, AcceptInv
  <2>2. mem \in State
    BY Zenon DEF AcceptTypeOK
  <2>3. \A d \in Domains : disk'.tokens[d] >= mem.tokens[d] /\ mem.tokens[d] >= disk.tokens[d]
    BY Zenon, <2>1, <2>2, ConsumeFacts DEF AcceptInv
  <2> QED
    BY <1>a, <2>3
<1> QED
  BY Zenon, <1>1, <1>2, <1>3 DEF AcceptNext, Submit, Verify, Enter, End, Tick, Crash, Start, acceptVars

\* The tokens in the state file only rise, across failed writes and restarts.
THEOREM TokensRiseHolds == AcceptSpec => TokensRise
<1> DEFINE A == \A d \in Domains : disk'.tokens[d] >= disk.tokens[d]
<1>1. AcceptTypeOK /\ AcceptTypeOK' /\ AcceptInv /\ [AcceptNext]_acceptVars => [A]_acceptVars
  BY Zenon, TokensStep
<1> QED
  BY <1>1, AcceptTypeCorrect, AcceptInvariant, PTL DEF AcceptSpec, TokensRise

\* Every token that a primitive has begun with, or may begin with, is in the state file.
DurableInv ==
  /\ \A d \in Domains : highest[d] <= disk.tokens[d]
  /\ \A c \in Conns : at[c] \in {"ready", "busy"} => Token[task[c]] <= disk.tokens[Domain[task[c]]]

LEMMA DurableNext == AcceptTypeOK /\ AcceptTypeOK' /\ AcceptInv /\ DurableInv /\ [AcceptNext]_acceptVars => DurableInv'
<1> SUFFICES ASSUME AcceptTypeOK, AcceptTypeOK', AcceptInv, DurableInv, [AcceptNext]_acceptVars PROVE DurableInv'
  BY Zenon
<1> USE BrokerAcceptAssumption
<1>a. /\ at \in [Conns -> Steps] /\ task \in [Conns -> Tasks] /\ mem \in State
      /\ \A d \in Domains : highest[d] \in Nat /\ disk.tokens[d] \in Nat /\ disk'.tokens[d] \in Nat
      /\ highest \in [Domains -> Nat]
  BY Zenon DEF AcceptTypeOK, State
<1>b. \A c \in Conns : task[c] \in Tasks /\ Domain[task[c]] \in Domains /\ Token[task[c]] \in Nat
  BY Zenon, <1>a
<1>c. \A d \in Domains : disk'.tokens[d] >= disk.tokens[d]
  BY Zenon, TokensStep
\* A step that lets no connection through and begins nothing.
<1>d. ASSUME highest' = highest, task' = task, \A c \in Conns : at'[c] \in {"ready", "busy"} => at[c] \in {"ready", "busy"}
      PROVE  DurableInv'
  BY <1>a, <1>b, <1>c, <1>d DEF DurableInv
<1>1. ASSUME NEW c \in Conns, Submit(c) \/ Verify(c) \/ End(c) PROVE DurableInv'
  <2>1. highest' = highest /\ task' = task /\ \A b \in Conns : at'[b] \in {"ready", "busy"} => at[b] \in {"ready", "busy"}
    BY Zenon, <1>1, <1>a DEF Submit, Verify, End
  <2> QED
    BY Zenon, <1>d, <2>1
<1>2. ASSUME NEW c \in Conns, Enter(c) PROVE DurableInv'
  <2> DEFINE d == Domain[task[c]]
             high == IF highest[d] < Token[task[c]] THEN Token[task[c]] ELSE highest[d]
  <2>1. high <= disk.tokens[d]
    BY Zenon, <1>2, <1>a, <1>b DEF Enter, DurableInv
  <2>2. highest' = [highest EXCEPT ![d] = high] /\ task' = task /\ disk' = disk /\ at' = [at EXCEPT ![c] = "busy"] /\ at[c] = "ready"
    BY Zenon, <1>2 DEF Enter
  <2> HIDE DEF d, high
  <2>3. \A e \in Domains : highest'[e] <= disk'.tokens[e]
    BY Zenon, <1>a, <2>1, <2>2 DEF DurableInv
  <2>4. \A b \in Conns : at'[b] \in {"ready", "busy"} => at[b] \in {"ready", "busy"}
    BY Zenon, <1>a, <2>2
  <2> QED
    BY Zenon, <1>b, <2>2, <2>3, <2>4 DEF DurableInv
<1>3. ASSUME NEW c \in Conns, NEW out \in Outcomes, Accept(c, out) PROVE DurableInv'
  <2>1. highest' = highest /\ task' = task
    BY Zenon, <1>3 DEF Accept
  <2>2. CASE Admissible(task[c]) /\ out = "ok"
    <3>1. disk' = Consume(task[c]) /\ at' = [at EXCEPT ![c] = "ready"]
      BY Zenon, <1>3, <2>2 DEF Accept, Persist
    <3>2. disk'.tokens[Domain[task[c]]] >= Token[task[c]]
      BY Zenon, <1>a, <1>b, <3>1, ConsumeFacts
    <3>3. \A b \in Conns : b # c => at'[b] = at[b]
      BY Zenon, <1>a, <3>1
    <3> QED
      BY <1>a, <1>b, <1>c, <2>1, <3>2, <3>3 DEF DurableInv
  <2>3. CASE ~(Admissible(task[c]) /\ out = "ok")
    <3>1. at' = [at EXCEPT ![c] = "done"]
      BY Zenon, <1>3, <2>3 DEF Accept
    <3>2. \A b \in Conns : at'[b] \in {"ready", "busy"} => at[b] \in {"ready", "busy"}
      BY Zenon, <1>a, <3>1
    <3> QED
      BY Zenon, <1>d, <2>1, <3>2
  <2> QED
    BY Zenon, <2>2, <2>3
<1>4. ASSUME FencePersists \/ Tick \/ Start PROVE DurableInv'
  <2>1. highest' = highest /\ task' = task /\ at' = at
    BY Zenon, <1>4 DEF FencePersists, Tick, Start
  <2> QED
    BY Zenon, <1>d, <2>1
<1>5. ASSUME Crash PROVE DurableInv'
  <2>1. highest' = highest /\ task' = task /\ \A b \in Conns : at'[b] \in {"free", "done"}
    BY Zenon, <1>5 DEF Crash
  <2> QED
    BY Zenon, <1>d, <2>1
<1>6. CASE UNCHANGED acceptVars
  BY Zenon, <1>6, <1>d DEF acceptVars
<1> QED
  BY Zenon, <1>1, <1>2, <1>3, <1>4, <1>5, <1>6 DEF AcceptNext

\* acceptFence admits no request below a token that has been in use, across failed writes and restarts.
THEOREM AdmittedAboveBegunHolds == AcceptSpec => AdmittedAboveBegun
<1> DEFINE A == \A c \in Conns : at[c] = "accept" /\ at'[c] = "ready" => highest[Domain[task[c]]] <= Token[task[c]]
<1>1. AcceptInit /\ AcceptTypeOK => DurableInv
  BY SMTT(30), BrokerAcceptAssumption DEF AcceptInit, AcceptTypeOK, DurableInv, Blank
<1>2. AcceptTypeOK /\ AcceptInv /\ DurableInv /\ [AcceptNext]_acceptVars => A
  <2> SUFFICES ASSUME AcceptTypeOK, AcceptInv, DurableInv, [AcceptNext]_acceptVars,
                      NEW c \in Conns, at[c] = "accept", at'[c] = "ready"
               PROVE  highest[Domain[task[c]]] <= Token[task[c]]
    BY Zenon
  <2> USE BrokerAcceptAssumption
  <2>a. /\ at \in [Conns -> Steps] /\ task[c] \in Tasks /\ Domain[task[c]] \in Domains /\ Token[task[c]] \in Nat
        /\ \A d \in Domains : highest[d] \in Nat /\ disk.tokens[d] \in Nat /\ mem.tokens[d] \in Nat
    BY Zenon DEF AcceptTypeOK, State
  <2>1. PICK b \in Conns, out \in Outcomes : Accept(b, out) /\ at'[b] = "ready" /\ b = c
    <3>1. ASSUME NEW b \in Conns, Submit(b) \/ Verify(b) \/ Enter(b) \/ End(b) PROVE FALSE
      BY Zenon, <2>a, <3>1 DEF Submit, Verify, Enter, End
    <3>2. ASSUME FencePersists \/ Tick \/ Crash \/ Start \/ UNCHANGED acceptVars PROVE FALSE
      BY Zenon, <2>a, <3>2 DEF FencePersists, Tick, Crash, Start, acceptVars
    <3>3. ASSUME NEW b \in Conns, NEW out \in Outcomes, Accept(b, out), b # c PROVE FALSE
      BY Zenon, <2>a, <3>3 DEF Accept
    <3> QED
      BY Zenon, <3>1, <3>2, <3>3 DEF AcceptNext
  <2>2. Admissible(task[c]) /\ up
    BY Zenon, <2>a, <2>1 DEF Accept, AcceptInv
  <2> QED
    BY <2>a, <2>2 DEF Admissible, AcceptInv, DurableInv
<1>3. AcceptTypeOK /\ AcceptInv /\ DurableInv /\ [AcceptNext]_acceptVars => [A]_acceptVars
  BY Zenon, <1>2
<1> QED
  BY <1>1, <1>3, DurableNext, AcceptTypeCorrect, AcceptInvariant, PTL DEF AcceptSpec, AdmittedAboveBegun


-----------------------------------------------------------------------------
(* Part 2: the Compose runtime.  A staged secret always has its clean-up   *)
(* marker, and containers always have a snapshot to stop them by.          *)

\* the records the actions update, without the facts that relate them
Types ==
  /\ marker \in BOOLEAN /\ stagingDir \in BOOLEAN /\ overlapped \in BOOLEAN
  /\ want \in Kinds \cup {None}
  /\ agent \in Agent /\ snap \in Snapshot /\ project \in Project /\ req \in [Slots -> Req]

\* the marker is there before the directory is
MarkerInv == (stagingDir => marker) /\ (agent.pc = "mkdir" => marker)

\* the steps of a request at which the project has no containers, and those at which it has a snapshot
Bare == {"copy", "publish", "absent"} \cup Removing
Held == {"absent", "up", "wait", "down", "proof", "stop"}

\* with one request at work, its steps say what there is of the project and of the snapshot
SnapshotInv ==
  ~overlapped =>
    /\ \A i, j \in Slots : req[i].pc # "free" /\ req[j].pc # "free" => i = j
    /\ project.containers # "none" => Loadable
    /\ \A i \in Slots : req[i].pc \in Bare => project.containers = "none"
    /\ \A i \in Slots : req[i].pc \in Held => Loadable

IInv == Types /\ staged \in [Secrets -> Contents] /\ MarkerInv /\ SnapshotInv

-----------------------------------------------------------------------------
(* What the common steps do *)

\* an agent record keeps its type when its step changes
LEMMA AgentRecords ==
  /\ NoAgent \in Agent /\ NoAgent.pc = "idle"
  /\ \A a \in Agent, p \in AgentPCs : [a EXCEPT !.pc = p] \in Agent /\ [a EXCEPT !.pc = p].pc = p
<1>1. NoAgent \in Agent /\ NoAgent.pc = "idle"
  BY Zenon DEF NoAgent, Agent, AgentPCs
<1>2. \A a \in Agent, p \in AgentPCs : [a EXCEPT !.pc = p] \in Agent /\ [a EXCEPT !.pc = p].pc = p
  BY Zenon DEF Agent
<1> QED BY Zenon, <1>1, <1>2

\* Goto changes the step of the agent
LEMMA GotoEffect ==
  ASSUME Types, NEW next \in AgentPCs, Goto(next)
  PROVE  agent' \in Agent /\ agent'.pc = next
  BY Zenon, AgentRecords DEF Types, Goto

\* an answer changes the agent only if it awaits it, and never to where the staging directory is made
LEMMA AfterAnswerEffect ==
  ASSUME Types, NEW res \in {"ok", "rejected", "partial", "lost"}, AfterAnswer(res)
  PROVE  agent' \in Agent /\ agent'.pc \in {"clean", "idle"} /\ want' \in Kinds \cup {None}
<1>1. CASE agent.kind = "start"
  BY Zenon, <1>1 DEF Types, AfterAnswer, Agent, AgentPCs
<1>2. CASE agent.kind # "start"
  BY Zenon, <1>2, AgentRecords DEF Types, AfterAnswer, Finish
<1> QED BY Zenon, <1>1, <1>2

\* a request that is answered is free, and the others are as they were
LEMMA ReplyEffect ==
  ASSUME Types, NEW i \in Slots, NEW res \in {"ok", "rejected", "partial", "lost"}, Reply(i, res)
  PROVE  /\ agent' \in Agent /\ (agent' = agent \/ agent'.pc \in {"clean", "idle"}) /\ want' \in Kinds \cup {None}
         /\ req' \in [Slots -> Req] /\ req'[i].pc = "free" /\ \A j \in Slots \ {i} : req'[j] = req[j]
<1>1. NoReq \in Req
  BY Zenon DEF NoReq, Req, ReqPCs, Kinds, Gone, Contents
<1>2. req' \in [Slots -> Req] /\ req'[i].pc = "free" /\ \A j \in Slots \ {i} : req'[j] = req[j]
  BY Zenon, <1>1 DEF Types, Reply, NoReq
<1>3. CASE agent.pc = "await" /\ agent.slot = i
  BY Zenon, <1>2, <1>3, AfterAnswerEffect DEF Reply
<1>4. CASE ~(agent.pc = "await" /\ agent.slot = i)
  BY Zenon, <1>2, <1>4 DEF Reply, Types
<1> QED BY Zenon, <1>3, <1>4

\* a request that goes on leaves the agent and the others as they were
LEMMA ToPCEffect ==
  ASSUME Types, NEW i \in Slots, NEW next \in ReqPCs, ToPC(i, next)
  PROVE  /\ agent' = agent /\ want' = want
         /\ req' \in [Slots -> Req] /\ req'[i].pc = next /\ \A j \in Slots \ {i} : req'[j] = req[j]
  BY ZenonT(40) DEF Types, ToPC, Req

\* a step of one request keeps SnapshotInv if it keeps its facts about that request
LEMMA RequestStep ==
  ASSUME SnapshotInv, NEW i \in Slots, req[i].pc # "free", overlapped' = overlapped,
         \A j \in Slots \ {i} : req'[j] = req[j],
         ~overlapped => /\ project'.containers # "none" => Loadable'
                        /\ req'[i].pc \in Bare => project'.containers = "none"
                        /\ req'[i].pc \in Held => Loadable'
  PROVE  SnapshotInv'
<1> SUFFICES ASSUME ~overlapped PROVE SnapshotInv'
  BY Zenon DEF SnapshotInv
<1>1. \A j \in Slots \ {i} : req'[j].pc = "free"
  BY Zenon DEF SnapshotInv
<1>2. "free" \notin Bare \cup Held
  BY Zenon DEF Bare, Held, Removing
<1> QED BY Zenon, <1>1, <1>2 DEF SnapshotInv

\* MarkerInv speaks of the staging area and of one step of the agent
LEMMA BrokerKeepsMarker ==
  ASSUME MarkerInv, UNCHANGED staging, agent' = agent \/ agent'.pc \in {"clean", "idle", "boot"}
  PROVE  MarkerInv'
  BY Zenon DEF MarkerInv, staging

-----------------------------------------------------------------------------
(* The invariant holds at first and is kept *)

\* nothing is staged, requested or started at first
LEMMA InitIInv == Init => IInv
<1> SUFFICES ASSUME Init PROVE IInv
  BY Zenon
<1>1. Types
  BY Zenon DEF Init, Types, NoAgent, Agent, AgentPCs, NoSnap, Snapshot, NoProject, Project, NoReq, Req, ReqPCs, Kinds, Gone, Contents
<1>2. MarkerInv
  BY Zenon DEF Init, MarkerInv, NoAgent
<1>3. \A i \in Slots : req[i].pc = "free"
  BY Zenon DEF Init, NoReq
<1>4. SnapshotInv
  BY Zenon, <1>3 DEF Init, SnapshotInv, NoProject, Bare, Held, Removing
<1> QED BY Zenon, <1>1, <1>2, <1>4 DEF IInv, Init, Gone, Contents

\* the agent's own steps leave the broker alone, and the marker precedes the directory
LEMMA AgentIInv ==
  ASSUME IInv, Begin \/ Staged \/ RemoveDirectory \/ Cleaned \/ CleaningFails \/ GiveUp \/ AgentCrash
               \/ (\E s \in Secrets : Wipe(s) \/ \E ok \in BOOLEAN : Stage(s, ok))
               \/ (\E ok \in BOOLEAN : Render(ok) \/ Mark(ok) \/ MakeDirectory(ok))
  PROVE  IInv'
<1> USE DEF IInv
<1>a. staged' \in [Secrets -> Contents]
  <2>1. CASE \E s \in Secrets : Wipe(s) \/ \E ok \in BOOLEAN : Stage(s, ok)
    BY Zenon, <2>1 DEF Wipe, Wiped, Stage, Contents
  <2>2. CASE AgentCrash
    BY Zenon, <2>2 DEF AgentCrash, Gone, Contents
  <2>3. CASE UNCHANGED staged
    BY ZenonT(40), <2>3
  <2> QED BY Zenon, <2>1, <2>2, <2>3 DEF Begin, Staged, RemoveDirectory, Cleaned, CleaningFails, GiveUp, Render, Mark, MakeDirectory, staging
<1>0. SUFFICES Types' /\ MarkerInv' /\ UNCHANGED Brokers
  BY <1>0, <1>a DEF Brokers, SnapshotInv, Loadable
<1>1. CASE Begin
  <2>1. agent' \in Agent /\ agent'.pc \in {"render", "recover", "send"}
    BY ZenonT(40), <1>1 DEF Begin, Types, NoAgent, Agent, AgentPCs, Kinds
  <2> QED BY Zenon, <1>1, <2>1 DEF Begin, Types, MarkerInv, Brokers, staging
<1>2. CASE Staged
  BY Zenon, <1>2 DEF Staged, Goto, Types, MarkerInv, Agent, AgentPCs, Brokers, staging
<1>3. CASE RemoveDirectory
  BY Zenon, <1>3 DEF RemoveDirectory, Types, MarkerInv, Brokers
<1>4. CASE Cleaned
  <2>1. agent' \in Agent /\ agent'.pc \in {"idle", "mark"} /\ want' \in Kinds \cup {None}
    <3>1. CASE agent.pc = "boot"
      BY Zenon, <1>4, <3>1, AgentRecords DEF Cleaned, Types
    <3>2. CASE agent.pc = "recover"
      <4>1. Goto("mark") /\ UNCHANGED want
        BY Zenon, <1>4, <3>2 DEF Cleaned
      <4>2. "mark" \in AgentPCs
        BY Zenon DEF AgentPCs
      <4> QED BY Zenon, <4>1, <4>2, GotoEffect DEF Types
    <3>3. CASE agent.pc = "clean"
      BY Zenon, <1>4, <3>3, AgentRecords DEF Cleaned, Finish, Types
    <3> QED BY Zenon, <1>4, <3>1, <3>2, <3>3 DEF Cleaned, ClearMarker, Wiping
  <2> QED BY Zenon, <1>4, <2>1 DEF Cleaned, ClearMarker, Types, MarkerInv, Brokers
<1>5. CASE CleaningFails
  <2>1. agent' \in Agent /\ agent'.pc \in {"idle", "boot"} /\ UNCHANGED <<want, stagingDir, Brokers>>
    <3>1. CASE agent.pc = "boot"
      BY Zenon, <1>5, <3>1 DEF CleaningFails, Types
    <3>2. CASE agent.pc # "boot"
      BY Zenon, <1>5, <3>2, AgentRecords DEF CleaningFails, Failed, Finish
    <3> QED BY Zenon, <3>1, <3>2
  <2>2. marker' = marker \/ (marker' = FALSE /\ ~stagingDir)
    BY Zenon, <1>5 DEF CleaningFails, ClearMarker
  <2>3. marker' \in BOOLEAN
    BY Zenon, <2>2 DEF Types
  <2> QED BY Zenon, <2>1, <2>2, <2>3 DEF Types, MarkerInv, Brokers
<1>6. CASE GiveUp
  <2>1. agent' \in Agent /\ agent'.pc \in {"clean", "idle"} /\ want' \in Kinds \cup {None}
    BY Zenon, <1>6, AfterAnswerEffect DEF GiveUp
  <2> QED BY Zenon, <1>6, <2>1 DEF GiveUp, Types, MarkerInv, Brokers, staging
<1>7. CASE AgentCrash
  <2>1. agent' \in Agent /\ agent'.pc = "boot"
    BY Zenon, <1>7, AgentRecords DEF AgentCrash, AgentPCs
  <2>2. UNCHANGED <<marker, want, Brokers>> /\ (stagingDir' = stagingDir \/ stagingDir' = FALSE)
    BY Zenon, <1>7 DEF AgentCrash
  <2>3. MarkerInv'
    BY <2>1, <2>2 DEF MarkerInv
  <2>4. stagingDir' \in BOOLEAN
    BY Zenon, <2>2 DEF Types
  <2>5. Types'
    BY Zenon, <2>1, <2>2, <2>4 DEF Types, Brokers
  <2> QED BY Zenon, <2>2, <2>3, <2>5
<1>8. CASE \E s \in Secrets : Wipe(s)
  BY <1>8 DEF Wipe, Types, MarkerInv, Brokers
<1>9. CASE \E s \in Secrets, ok \in BOOLEAN : Stage(s, ok)
  BY <1>9 DEF Stage, Goto, Types, MarkerInv, Agent, AgentPCs, Brokers
<1>10. CASE \E ok \in BOOLEAN : Render(ok)
  BY SMTT(30), <1>10, AgentRecords DEF Render, Finish, Types, MarkerInv, Brokers, staging
<1>11. CASE \E ok \in BOOLEAN : Mark(ok)
  <2> PICK ok \in BOOLEAN : Mark(ok)
    BY Zenon, <1>11
  <2>1. CASE ok
    <3>1. agent' \in Agent /\ agent'.pc = "mkdir" /\ marker' = TRUE /\ UNCHANGED <<want, stagingDir, Brokers>>
      <4>1. "mkdir" \in AgentPCs /\ Goto("mkdir")
        BY Zenon, <2>1 DEF Mark, AgentPCs
      <4>2. agent' \in Agent /\ agent'.pc = "mkdir"
        BY Zenon, <4>1, GotoEffect
      <4> QED BY Zenon, <2>1, <4>2 DEF Mark, Types
    <3> QED BY Zenon, <3>1 DEF Types, MarkerInv, Brokers
  <2>2. CASE ~ok
    <3>1. agent' \in Agent /\ agent'.pc = "idle" /\ UNCHANGED <<want, stagingDir, Brokers>>
      BY Zenon, <2>2, AgentRecords DEF Mark, Failed, Finish, Types
    <3>2. marker' = marker \/ marker' = TRUE
      BY Zenon, <2>2 DEF Mark
    <3>3. marker' \in BOOLEAN
      BY Zenon, <3>2 DEF Types
    <3> QED BY Zenon, <3>1, <3>2, <3>3 DEF Types, MarkerInv, Brokers
  <2> QED BY Zenon, <2>1, <2>2
<1>12. CASE \E ok \in BOOLEAN : MakeDirectory(ok)
  <2> PICK ok \in BOOLEAN : MakeDirectory(ok)
    BY Zenon, <1>12
  <2>1. CASE ok /\ ~stagingDir
    <3>1. agent' \in Agent /\ agent'.pc = "stage" /\ stagingDir' = TRUE /\ UNCHANGED <<want, marker, Brokers>>
      <4>1. "stage" \in AgentPCs /\ Goto("stage")
        BY Zenon, <2>1 DEF MakeDirectory, AgentPCs
      <4>2. agent' \in Agent /\ agent'.pc = "stage"
        BY Zenon, <4>1, GotoEffect
      <4> QED BY Zenon, <2>1, <4>2 DEF MakeDirectory, Types
    <3>2. marker
      BY Zenon DEF MakeDirectory, MarkerInv
    <3> QED BY Zenon, <3>1, <3>2 DEF Types, MarkerInv, Brokers
  <2>2. CASE ~(ok /\ ~stagingDir)
    BY Zenon, <2>2, AgentRecords DEF MakeDirectory, Failed, Finish, Types, MarkerInv, Brokers
  <2> QED BY Zenon, <2>1, <2>2
<1> QED BY Zenon, <1>1, <1>2, <1>3, <1>4, <1>5, <1>6, <1>7, <1>8, <1>9, <1>10, <1>11, <1>12

\* a step of one request keeps the invariant if what it does to the snapshot and the project fits its next step
LEMMA BrokerIInv ==
  ASSUME IInv, NEW i \in Slots, req[i].pc # "free", UNCHANGED <<Agents, overlapped>>,
         snap' \in Snapshot, project' \in Project, agent' \in Agent, want' \in Kinds \cup {None},
         agent' = agent \/ agent'.pc \in {"clean", "idle"},
         req' \in [Slots -> Req], \A j \in Slots \ {i} : req'[j] = req[j],
         ~overlapped => /\ project'.containers # "none" => Loadable'
                        /\ req'[i].pc \in Bare => project'.containers = "none"
                        /\ req'[i].pc \in Held => Loadable'
  PROVE  IInv'
<1>1. Types'
  BY Zenon DEF IInv, Types, Agents, staging
<1>2. MarkerInv'
  BY ZenonT(40), BrokerKeepsMarker DEF IInv, Agents
<1>3. SnapshotInv'
  BY ZenonT(40), RequestStep DEF IInv
<1> QED BY Zenon, <1>1, <1>2, <1>3 DEF IInv, Agents, staging

\* a step that answers a request
LEMMA ReplyIInv ==
  ASSUME IInv, NEW i \in Slots, req[i].pc # "free", UNCHANGED <<Agents, overlapped>>,
         snap' \in Snapshot, project' \in Project,
         NEW res \in {"ok", "rejected", "partial", "lost"}, Reply(i, res),
         ~overlapped => (project'.containers # "none" => Loadable')
  PROVE  IInv'
<1>1. /\ agent' \in Agent /\ (agent' = agent \/ agent'.pc \in {"clean", "idle"}) /\ want' \in Kinds \cup {None}
      /\ req' \in [Slots -> Req] /\ req'[i].pc = "free" /\ \A j \in Slots \ {i} : req'[j] = req[j]
  BY Zenon, ReplyEffect DEF IInv
<1>2. req'[i].pc \notin Bare /\ req'[i].pc \notin Held
  BY Zenon, <1>1 DEF Bare, Held, Removing
<1> QED BY ZenonT(40), <1>1, <1>2, BrokerIInv

\* a step after which a request goes on
LEMMA ToPCIInv ==
  ASSUME IInv, NEW i \in Slots, req[i].pc # "free", UNCHANGED <<Agents, overlapped>>,
         snap' \in Snapshot, project' \in Project, NEW next \in ReqPCs, ToPC(i, next),
         ~overlapped => /\ project'.containers # "none" => Loadable'
                        /\ next \in Bare => project'.containers = "none"
                        /\ next \in Held => Loadable'
  PROVE  IInv'
<1>1. /\ agent' = agent /\ want' = want
      /\ req' \in [Slots -> Req] /\ req'[i].pc = next /\ \A j \in Slots \ {i} : req'[j] = req[j]
  BY Zenon, ToPCEffect DEF IInv
<1>2. agent' \in Agent /\ want' \in Kinds \cup {None}
  BY Zenon, <1>1 DEF IInv, Types
<1> QED BY ZenonT(40), <1>1, <1>2, BrokerIInv

\* the steps of a request
LEMMA RequestIInv ==
  ASSUME IInv, NEW i \in Slots, BrokerStep(i)
  PROVE  IInv'
<1> USE DEF ReqPCs, Removing, Bare, Held
<1>0. /\ snap \in Snapshot /\ project \in Project
      /\ ~overlapped => /\ project.containers # "none" => Loadable
                        /\ req[i].pc \in Bare => project.containers = "none"
                        /\ req[i].pc \in Held => Loadable
  BY Zenon DEF IInv, Types, SnapshotInv
<1>a. UNCHANGED snap => (Loadable' <=> Loadable)
  BY Zenon DEF Loadable
<1>1. CASE ReadPolicy(i)
  <2>1. CASE rendered /\ staged = Real
    BY ZenonT(40), <1>0, <1>a, <1>1, <2>1, ToPCIInv DEF ReadPolicy
  <2>2. CASE ~(rendered /\ staged = Real)
    BY Zenon, <1>0, <1>a, <1>1, <2>2, ReplyIInv DEF ReadPolicy
  <2> QED BY Zenon, <2>1, <2>2
<1>2. CASE Probe(i)
  <2>1. CASE snap.dir
    BY Zenon, <1>0, <1>a, <1>2, <2>1, ReplyIInv DEF Probe
  <2>2. CASE ~snap.dir
    <3>1. ~overlapped => project.containers = "none"
      BY Zenon, <1>0, <2>2 DEF Loadable
    <3> QED BY Zenon, <1>0, <1>a, <1>2, <2>2, <3>1, ToPCIInv DEF Probe
  <2> QED BY ZenonT(40), <2>1, <2>2
<1>3. CASE \E s \in Secrets : CopySecret(i, s)
  <2> PICK s \in Secrets : CopySecret(i, s)
    BY Zenon, <1>3
  <2>1. CASE staged[s] = "none"
    BY Zenon, <1>0, <1>a, <2>1, ReplyIInv DEF CopySecret
  <2>2. CASE staged[s] # "none"
    <3>1. /\ req' = [req EXCEPT ![i].got[s] = staged[s]] /\ agent' = agent /\ want' = want
          /\ UNCHANGED <<Agents, snap, project, overlapped>> /\ req[i].pc = "copy"
      BY Zenon, <2>2 DEF CopySecret
    <3>2. staged[s] \in Contents
      BY Zenon DEF IInv
    <3>3. /\ req' \in [Slots -> Req] /\ req'[i].pc = req[i].pc /\ \A j \in Slots \ {i} : req'[j] = req[j]
      BY ZenonT(40), <3>1, <3>2 DEF IInv, Types, Req
    <3>4. agent' \in Agent /\ want' \in Kinds \cup {None}
      BY Zenon, <3>1 DEF IInv, Types
    <3> QED BY Zenon, <1>0, <1>a, <3>1, <3>3, <3>4, BrokerIInv
  <2> QED BY Zenon, <2>1, <2>2
<1>4. CASE Copied(i)
  BY Zenon, <1>0, <1>a, <1>4, ToPCIInv DEF Copied
<1>5. CASE Load(i)
  <2>1. CASE Loadable
    BY Zenon, <1>0, <1>a, <1>5, <2>1, ToPCIInv DEF Load
  <2>2. CASE ~Loadable
    BY Zenon, <1>0, <1>a, <1>5, <2>2, ReplyIInv DEF Load
  <2> QED BY Zenon, <2>1, <2>2
<1>6. CASE Remove(i)
  <2>1. CASE req[i].pc = "r_secrets" /\ snap.secrets # Gone
    <3> PICK s \in Secrets : snap' = [snap EXCEPT !.secrets[s] = Wiped(@)]
      BY Zenon, <1>6, <2>1 DEF Remove, RemoveSecret
    <3>1. snap' \in Snapshot
      BY Zenon, <1>0 DEF Snapshot, Contents, Wiped
    <3>2. UNCHANGED <<req, agent, want, Agents, project, overlapped>>
      BY Zenon, <1>6, <2>1 DEF Remove
    <3>3. agent \in Agent /\ want \in Kinds \cup {None} /\ req \in [Slots -> Req]
      BY Zenon DEF IInv, Types
    <3> QED BY Zenon, <1>0, <2>1, <3>1, <3>2, <3>3, BrokerIInv
  <2>2. CASE req[i].pc = "r_secrets" /\ snap.secrets = Gone
    <3>1. UNCHANGED <<snap, Agents, project, overlapped>> /\ ToPC(i, "r_yaml")
      BY Zenon, <1>6, <2>2 DEF Remove
    <3> QED BY Zenon, <1>0, <1>a, <2>2, <3>1, ToPCIInv
  <2>3. CASE req[i].pc = "r_yaml"
    <3>1. snap' = [snap EXCEPT !.yaml = FALSE] /\ UNCHANGED <<Agents, project, overlapped>> /\ ToPC(i, "r_meta")
      BY Zenon, <1>6, <2>3 DEF Remove
    <3>2. snap' \in Snapshot
      BY Zenon, <1>0, <3>1 DEF Snapshot
    <3> QED BY Zenon, <1>0, <2>3, <3>1, <3>2, ToPCIInv
  <2>4. CASE req[i].pc = "r_meta"
    <3>1. snap' = [snap EXCEPT !.meta = FALSE] /\ UNCHANGED <<Agents, project, overlapped>> /\ ToPC(i, "r_dir")
      BY Zenon, <1>6, <2>4 DEF Remove
    <3>2. snap' \in Snapshot
      BY Zenon, <1>0, <3>1 DEF Snapshot
    <3> QED BY Zenon, <1>0, <2>4, <3>1, <3>2, ToPCIInv
  <2>5. CASE req[i].pc = "r_dir" /\ NothingIn
    <3>1. snap' = NoSnap /\ UNCHANGED <<Agents, project, overlapped>> /\ Removed(i)
      BY Zenon, <1>6, <2>5 DEF Remove
    <3>2. snap' \in Snapshot
      BY Zenon, <3>1 DEF Snapshot, NoSnap, Gone, Contents
    <3> QED BY Zenon, <1>0, <2>5, <3>1, <3>2, ReplyIInv DEF Removed
  <2>6. CASE req[i].pc = "r_dir" /\ ~NothingIn
    <3>1. UNCHANGED <<snap, Agents, project, overlapped>> /\ Reply(i, "rejected")
      BY Zenon, <1>6, <2>6 DEF Remove
    <3> QED BY Zenon, <1>0, <1>a, <2>6, <3>1, ReplyIInv
  <2> QED BY Zenon, <1>6, <2>1, <2>2, <2>3, <2>4, <2>5, <2>6 DEF Remove
<1>7. CASE RemoveFails(i)
  BY Zenon, <1>0, <1>a, <1>7, ReplyIInv DEF RemoveFails
<1>8. CASE \E ok \in BOOLEAN : Publish(i, ok)
  <2> PICK ok \in BOOLEAN : Publish(i, ok)
    BY Zenon, <1>8
  <2>1. CASE ok /\ NothingIn
    <3>1. /\ snap' = [dir |-> TRUE, yaml |-> TRUE, meta |-> TRUE, secrets |-> req[i].got]
          /\ UNCHANGED <<Agents, project, overlapped>> /\ ToPC(i, "absent") /\ req[i].pc = "publish"
      BY Zenon, <2>1 DEF Publish
    <3>2. req[i].got \in [Secrets -> Contents]
      BY Zenon DEF IInv, Types, Req
    <3>3. snap' \in Snapshot /\ Loadable'
      BY Zenon, <3>1, <3>2 DEF Snapshot, Loadable
    <3> QED BY ZenonT(40), <1>0, <3>1, <3>3, ToPCIInv
  <2>2. CASE ~(ok /\ NothingIn)
    BY Zenon, <1>0, <1>a, <2>2, ReplyIInv DEF Publish
  <2> QED BY Zenon, <2>1, <2>2
<1>9. CASE \E ok \in BOOLEAN : Absent(i, ok)
  <2> PICK ok \in BOOLEAN : Absent(i, ok)
    BY Zenon, <1>9
  <2>1. PICK next \in {"up", "r_secrets"} : ToPC(i, next)
    BY Zenon DEF Absent
  <2> QED BY Zenon, <1>0, <1>a, <2>1, ToPCIInv DEF Absent
<1>10. CASE \E ok \in BOOLEAN : Up(i, ok)
  <2> PICK ok \in BOOLEAN : Up(i, ok)
    BY Zenon, <1>10
  <2>1. CASE ok /\ snap.yaml
    <3>1. project' = [containers |-> "part", volumes |-> TRUE] /\ UNCHANGED <<Agents, snap, overlapped>> /\ ToPC(i, "wait") /\ req[i].pc = "up"
      BY Zenon, <2>1 DEF Up
    <3>2. project' \in Project
      BY Zenon, <3>1 DEF Project
    <3> QED BY Zenon, <1>0, <1>a, <3>1, <3>2, ToPCIInv
  <2>2. CASE ~(ok /\ snap.yaml)
    BY Zenon, <1>0, <1>a, <2>2, ToPCIInv DEF Up
  <2> QED BY Zenon, <2>1, <2>2
<1>11. CASE \E ok \in BOOLEAN : Down(i, ok)
  <2> PICK ok \in BOOLEAN : Down(i, ok)
    BY Zenon, <1>11
  <2>1. CASE ok /\ snap.yaml
    <3>1. project' = NoProject /\ UNCHANGED <<Agents, snap, overlapped>> /\ ToPC(i, "proof") /\ req[i].pc = "down"
      BY Zenon, <2>1 DEF Down, AfterDown
    <3>2. NoProject \in Project /\ NoProject.containers = "none"
      BY Zenon DEF Project, NoProject
    <3> QED BY Zenon, <1>0, <1>a, <3>1, <3>2, ToPCIInv
  <2>2. CASE ~(ok /\ snap.yaml)
    BY Zenon, <1>0, <1>a, <2>2, ReplyIInv DEF Down, AfterDown
  <2> QED BY Zenon, <2>1, <2>2
<1>12. CASE \E ok \in BOOLEAN : Proof(i, ok)
  <2> PICK ok \in BOOLEAN : Proof(i, ok)
    BY Zenon, <1>12
  <2>1. CASE ok /\ project = NoProject
    BY Zenon, <1>0, <1>a, <2>1, ToPCIInv DEF Proof, NoProject
  <2>2. CASE ~(ok /\ project = NoProject)
    BY Zenon, <1>0, <1>a, <2>2, ReplyIInv DEF Proof
  <2> QED BY Zenon, <2>1, <2>2
<1>13. CASE \E ok \in BOOLEAN : Stop(i, ok)
  <2> PICK ok \in BOOLEAN : Stop(i, ok)
    BY Zenon, <1>13
  <2>1. CASE ok /\ snap.yaml
    <3>1. /\ project' = [containers |-> "none", volumes |-> project.volumes /\ ~req[i].volumes]
          /\ UNCHANGED <<Agents, snap, overlapped>> /\ ToPC(i, "r_secrets") /\ req[i].pc = "stop"
      BY Zenon, <2>1 DEF Stop
    <3>2. project' \in Project /\ project'.containers = "none"
      BY Zenon, <3>1 DEF Project
    <3> QED BY Zenon, <1>0, <3>1, <3>2, ToPCIInv
  <2>2. CASE ~(ok /\ snap.yaml)
    BY Zenon, <1>0, <1>a, <2>2, ReplyIInv DEF Stop
  <2> QED BY Zenon, <2>1, <2>2
<1>14. CASE \E ok, healthy \in BOOLEAN : Wait(i, ok, healthy)
  <2> PICK ok \in BOOLEAN, healthy \in BOOLEAN : Wait(i, ok, healthy)
    BY Zenon, <1>14
  <2>1. project' \in Project /\ req[i].pc = "wait" /\ UNCHANGED <<Agents, snap, overlapped>>
    BY ZenonT(40), <1>0 DEF Wait, Project
  <2>2. CASE ok
    BY Zenon, <1>0, <1>a, <2>1, <2>2, ReplyIInv DEF Wait
  <2>3. CASE ~ok
    BY Zenon, <1>0, <1>a, <2>1, <2>3, ToPCIInv DEF Wait
  <2> QED BY Zenon, <2>2, <2>3
<1> QED BY Zenon, <1>1, <1>2, <1>3, <1>4, <1>5, <1>6, <1>7, <1>8, <1>9, <1>10, <1>11, <1>12, <1>13, <1>14 DEF BrokerStep

\* a request that is sent is the only one, or the requests overlap from then on
LEMMA SendIInv ==
  ASSUME IInv, NEW i \in Slots, NEW volumes \in BOOLEAN, Send(i, volumes)
  PROVE  IInv'
<1> DEFINE r == [NoReq EXCEPT !.pc = IF agent.kind = "start" THEN "policy" ELSE "load", !.kind = agent.kind, !.volumes = volumes]
<1>1. r \in Req /\ r.pc \in {"policy", "load"}
  BY Zenon DEF IInv, Types, Agent, NoReq, Req, ReqPCs, Gone, Contents
<1>2. req' = [req EXCEPT ![i] = r]
  BY Zenon DEF Send
<1> HIDE DEF r
<1>3. req' \in [Slots -> Req] /\ req'[i].pc \in {"policy", "load"} /\ \A j \in Slots \ {i} : req'[j] = req[j]
  BY Zenon, <1>1, <1>2 DEF IInv, Types
<1>4. agent' \in Agent /\ agent'.pc = "await"
  BY Zenon DEF Send, IInv, Types, Agent, AgentPCs
<1>5. overlapped' \in BOOLEAN /\ (~overlapped' => ~overlapped /\ \A j \in Slots : req[j].pc = "free")
  BY ZenonT(40) DEF Send, IInv, Types
<1>6. UNCHANGED <<staging, want, snap, project>>
  BY Zenon DEF Send
<1>7. Types' /\ staged' \in [Secrets -> Contents]
  BY Zenon, <1>3, <1>4, <1>5, <1>6 DEF IInv, Types, staging
<1>8. MarkerInv'
  BY Zenon, <1>4, <1>6 DEF IInv, MarkerInv, staging
<1>9. SnapshotInv'
  <2> SUFFICES ASSUME ~overlapped' PROVE SnapshotInv'
    BY ZenonT(40) DEF SnapshotInv
  <2>1. ~overlapped /\ \A j \in Slots : req[j].pc = "free"
    BY Zenon, <1>5
  <2>2. \A j \in Slots : req'[j].pc \notin Bare \cup Held
    BY Zenon, <1>3, <2>1 DEF Bare, Held, Removing
  <2>3. \A j \in Slots : req'[j].pc # "free" => j = i
    BY Zenon, <1>3, <2>1
  <2> QED BY ZenonT(40), <1>6, <2>1, <2>2, <2>3 DEF IInv, SnapshotInv, Loadable
<1> QED BY Zenon, <1>7, <1>8, <1>9 DEF IInv

\* the deadline passes, the broker crashes, the backend asks
LEMMA OutsideIInv ==
  ASSUME IInv, BrokerCrash \/ (\E i \in Slots : Late(i)) \/ (\E kind \in Kinds : Ask(kind))
  PROVE  IInv'
<1>1. CASE BrokerCrash
  <2>1. agent' \in Agent /\ (agent' = agent \/ agent'.pc \in {"clean", "idle"}) /\ want' \in Kinds \cup {None}
    BY Zenon, <1>1, AfterAnswerEffect DEF BrokerCrash, IInv, Types
  <2>2. NoReq \in Req /\ NoReq.pc = "free"
    BY Zenon DEF NoReq, Req, ReqPCs, Kinds, Gone, Contents
  <2>3. req' \in [Slots -> Req] /\ \A i \in Slots : req'[i].pc = "free"
    BY Zenon, <1>1, <2>2 DEF BrokerCrash
  <2>4. UNCHANGED <<staging, snap, project, overlapped>>
    BY Zenon, <1>1 DEF BrokerCrash, Agents
  <2>5. Types' /\ staged' \in [Secrets -> Contents]
    BY Zenon, <2>1, <2>3, <2>4 DEF IInv, Types, staging
  <2>6. MarkerInv'
    BY Zenon, <2>1, <2>4, BrokerKeepsMarker DEF IInv
  <2>7. SnapshotInv'
    BY Zenon, <2>3, <2>4 DEF IInv, SnapshotInv, Loadable, Bare, Held, Removing
  <2> QED BY Zenon, <2>5, <2>6, <2>7 DEF IInv
<1>2. CASE \E i \in Slots : Late(i)
  <2> PICK i \in Slots : Late(i)
    BY Zenon, <1>2
  <2>1. /\ req' \in [Slots -> Req] /\ req'[i].pc = req[i].pc /\ \A j \in Slots \ {i} : req'[j] = req[j]
    BY Zenon DEF Late, IInv, Types, Req
  <2>2. UNCHANGED <<Agents, agent, want, snap, project, overlapped>> /\ req[i].pc # "free"
    BY Zenon DEF Late
  <2>3. agent \in Agent /\ want \in Kinds \cup {None} /\ snap \in Snapshot /\ project \in Project
    BY Zenon DEF IInv, Types
  <2>4. ~overlapped => /\ project'.containers # "none" => Loadable'
                       /\ req'[i].pc \in Bare => project'.containers = "none"
                       /\ req'[i].pc \in Held => Loadable'
    BY ZenonT(40), <2>1, <2>2 DEF IInv, SnapshotInv, Loadable
  <2> QED BY Zenon, <2>1, <2>2, <2>3, <2>4, BrokerIInv
<1>3. CASE \E kind \in Kinds : Ask(kind)
  BY <1>3 DEF Ask, IInv, Types, MarkerInv, SnapshotInv, Loadable, staging, Brokers
<1> QED BY Zenon, <1>1, <1>2, <1>3

\* every step keeps the invariant
LEMMA NextIInv == IInv /\ [Next]_vars => IInv'
<1> SUFFICES ASSUME IInv, [Next]_vars PROVE IInv'
  BY Zenon
<1>1. CASE UNCHANGED vars
  BY Zenon, <1>1 DEF vars, staging, IInv, Types, MarkerInv, SnapshotInv, Loadable
<1>2. CASE AgentStep \/ AgentCrash
  BY Zenon, <1>2, AgentIInv, SendIInv DEF AgentStep
<1>3. CASE \E i \in Slots : BrokerStep(i)
  BY Zenon, <1>3, RequestIInv
<1>4. CASE BrokerCrash \/ (\E i \in Slots : Late(i)) \/ (\E kind \in Kinds : Ask(kind))
  BY Zenon, <1>4, OutsideIInv
<1> QED BY Zenon, <1>1, <1>2, <1>3, <1>4 DEF Next

-----------------------------------------------------------------------------
(* What a request and the agent that waits for it know of each other *)

\* the steps of composeStart and of composeStop
StepsOf(kind) ==
  Removing \cup IF kind = "start" THEN {"policy", "probe", "copy", "publish", "absent", "up", "wait", "down", "proof"}
                ELSE {"load", "stop"}

\* where the agent is, for which primitive, and what it has staged by then
AgentInv ==
  /\ agent.pc \notin {"idle", "boot"} => want = agent.kind
  /\ agent.pc \in {"recover", "mark", "mkdir", "stage", "clean"} => agent.kind = "start"
  /\ agent.pc \in {"send", "await"} => agent.kind \in {"start", "stop"}
  /\ agent.pc = "stage" => stagingDir
  /\ agent.pc \in {"send", "await"} /\ agent.kind = "start" => staged = Real

\* the request the agent waits for is at work, and is the one it has sent
AwaitInv ==
  agent.pc = "await" =>
    /\ agent.slot \in Slots
    /\ req[agent.slot].kind = agent.kind /\ req[agent.slot].pc \in StepsOf(agent.kind)

\* while the agent waits, the secrets are not wiped, so the broker has copied them as they are
CopyInv ==
  ~overlapped /\ agent.pc = "await" /\ agent.kind = "start" =>
    /\ \A s \in Secrets : req[agent.slot].got[s] \in {"none", "value"}
    /\ req[agent.slot].pc = "publish" => req[agent.slot].got = Real
    /\ req[agent.slot].pc \in {"absent", "up", "wait"} => snap.secrets = Real

\* a free slot keeps no copies, and secrets are only in directories that exist
LeftInv ==
  /\ rendered \in BOOLEAN
  /\ \A i \in Slots : req[i].pc = "free" => req[i] = NoReq
  /\ snap.secrets # Gone => snap.dir
  /\ staged # Gone => stagingDir

WorkInv == AgentInv /\ AwaitInv /\ CopyInv /\ LeftInv

\* the fields of the records
LEMMA WorkRecords ==
  /\ NoAgent.pc = "idle" /\ NoAgent.kind = None /\ NoReq.pc = "free" /\ NoReq.got = Gone
  /\ NoSnap.secrets = Gone /\ ~NoSnap.dir
  /\ \A a \in Agent : \A p : [a EXCEPT !.pc = p].kind = a.kind /\ [a EXCEPT !.pc = p].slot = a.slot
                         /\ [a EXCEPT !.pc = p].res = a.res
  /\ Gone # Real /\ "free" \notin StepsOf("start") \cup StepsOf("stop")
<1>1. /\ NoAgent.pc = "idle" /\ NoAgent.kind = None /\ NoReq.pc = "free" /\ NoReq.got = Gone
      /\ NoSnap.secrets = Gone /\ ~NoSnap.dir
  BY Zenon DEF NoAgent, NoReq, NoSnap
<1>2. \A a \in Agent : \A p : [a EXCEPT !.pc = p].kind = a.kind /\ [a EXCEPT !.pc = p].slot = a.slot
                          /\ [a EXCEPT !.pc = p].res = a.res
  BY Zenon DEF Agent
<1>3. Gone # Real
  BY Zenon, ComposeAssumption DEF Gone, Real
<1>4. "free" \notin StepsOf("start") \cup StepsOf("stop")
  BY Zenon DEF StepsOf, Removing
<1> QED BY Zenon, <1>1, <1>2, <1>3, <1>4

\* an agent that does not wait knows nothing of a request
LEMMA NotWaiting == ASSUME agent'.pc # "await" PROVE AwaitInv' /\ CopyInv'
  BY Zenon DEF AwaitInv, CopyInv

\* an agent that has its answer, or has given up, cleans up after a start and is done after a stop
LEMMA AnswerWork ==
  ASSUME Types, AgentInv, agent.pc \in {"send", "await"}, UNCHANGED <<staged, stagingDir>>, NEW res, AfterAnswer(res)
  PROVE  AgentInv' /\ agent'.pc # "await" /\ (agent.kind = "start" => agent'.res = res) /\ (agent.kind # "start" /\ res # "ok" => want' = want)
<1>1. CASE agent.kind = "start"
  <2>1. agent' = [agent EXCEPT !.pc = "clean", !.slot = None, !.res = res] /\ want' = want
    BY Zenon, <1>1 DEF AfterAnswer
  <2>2. agent'.pc = "clean" /\ agent'.kind = agent.kind /\ agent'.res = res
    BY Zenon, <2>1 DEF Types, Agent
  <2>3. want = agent.kind
    BY Zenon DEF AgentInv
  <2> QED BY Zenon, <1>1, <2>1, <2>2, <2>3 DEF AgentInv
<1>2. CASE agent.kind # "start"
  <2>1. agent'.pc = "idle" /\ (res # "ok" => want' = want)
    BY Zenon, <1>2, WorkRecords DEF AfterAnswer, Finish
  <2> QED BY Zenon, <1>2, <2>1 DEF AgentInv
<1> QED BY Zenon, <1>1, <1>2

\* the agent's own steps
LEMMA AgentWork ==
  ASSUME IInv, WorkInv, Begin \/ Staged \/ RemoveDirectory \/ Cleaned \/ CleaningFails \/ GiveUp \/ AgentCrash
               \/ (\E s \in Secrets : Wipe(s) \/ \E ok \in BOOLEAN : Stage(s, ok))
               \/ (\E ok \in BOOLEAN : Render(ok) \/ Mark(ok) \/ MakeDirectory(ok))
  PROVE  WorkInv'
<1>0. Types /\ agent \in Agent /\ AgentInv /\ LeftInv /\ staged \in [Secrets -> Contents]
  BY Zenon DEF IInv, Types, WorkInv
<1>a. \A p : Goto(p) => agent'.pc = p /\ agent'.kind = agent.kind
  BY Zenon, <1>0, WorkRecords DEF Goto, Agent
<1>b. \A ok : Finish(ok) => agent'.pc = "idle"
  BY Zenon, WorkRecords DEF Finish
<1>c. SUFFICES AgentInv' /\ agent'.pc # "await" /\ rendered' \in BOOLEAN /\ UNCHANGED <<req, snap>> /\ (staged' # Gone => stagingDir')
  BY Zenon, <1>0, <1>c, NotWaiting DEF WorkInv, LeftInv
<1>1. CASE Begin
  <2>1. agent'.kind = want /\ agent'.pc = CASE want = "render" -> "render" [] want = "start" -> "recover" [] want = "stop" -> "send"
    BY Zenon, <1>1 DEF Begin, NoAgent
  <2>2. want \in Kinds /\ UNCHANGED <<rendered, staging, want, req, snap>>
    BY Zenon, <1>0, <1>1 DEF Begin, Brokers, Types
  <2>3. agent'.pc \in {"render", "recover", "send"} /\ (agent'.pc = "recover" => want = "start") /\ (agent'.pc = "send" => want = "stop")
    BY Zenon, <2>1, <2>2 DEF Kinds
  <2> QED BY Zenon, <1>0, <2>1, <2>2, <2>3 DEF AgentInv, LeftInv, staging
<1>2. CASE Staged
  <2>1. agent.pc = "stage" /\ staged = Real /\ Goto("send") /\ UNCHANGED <<rendered, staged, stagingDir, want, req, snap>>
    BY Zenon, <1>2 DEF Staged, staging, Brokers
  <2> QED BY SMTT(30), <1>0, <1>a, <2>1 DEF AgentInv, LeftInv
<1>3. CASE RemoveDirectory
  <2>1. agent.pc \in {"boot", "recover", "clean"} /\ staged = Gone /\ UNCHANGED <<rendered, staged, agent, want, req, snap>>
    BY Zenon, <1>3 DEF RemoveDirectory, Wiping, Brokers
  <2> QED BY Zenon, <1>0, <2>1 DEF AgentInv, LeftInv
<1>4. CASE Cleaned
  <2>1. agent.pc \in {"boot", "recover", "clean"} /\ staged = Gone /\ UNCHANGED <<rendered, staged, stagingDir, req, snap>>
    BY Zenon, <1>4 DEF Cleaned, ClearMarker, Wiping, Brokers
  <2>2. CASE agent.pc = "recover"
    <3>1. Goto("mark") /\ want' = want
      BY Zenon, <1>4, <2>2 DEF Cleaned
    <3> QED BY <1>0, <1>a, <2>1, <2>2, <3>1 DEF AgentInv, LeftInv
  <2>3. CASE agent.pc # "recover"
    <3>1. agent' = NoAgent
      BY Zenon, <1>4, <2>1, <2>3 DEF Cleaned, Finish
    <3> QED BY Zenon, <1>0, <2>1, <3>1, WorkRecords DEF AgentInv, LeftInv
  <2> QED BY Zenon, <2>2, <2>3
<1>5. CASE CleaningFails
  <2>1. agent.pc \in {"boot", "recover", "clean"} /\ UNCHANGED <<rendered, staged, stagingDir, req, snap>>
    BY Zenon, <1>5 DEF CleaningFails, Wiping, Brokers
  <2>2. agent'.pc \in {"idle", "boot"}
    BY Zenon, <1>5, WorkRecords DEF CleaningFails, Failed, Finish
  <2> QED BY ZenonT(40), <1>0, <2>1, <2>2 DEF AgentInv, LeftInv
<1>6. CASE GiveUp
  <2>1. agent.pc \in {"send", "await"} /\ AfterAnswer("lost") /\ UNCHANGED <<rendered, staged, stagingDir, req, snap>>
    BY Zenon, <1>6 DEF GiveUp, staging, Brokers
  <2> QED BY Zenon, <1>0, <2>1, AnswerWork DEF LeftInv
<1>7. CASE AgentCrash
  <2>1. agent'.pc = "boot" /\ UNCHANGED <<rendered, req, snap>>
    BY Zenon, <1>7 DEF AgentCrash, NoAgent, Brokers
  <2>2. staged' # Gone => stagingDir'
    BY SMTT(30), <1>0, <1>7 DEF AgentCrash, LeftInv
  <2> QED BY Zenon, <1>0, <2>1, <2>2 DEF AgentInv, LeftInv
<1>8. CASE \E s \in Secrets : Wipe(s)
  <2> PICK s \in Secrets : Wipe(s)
    BY Zenon, <1>8
  <2>1. /\ agent.pc \in {"boot", "recover", "clean"} /\ staged[s] # "none" /\ UNCHANGED <<rendered, stagingDir, agent, want, req, snap>>
    BY Zenon DEF Wipe, Wiping, Brokers
  <2>2. stagingDir
    BY ZenonT(40), <1>0, <2>1 DEF LeftInv, Gone
  <2> QED BY Zenon, <1>0, <2>1, <2>2 DEF AgentInv, LeftInv
<1>9. CASE \E s \in Secrets, ok \in BOOLEAN : Stage(s, ok)
  <2> PICK s \in Secrets, ok \in BOOLEAN : Stage(s, ok)
    BY Zenon, <1>9
  <2>1. /\ agent.pc = "stage" /\ UNCHANGED <<rendered, stagingDir, want, req, snap>> /\ (Goto("stage") \/ Goto("clean"))
    BY Zenon DEF Stage, Brokers
  <2> QED BY SMTT(30), <1>0, <1>a, <2>1 DEF AgentInv, LeftInv
<1>10. CASE \E ok \in BOOLEAN : Render(ok)
  <2> PICK ok \in BOOLEAN : Render(ok)
    BY Zenon, <1>10
  <2>1. UNCHANGED <<staged, stagingDir, req, snap>> /\ rendered' \in BOOLEAN /\ agent'.pc = "idle"
    BY Zenon, <1>b DEF Render, staging, Brokers
  <2> QED BY Zenon, <1>0, <2>1 DEF AgentInv, LeftInv
<1>11. CASE \E ok \in BOOLEAN : Mark(ok)
  <2> PICK ok \in BOOLEAN : Mark(ok)
    BY Zenon, <1>11
  <2>1. agent.pc = "mark" /\ UNCHANGED <<rendered, staged, stagingDir, req, snap>> /\ ((Goto("mkdir") /\ want' = want) \/ Finish(FALSE))
    BY Zenon DEF Mark, Failed, Brokers
  <2>2. (agent'.pc = "mkdir" /\ agent'.kind = agent.kind /\ want' = want) \/ agent'.pc = "idle"
    BY Zenon, <1>a, <1>b, <2>1
  <2>3. agent.kind = "start" /\ want = agent.kind
    BY Zenon, <1>0, <2>1 DEF AgentInv
  <2> QED BY Zenon, <1>0, <2>1, <2>2, <2>3 DEF AgentInv, LeftInv
<1>12. CASE \E ok \in BOOLEAN : MakeDirectory(ok)
  <2> PICK ok \in BOOLEAN : MakeDirectory(ok)
    BY Zenon, <1>12
  <2>1. /\ agent.pc = "mkdir" /\ UNCHANGED <<rendered, staged, req, snap>>
        /\ (stagingDir' = TRUE /\ Goto("stage") /\ want' = want) \/ (stagingDir' = stagingDir /\ Finish(FALSE))
    BY Zenon DEF MakeDirectory, Failed, Brokers
  <2>2. \/ agent'.pc = "stage" /\ agent'.kind = agent.kind /\ want' = want /\ stagingDir'
        \/ agent'.pc = "idle" /\ stagingDir' = stagingDir
    BY Zenon, <1>a, <1>b, <2>1
  <2>3. agent.kind = "start" /\ want = agent.kind
    BY Zenon, <1>0, <2>1 DEF AgentInv
  <2> QED BY Zenon, <1>0, <2>1, <2>2, <2>3 DEF AgentInv, LeftInv
<1> QED BY Zenon, <1>1, <1>2, <1>3, <1>4, <1>5, <1>6, <1>7, <1>8, <1>9, <1>10, <1>11, <1>12

\* the agent waits for one of the requests at work; without overlap it is the only one
LEMMA OneAtWork ==
  ASSUME IInv, WorkInv, NEW i \in Slots, req[i].pc # "free", agent.pc = "await"
  PROVE  /\ agent.slot \in Slots /\ req[agent.slot].pc # "free" /\ agent.kind \in {"start", "stop"}
         /\ ~overlapped => agent.slot = i
<1>1. agent.slot \in Slots /\ agent.kind \in {"start", "stop"} /\ req[agent.slot].pc \in StepsOf(agent.kind)
  BY Zenon DEF WorkInv, AwaitInv, AgentInv
<1>2. req[agent.slot].pc # "free"
  BY Zenon, <1>1, WorkRecords
<1> QED BY Zenon, <1>1, <1>2 DEF IInv, SnapshotInv

\* a request is answered
LEMMA ReplyWork ==
  ASSUME IInv, WorkInv, NEW i \in Slots, req[i].pc # "free", UNCHANGED <<Agents, overlapped>>,
         NEW res, Reply(i, res), snap'.secrets # Gone => snap'.dir
  PROVE  WorkInv'
<1>0. /\ Types /\ AgentInv /\ LeftInv /\ UNCHANGED <<rendered, staged, stagingDir>> /\ req' = [req EXCEPT ![i] = NoReq]
      /\ req \in [Slots -> Req]
  BY Zenon DEF IInv, Types, WorkInv, Agents, staging, Reply
<1>1. req'[i] = NoReq /\ \A j \in Slots \ {i} : req'[j] = req[j]
  BY Zenon, <1>0
<1>2. LeftInv'
  BY Zenon, <1>0, <1>1 DEF LeftInv
<1>3. CASE agent.pc = "await" /\ agent.slot = i
  <2>1. AgentInv' /\ agent'.pc # "await"
    BY Zenon, <1>0, <1>3, AnswerWork DEF Reply
  <2> QED BY Zenon, <1>2, <2>1, NotWaiting DEF WorkInv
<1>4. CASE ~(agent.pc = "await" /\ agent.slot = i)
  <2>1. agent' = agent /\ want' = want
    BY Zenon, <1>4 DEF Reply
  <2>2. AgentInv'
    BY Zenon, <1>0, <2>1 DEF AgentInv
  <2>3. CASE agent.pc = "await"
    <3>1. agent.slot \in Slots \ {i} /\ overlapped
      BY Zenon, <1>4, <2>3, OneAtWork
    <3>2. AwaitInv' /\ CopyInv'
      BY Zenon, <1>1, <2>1, <3>1 DEF WorkInv, AwaitInv, CopyInv
    <3> QED BY Zenon, <1>2, <2>2, <3>2 DEF WorkInv
  <2>4. CASE agent.pc # "await"
    BY Zenon, <1>2, <2>1, <2>2, <2>4, NotWaiting DEF WorkInv
  <2> QED BY Zenon, <2>3, <2>4
<1> QED BY Zenon, <1>3, <1>4

\* a request goes on
LEMMA GoesOnWork ==
  ASSUME IInv, WorkInv, NEW i \in Slots, req[i].pc # "free", UNCHANGED <<Agents, overlapped, agent, want>>,
         req' \in [Slots -> Req], \A j \in Slots \ {i} : req'[j] = req[j],
         req'[i].pc # "free", req'[i].kind = req[i].kind,
         snap'.secrets # Gone => snap'.dir,
         agent.kind \in {"start", "stop"} /\ req[i].pc \in StepsOf(agent.kind) => req'[i].pc \in StepsOf(agent.kind),
         ~overlapped /\ agent.pc = "await" /\ agent.kind = "start" /\ agent.slot = i =>
           /\ \A s \in Secrets : req'[i].got[s] \in {"none", "value"}
           /\ req'[i].pc = "publish" => req'[i].got = Real
           /\ req'[i].pc \in {"absent", "up", "wait"} => snap'.secrets = Real
  PROVE  WorkInv'
<1>0. /\ Types /\ AgentInv /\ LeftInv /\ AwaitInv /\ CopyInv /\ UNCHANGED <<rendered, staged, stagingDir>>
  BY ZenonT(40) DEF IInv, WorkInv, Agents, staging
<1>1. LeftInv'
  BY Zenon, <1>0 DEF LeftInv
<1>2. AgentInv'
  BY Zenon, <1>0 DEF AgentInv
<1>3. CASE agent.pc = "await"
  <2>1. /\ agent.slot \in Slots /\ agent.kind \in {"start", "stop"} /\ (~overlapped => agent.slot = i)
    BY Zenon, <1>3, OneAtWork
  <2>2. AwaitInv'
    BY ZenonT(40), <1>0, <1>3, <2>1 DEF AwaitInv
  <2>3. CopyInv'
    BY Zenon, <1>0, <1>3, <2>1 DEF CopyInv
  <2> QED BY Zenon, <1>1, <1>2, <2>2, <2>3 DEF WorkInv
<1>4. CASE agent.pc # "await"
  BY Zenon, <1>1, <1>2, <1>4, NotWaiting DEF WorkInv
<1> QED BY Zenon, <1>3, <1>4

LEMMA ToPCWork ==
  ASSUME IInv, WorkInv, NEW i \in Slots, req[i].pc # "free", UNCHANGED <<Agents, overlapped>>,
         NEW next \in ReqPCs \ {"free"}, ToPC(i, next), snap'.secrets # Gone => snap'.dir,
         agent.kind \in {"start", "stop"} /\ req[i].pc \in StepsOf(agent.kind) => next \in StepsOf(agent.kind),
         ~overlapped /\ agent.pc = "await" /\ agent.kind = "start" /\ agent.slot = i =>
           /\ next = "publish" => req[i].got = Real
           /\ next \in {"absent", "up", "wait"} => snap'.secrets = Real
  PROVE  WorkInv'
<1>1. /\ req' = [req EXCEPT ![i].pc = next] /\ UNCHANGED <<agent, want>> /\ req \in [Slots -> Req]
  BY Zenon DEF ToPC, IInv, Types
<1>2. /\ req' \in [Slots -> Req] /\ req'[i].pc = next /\ req'[i].kind = req[i].kind /\ req'[i].got = req[i].got
      /\ \A j \in Slots \ {i} : req'[j] = req[j]
  BY Zenon, <1>1 DEF Req
<1>3. ~overlapped /\ agent.pc = "await" /\ agent.kind = "start" /\ agent.slot = i =>
        \A s \in Secrets : req[i].got[s] \in {"none", "value"}
  BY Zenon DEF WorkInv, CopyInv
<1> QED BY <1>1, <1>2, <1>3, GoesOnWork

\* the steps of a request
LEMMA RequestWork ==
  ASSUME IInv, WorkInv, NEW i \in Slots, BrokerStep(i)
  PROVE  WorkInv'
<1> USE DEF ReqPCs, Removing
<1>0. /\ snap \in Snapshot /\ (snap.secrets # Gone => snap.dir) /\ req \in [Slots -> Req]
      /\ agent.pc = "await" /\ agent.kind = "start" => staged = Real
  BY ZenonT(40) DEF IInv, Types, WorkInv, LeftInv, AgentInv
<1>a. ~overlapped /\ agent.pc = "await" /\ agent.kind = "start" /\ agent.slot = i =>
        /\ \A s \in Secrets : req[i].got[s] \in {"none", "value"}
        /\ req[i].pc = "publish" => req[i].got = Real
        /\ req[i].pc \in {"absent", "up", "wait"} => snap.secrets = Real
  BY Zenon DEF WorkInv, CopyInv
<1>1. CASE ReadPolicy(i)
  <2>1. CASE rendered /\ staged = Real
    BY Zenon, <1>0, <1>1, <2>1, ToPCWork DEF ReadPolicy, StepsOf
  <2>2. CASE ~(rendered /\ staged = Real)
    BY Zenon, <1>0, <1>1, <2>2, ReplyWork DEF ReadPolicy
  <2> QED BY Zenon, <2>1, <2>2
<1>2. CASE Probe(i)
  <2>1. CASE snap.dir
    BY ZenonT(40), <1>0, <1>2, <2>1, ReplyWork DEF Probe
  <2>2. CASE ~snap.dir
    BY Zenon, <1>0, <1>2, <2>2, ToPCWork DEF Probe, StepsOf
  <2> QED BY Zenon, <2>1, <2>2
<1>3. CASE \E s \in Secrets : CopySecret(i, s)
  <2> PICK s \in Secrets : CopySecret(i, s)
    BY Zenon, <1>3
  <2>1. CASE staged[s] = "none"
    BY Zenon, <1>0, <2>1, ReplyWork DEF CopySecret
  <2>2. CASE staged[s] # "none"
    <3>1. /\ req' = [req EXCEPT ![i].got[s] = staged[s]] /\ agent' = agent /\ want' = want
          /\ UNCHANGED <<Agents, snap, project, overlapped>> /\ req[i].pc = "copy"
      BY Zenon, <2>2 DEF CopySecret
    <3>2. staged[s] \in Contents
      BY Zenon DEF IInv
    <3>3. /\ req' \in [Slots -> Req] /\ req'[i].pc = req[i].pc /\ req'[i].kind = req[i].kind
          /\ \A j \in Slots \ {i} : req'[j] = req[j]
          /\ \A t \in Secrets : req'[i].got[t] = IF t = s THEN staged[s] ELSE req[i].got[t]
      BY ZenonT(40), <1>0, <3>1, <3>2 DEF Req
    <3>4. staged = Real => staged[s] = "value"
      BY Zenon DEF Real
    <3>5. ~overlapped /\ agent.pc = "await" /\ agent.kind = "start" /\ agent.slot = i =>
            \A t \in Secrets : req'[i].got[t] \in {"none", "value"}
      BY Zenon, <1>0, <1>a, <3>3, <3>4
    <3> QED BY Zenon, <1>0, <3>1, <3>3, <3>5, GoesOnWork
  <2> QED BY Zenon, <2>1, <2>2
<1>4. CASE Copied(i)
  <2>1. req[i].pc = "copy" /\ ToPC(i, "publish") /\ (\A s \in Secrets : req[i].got[s] # "none") /\ UNCHANGED <<Agents, snap, project, overlapped>>
    BY Zenon, <1>4 DEF Copied
  <2>2. req[i].got \in [Secrets -> Contents]
    BY Zenon, <1>0 DEF Req
  <2>3. (\A s \in Secrets : req[i].got[s] \in {"none", "value"}) => req[i].got = Real
    BY Zenon, <2>1, <2>2 DEF Real
  <2> QED BY Zenon, <1>0, <1>a, <2>1, <2>3, ToPCWork DEF StepsOf
<1>5. CASE Load(i)
  <2>1. CASE Loadable
    BY Zenon, <1>0, <1>5, <2>1, ToPCWork DEF Load, StepsOf
  <2>2. CASE ~Loadable
    BY Zenon, <1>0, <1>5, <2>2, ReplyWork DEF Load
  <2> QED BY Zenon, <2>1, <2>2
<1>6. CASE Remove(i)
  <2>1. CASE req[i].pc = "r_secrets" /\ snap.secrets # Gone
    <3> PICK s \in Secrets : snap' = [snap EXCEPT !.secrets[s] = Wiped(@)]
      BY Zenon, <1>6, <2>1 DEF Remove, RemoveSecret
    <3>1. snap'.dir = snap.dir
      BY Zenon, <1>0 DEF Snapshot
    <3>2. UNCHANGED <<req, agent, want, Agents, project, overlapped>>
      BY Zenon, <1>6, <2>1 DEF Remove
    <3> QED BY Zenon, <1>0, <1>a, <2>1, <3>1, <3>2, GoesOnWork
  <2>2. CASE req[i].pc = "r_secrets" /\ snap.secrets = Gone
    <3>1. UNCHANGED <<snap, Agents, project, overlapped>> /\ ToPC(i, "r_yaml")
      BY Zenon, <1>6, <2>2 DEF Remove
    <3> QED BY Zenon, <1>0, <2>2, <3>1, ToPCWork DEF StepsOf
  <2>3. CASE req[i].pc = "r_yaml"
    <3>1. snap' = [snap EXCEPT !.yaml = FALSE] /\ UNCHANGED <<Agents, project, overlapped>> /\ ToPC(i, "r_meta")
      BY Zenon, <1>6, <2>3 DEF Remove
    <3>2. snap'.dir = snap.dir /\ snap'.secrets = snap.secrets
      BY Zenon, <1>0, <3>1 DEF Snapshot
    <3> QED BY Zenon, <1>0, <2>3, <3>1, <3>2, ToPCWork DEF StepsOf
  <2>4. CASE req[i].pc = "r_meta"
    <3>1. snap' = [snap EXCEPT !.meta = FALSE] /\ UNCHANGED <<Agents, project, overlapped>> /\ ToPC(i, "r_dir")
      BY Zenon, <1>6, <2>4 DEF Remove
    <3>2. snap'.dir = snap.dir /\ snap'.secrets = snap.secrets
      BY Zenon, <1>0, <3>1 DEF Snapshot
    <3> QED BY Zenon, <1>0, <2>4, <3>1, <3>2, ToPCWork DEF StepsOf
  <2>5. CASE req[i].pc = "r_dir" /\ NothingIn
    <3>1. snap' = NoSnap /\ UNCHANGED <<Agents, project, overlapped>> /\ Removed(i)
      BY Zenon, <1>6, <2>5 DEF Remove
    <3> QED BY Zenon, <2>5, <3>1, ReplyWork, WorkRecords DEF Removed
  <2>6. CASE req[i].pc = "r_dir" /\ ~NothingIn
    <3>1. UNCHANGED <<snap, Agents, project, overlapped>> /\ Reply(i, "rejected")
      BY Zenon, <1>6, <2>6 DEF Remove
    <3> QED BY Zenon, <1>0, <2>6, <3>1, ReplyWork
  <2> QED BY Zenon, <1>6, <2>1, <2>2, <2>3, <2>4, <2>5, <2>6 DEF Remove
<1>7. CASE RemoveFails(i)
  BY Zenon, <1>0, <1>7, ReplyWork DEF RemoveFails
<1>8. CASE \E ok \in BOOLEAN : Publish(i, ok)
  <2> PICK ok \in BOOLEAN : Publish(i, ok)
    BY Zenon, <1>8
  <2>1. CASE ok /\ NothingIn
    <3>1. /\ snap' = [dir |-> TRUE, yaml |-> TRUE, meta |-> TRUE, secrets |-> req[i].got]
          /\ UNCHANGED <<Agents, project, overlapped>> /\ ToPC(i, "absent") /\ req[i].pc = "publish"
      BY Zenon, <2>1 DEF Publish
    <3>2. snap'.dir /\ snap'.secrets = req[i].got
      BY Zenon, <3>1
    <3> QED BY ZenonT(40), <1>a, <3>1, <3>2, ToPCWork DEF StepsOf
  <2>2. CASE ~(ok /\ NothingIn)
    BY Zenon, <1>0, <2>2, ReplyWork DEF Publish
  <2> QED BY Zenon, <2>1, <2>2
<1>9. CASE \E ok \in BOOLEAN : Absent(i, ok)
  <2> PICK ok \in BOOLEAN : Absent(i, ok)
    BY Zenon, <1>9
  <2>1. PICK next \in {"up", "r_secrets"} : ToPC(i, next)
    BY Zenon DEF Absent
  <2> QED BY Zenon, <1>0, <1>a, <2>1, ToPCWork DEF Absent, StepsOf
<1>10. CASE \E ok \in BOOLEAN : Up(i, ok)
  <2> PICK ok \in BOOLEAN : Up(i, ok)
    BY Zenon, <1>10
  <2>1. PICK next \in {"wait", "down"} : ToPC(i, next)
    BY Zenon DEF Up
  <2> QED BY Zenon, <1>0, <1>a, <2>1, ToPCWork DEF Up, StepsOf
<1>11. CASE \E ok \in BOOLEAN : Down(i, ok)
  <2> PICK ok \in BOOLEAN : Down(i, ok)
    BY Zenon, <1>11
  <2>1. CASE ok /\ snap.yaml
    BY Zenon, <1>0, <2>1, ToPCWork DEF Down, AfterDown, StepsOf
  <2>2. CASE ~(ok /\ snap.yaml)
    BY Zenon, <1>0, <2>2, ReplyWork DEF Down, AfterDown
  <2> QED BY Zenon, <2>1, <2>2
<1>12. CASE \E ok \in BOOLEAN : Proof(i, ok)
  <2> PICK ok \in BOOLEAN : Proof(i, ok)
    BY Zenon, <1>12
  <2>1. CASE ok /\ project = NoProject
    BY Zenon, <1>0, <2>1, ToPCWork DEF Proof, StepsOf
  <2>2. CASE ~(ok /\ project = NoProject)
    BY Zenon, <1>0, <2>2, ReplyWork DEF Proof
  <2> QED BY Zenon, <2>1, <2>2
<1>13. CASE \E ok \in BOOLEAN : Stop(i, ok)
  <2> PICK ok \in BOOLEAN : Stop(i, ok)
    BY Zenon, <1>13
  <2>1. CASE ok /\ snap.yaml
    BY Zenon, <1>0, <2>1, ToPCWork DEF Stop, StepsOf
  <2>2. CASE ~(ok /\ snap.yaml)
    BY Zenon, <1>0, <2>2, ReplyWork DEF Stop
  <2> QED BY Zenon, <2>1, <2>2
<1>14. CASE \E ok, healthy \in BOOLEAN : Wait(i, ok, healthy)
  <2> PICK ok \in BOOLEAN, healthy \in BOOLEAN : Wait(i, ok, healthy)
    BY Zenon, <1>14
  <2>1. CASE ok
    BY Zenon, <1>0, <2>1, ReplyWork DEF Wait
  <2>2. CASE ~ok
    BY Zenon, <1>0, <2>2, ToPCWork DEF Wait, StepsOf
  <2> QED BY Zenon, <2>1, <2>2
<1> QED BY Zenon, <1>1, <1>2, <1>3, <1>4, <1>5, <1>6, <1>7, <1>8, <1>9, <1>10, <1>11, <1>12, <1>13, <1>14 DEF BrokerStep

\* a request that is sent is the one the agent waits for
LEMMA SendWork ==
  ASSUME IInv, WorkInv, NEW i \in Slots, NEW volumes \in BOOLEAN, Send(i, volumes)
  PROVE  WorkInv'
<1> DEFINE r == [NoReq EXCEPT !.pc = IF agent.kind = "start" THEN "policy" ELSE "load", !.kind = agent.kind, !.volumes = volumes]
<1>0. Types /\ AgentInv /\ LeftInv /\ agent.pc = "send" /\ agent \in Agent /\ req \in [Slots -> Req]
  BY Zenon DEF IInv, Types, WorkInv, Send
<1>1. /\ r.pc = (IF agent.kind = "start" THEN "policy" ELSE "load") /\ r.kind = agent.kind /\ r.got = Gone
  BY Zenon DEF NoReq
<1>2. req' = [req EXCEPT ![i] = r] /\ agent' = [agent EXCEPT !.pc = "await", !.slot = i] /\ UNCHANGED <<rendered, staged, stagingDir, want, snap>>
  BY Zenon DEF Send, staging
<1> HIDE DEF r
<1>3. req'[i] = r /\ \A j \in Slots \ {i} : req'[j] = req[j]
  BY Zenon, <1>0, <1>2
<1>4. agent'.pc = "await" /\ agent'.slot = i /\ agent'.kind = agent.kind
  BY Zenon, <1>0, <1>2 DEF Agent
<1>5. agent.kind \in {"start", "stop"} /\ want = agent.kind
  BY Zenon, <1>0 DEF AgentInv
<1>6. r.pc \in StepsOf(agent.kind) /\ r.pc \in {"policy", "load"}
  BY Zenon, <1>1, <1>5 DEF StepsOf
<1>7. AgentInv'
  BY Zenon, <1>0, <1>2, <1>4, <1>5 DEF AgentInv
<1>8. AwaitInv'
  BY Zenon, <1>1, <1>3, <1>4, <1>6 DEF AwaitInv
<1>9. CopyInv'
  BY Zenon, <1>1, <1>3, <1>4, <1>6 DEF CopyInv, Gone
<1>10. LeftInv'
  BY Zenon, <1>0, <1>2, <1>3, <1>6 DEF LeftInv
<1> QED BY Zenon, <1>7, <1>8, <1>9, <1>10 DEF WorkInv

\* the deadline passes, the broker crashes, the backend asks
LEMMA OutsideWork ==
  ASSUME IInv, WorkInv, BrokerCrash \/ (\E i \in Slots : Late(i)) \/ (\E kind \in Kinds : Ask(kind))
  PROVE  WorkInv'
<1>0. Types /\ AgentInv /\ LeftInv /\ req \in [Slots -> Req]
  BY Zenon DEF IInv, Types, WorkInv
<1>1. CASE BrokerCrash
  <2>1. UNCHANGED <<rendered, staged, stagingDir, snap>> /\ \A i \in Slots : req'[i] = NoReq
    BY Zenon, <1>1 DEF BrokerCrash, Agents, staging
  <2>2. LeftInv'
    BY Zenon, <1>0, <2>1 DEF LeftInv
  <2>3. CASE agent.pc = "await"
    <3>1. AfterAnswer("lost")
      BY Zenon, <1>1, <2>3 DEF BrokerCrash
    <3>2. AgentInv' /\ agent'.pc # "await"
      BY Zenon, <1>0, <2>1, <2>3, <3>1, AnswerWork
    <3> QED BY Zenon, <2>2, <3>2, NotWaiting DEF WorkInv
  <2>4. CASE agent.pc # "await"
    <3>1. agent' = agent /\ want' = want
      BY ZenonT(40), <1>1, <2>4 DEF BrokerCrash
    <3>2. AgentInv'
      BY Zenon, <1>0, <2>1, <3>1 DEF AgentInv
    <3> QED BY Zenon, <2>2, <2>4, <3>1, <3>2, NotWaiting DEF WorkInv
  <2> QED BY Zenon, <2>3, <2>4
<1>2. CASE \E i \in Slots : Late(i)
  <2> PICK i \in Slots : Late(i)
    BY Zenon, <1>2
  <2>1. /\ req' = [req EXCEPT ![i].late = TRUE] /\ req[i].pc # "free" /\ UNCHANGED <<Agents, agent, want, snap, project, overlapped>>
    BY Zenon DEF Late
  <2>2. /\ req' \in [Slots -> Req] /\ \A j \in Slots \ {i} : req'[j] = req[j]
        /\ req'[i].pc = req[i].pc /\ req'[i].kind = req[i].kind /\ req'[i].got = req[i].got
    BY Zenon, <1>0, <2>1 DEF Req
  <2>3. ~overlapped /\ agent.pc = "await" /\ agent.kind = "start" /\ agent.slot = i =>
          /\ \A s \in Secrets : req[i].got[s] \in {"none", "value"}
          /\ req[i].pc = "publish" => req[i].got = Real
          /\ req[i].pc \in {"absent", "up", "wait"} => snap.secrets = Real
    BY Zenon DEF WorkInv, CopyInv
  <2>4. snap.secrets # Gone => snap.dir
    BY Zenon, <1>0 DEF LeftInv
  <2>5. snap' = snap /\ UNCHANGED <<Agents, overlapped, agent, want>>
    BY Zenon, <2>1
  <2>6. ~overlapped /\ agent.pc = "await" /\ agent.kind = "start" /\ agent.slot = i =>
          /\ \A s \in Secrets : req'[i].got[s] \in {"none", "value"}
          /\ req'[i].pc = "publish" => req'[i].got = Real
          /\ req'[i].pc \in {"absent", "up", "wait"} => snap'.secrets = Real
    BY Zenon, <2>2, <2>3, <2>5
  <2>7. req[i].pc # "free" /\ req'[i].pc # "free" /\ (snap'.secrets # Gone => snap'.dir)
    BY Zenon, <2>1, <2>2, <2>4, <2>5
  <2> QED BY Zenon, <1>0, <2>2, <2>5, <2>6, <2>7, GoesOnWork
<1>3. CASE \E kind \in Kinds : Ask(kind)
  <2>1. agent.pc = "idle" /\ UNCHANGED <<rendered, staged, stagingDir, agent, snap, req>>
    BY Zenon, <1>3 DEF Ask, staging, Brokers
  <2> QED BY Zenon, <1>0, <2>1, NotWaiting DEF WorkInv, AgentInv, LeftInv
<1> QED BY Zenon, <1>1, <1>2, <1>3

LEMMA WorkInvariant == Spec => [](IInv /\ WorkInv)
<1>1. Init => IInv /\ WorkInv
  <2> SUFFICES ASSUME Init PROVE WorkInv
    BY Zenon, InitIInv
  <2>1. agent.pc = "idle" /\ staged = Gone /\ snap.secrets = Gone /\ \A i \in Slots : req[i] = NoReq
    BY Zenon, WorkRecords DEF Init
  <2> QED BY Zenon, <2>1 DEF Init, WorkInv, AgentInv, AwaitInv, CopyInv, LeftInv
<1>2. IInv /\ WorkInv /\ [Next]_vars => (IInv /\ WorkInv)'
  <2> SUFFICES ASSUME IInv, WorkInv, [Next]_vars PROVE WorkInv'
    BY Zenon, NextIInv
  <2>1. CASE UNCHANGED vars
    BY Zenon, <2>1 DEF vars, staging, WorkInv, AgentInv, AwaitInv, CopyInv, LeftInv
  <2>2. CASE AgentStep \/ AgentCrash
    BY Zenon, <2>2, AgentWork, SendWork DEF AgentStep
  <2>3. CASE \E i \in Slots : BrokerStep(i)
    BY Zenon, <2>3, RequestWork
  <2>4. CASE BrokerCrash \/ (\E i \in Slots : Late(i)) \/ (\E kind \in Kinds : Ask(kind))
    BY Zenon, <2>4, OutsideWork
  <2> QED BY Zenon, <2>1, <2>2, <2>3, <2>4 DEF Next
<1> QED BY <1>1, <1>2, PTL DEF Spec

\* A request that ends with success has brought the project up, or has removed its snapshot after a stop.
LEMMA EndOfRequest ==
  ASSUME IInv, NEW i \in Slots, BrokerStep(i), req[i].pc # "free", req'[i].pc = "free"
  PROVE  \E res \in {"ok", "rejected", "partial"} :
           /\ Reply(i, res)
           /\ res = "ok" => \/ req[i].pc = "wait" /\ project'.containers = "up" /\ UNCHANGED snap
                            \/ req[i].pc = "r_dir" /\ req[i].kind = "stop" /\ snap' = NoSnap /\ UNCHANGED project
<1>0. req \in [Slots -> Req]
  BY Zenon DEF IInv, Types
<1>a. \A p : ToPC(i, p) => req'[i].pc = p
  BY Zenon, <1>0 DEF ToPC, Req
<1>1. CASE ReadPolicy(i) \/ Probe(i) \/ Load(i) \/ RemoveFails(i)
  BY ZenonT(40), <1>a, <1>1 DEF ReadPolicy, Probe, Load, RemoveFails
<1>2. CASE Copied(i) \/ \E ok \in BOOLEAN : Absent(i, ok) \/ Up(i, ok)
  BY Zenon, <1>a, <1>2 DEF Copied, Absent, Up
<1>3. CASE \E s \in Secrets : CopySecret(i, s)
  <2> PICK s \in Secrets : CopySecret(i, s)
    BY Zenon, <1>3
  <2>1. req' = [req EXCEPT ![i].got[s] = staged[s]] => req'[i].pc = req[i].pc
    BY Zenon, <1>0 DEF Req
  <2> QED BY Zenon, <2>1 DEF CopySecret
<1>4. CASE Remove(i)
  BY ZenonT(40), <1>a, <1>4 DEF Remove, Removed, Removing
<1>5. CASE \E ok \in BOOLEAN : Publish(i, ok) \/ Down(i, ok) \/ Proof(i, ok) \/ Stop(i, ok)
  BY Zenon, <1>a, <1>5 DEF Publish, Down, AfterDown, Proof, Stop
<1>6. CASE \E ok, healthy \in BOOLEAN : Wait(i, ok, healthy)
  BY SMTT(30), <1>a, <1>6 DEF Wait
<1> QED BY Zenon, <1>1, <1>2, <1>3, <1>4, <1>5, <1>6 DEF BrokerStep

\* The step that answers the agent is one of its request, or the broker crashes.
LEMMA AnswerOf ==
  ASSUME IInv, Next, NEW i \in Slots, req[i].pc # "free", req'[i].pc = "free", agent.pc = "await"
  PROVE  BrokerStep(i) \/ (BrokerCrash /\ AfterAnswer("lost"))
<1>0. req \in [Slots -> Req]
  BY Zenon DEF IInv, Types
<1>1. req' # req
  BY Zenon
<1>2. CASE AgentStep \/ AgentCrash \/ \E kind \in Kinds : Ask(kind)
  <2>1. ~\E j \in Slots, volumes \in BOOLEAN : Send(j, volumes)
    BY Zenon DEF Send
  <2> QED BY Zenon, <1>1, <1>2, <2>1 DEF AgentStep, AgentCrash, Ask, Begin, Staged, RemoveDirectory, Cleaned, CleaningFails, GiveUp,
             Wipe, Stage, Render, Mark, MakeDirectory, Brokers
<1>3. CASE \E j \in Slots : Late(j)
  <2>1. \A j \in Slots : req' = [req EXCEPT ![j].late = TRUE] => req'[i].pc = req[i].pc
    BY <1>0 DEF Req
  <2> QED BY Zenon, <1>3, <2>1 DEF Late
<1>4. CASE \E j \in Slots : BrokerStep(j)
  <2> PICK j \in Slots : BrokerStep(j)
    BY Zenon, <1>4
  <2>1. ASSUME j # i PROVE FALSE
    <3>1. \A p : ToPC(j, p) => req'[i] = req[i]
      BY Zenon, <1>0, <2>1 DEF ToPC
    <3>2. \A res : Reply(j, res) => req'[i] = req[i]
      BY Zenon, <1>0, <2>1 DEF Reply
    <3>3. \A s \in Secrets : CopySecret(j, s) => req'[i] = req[i]
      BY Zenon, <1>0, <2>1, <3>2 DEF CopySecret
    <3>4. req'[i] = req[i]
      BY Zenon, <3>1, <3>2, <3>3 DEF BrokerStep, ReadPolicy, Probe, Copied, Load, Remove, Removed, RemoveFails, Publish, Absent, Up, Down,
         AfterDown, Proof, Stop, Wait, Removing
    <3> QED BY Zenon, <3>4
  <2> QED BY Zenon, <2>1
<1>5. CASE BrokerCrash
  BY Zenon, <1>5 DEF BrokerCrash
<1> QED BY Zenon, <1>2, <1>3, <1>4, <1>5 DEF Next

-----------------------------------------------------------------------------
(* The secrets in a snapshot *)

\* the steps of a removal before which every secret has been removed
Emptied == {"r_yaml", "r_meta", "r_dir"}

\* what has secrets in it can be loaded; with one request at work, only the first step of a removal finds any
SecretsInv ==
  /\ strays \in BOOLEAN
  /\ ~overlapped =>
       /\ snap.secrets # Gone => Loadable
       /\ \A i \in Slots : req[i].pc \in Emptied => snap.secrets = Gone

\* a step of one request touches no other request and leaves a Boolean in strays
LEMMA RequestFrame ==
  ASSUME IInv, strays \in BOOLEAN, NEW i \in Slots, BrokerStep(i)
  PROVE  /\ req[i].pc # "free" /\ overlapped' = overlapped /\ strays' \in BOOLEAN
         /\ \A j \in Slots \ {i} : req'[j] = req[j]
         /\ \A p : ToPC(i, p) => req'[i].pc = p
         /\ \A res : Reply(i, res) => req'[i].pc = "free"
<1>0. req \in [Slots -> Req]
  BY Zenon DEF IInv, Types
<1>1. \A p : ToPC(i, p) => req'[i].pc = p /\ \A j \in Slots \ {i} : req'[j] = req[j]
  BY Zenon, <1>0 DEF ToPC, Req
<1>2. \A res : Reply(i, res) => req'[i].pc = "free" /\ \A j \in Slots \ {i} : req'[j] = req[j]
  BY Zenon, <1>0, WorkRecords DEF Reply
<1>3. \A s \in Secrets : CopySecret(i, s) => \A j \in Slots \ {i} : req'[j] = req[j]
  BY Zenon, <1>0, <1>2 DEF CopySecret
<1>4. \A j \in Slots \ {i} : req'[j] = req[j]
  BY ZenonT(40), <1>1, <1>2, <1>3 DEF BrokerStep, ReadPolicy, Probe, Copied, Load, Remove, Removed, RemoveFails, Publish, Absent, Up,
     Down, AfterDown, Proof, Stop, Wait, Removing
<1>5. req[i].pc # "free" /\ overlapped' = overlapped
  BY ZenonT(40) DEF BrokerStep, ReadPolicy, Probe, Copied, Load, Remove, RemoveFails, CopySecret, Publish, Absent, Up,
     Down, Proof, Stop, Wait, Removing
<1>6. Discard(i) => strays' \in BOOLEAN
  BY Zenon DEF Discard
<1>7. strays' \in BOOLEAN
  BY ZenonT(40), <1>6 DEF BrokerStep, ReadPolicy, Probe, Copied, Load, Remove, RemoveFails, CopySecret, Publish, Absent, Up,
     Down, Proof, Stop, Wait
<1> QED BY Zenon, <1>1, <1>2, <1>4, <1>5, <1>7

\* createImmutableComposeSnapshot makes a snapshot that can be loaded, and removeImmutableComposeSnapshot takes the
\* secrets out of it first
LEMMA RequestSecrets ==
  ASSUME IInv, SecretsInv, NEW i \in Slots, BrokerStep(i)
  PROVE  SecretsInv'
<1>0. /\ req[i].pc # "free" /\ overlapped' = overlapped /\ strays' \in BOOLEAN
      /\ \A j \in Slots \ {i} : req'[j] = req[j]
      /\ \A p : ToPC(i, p) => req'[i].pc = p
      /\ \A res : Reply(i, res) => req'[i].pc = "free"
  BY Zenon, RequestFrame DEF SecretsInv
<1>a. "free" \notin Emptied /\ "copy" \notin Emptied /\ "r_secrets" \notin Emptied /\ "absent" \notin Emptied
  BY Zenon DEF Emptied
<1> SUFFICES ASSUME ~overlapped
             PROVE  (snap'.secrets # Gone => Loadable') /\ (req'[i].pc \in Emptied => snap'.secrets = Gone)
  <2>1. ~overlapped => \A j \in Slots \ {i} : req[j].pc = "free"
    BY Zenon, <1>0 DEF IInv, SnapshotInv
  <2> QED BY Zenon, <1>0, <1>a, <2>1 DEF SecretsInv
<1>b. (snap.secrets # Gone => Loadable) /\ (req[i].pc \in Emptied => snap.secrets = Gone) /\ snap \in Snapshot
  BY Zenon DEF SecretsInv, IInv, Types
<1>1. CASE UNCHANGED snap /\ req'[i].pc \notin Emptied
  BY Zenon, <1>1, <1>b DEF Loadable
<1>2. CASE Remove(i)
  <2>1. CASE req[i].pc = "r_secrets" /\ snap.secrets # Gone
    <3>1. PICK s \in Secrets : snap' = [snap EXCEPT !.secrets[s] = Wiped(@)] /\ UNCHANGED req
      BY Zenon, <1>2, <2>1 DEF Remove, RemoveSecret
    <3>2. snap'.dir = snap.dir /\ snap'.yaml = snap.yaml /\ snap'.meta = snap.meta
      BY Zenon, <1>b, <3>1 DEF Snapshot
    <3> QED BY Zenon, <1>a, <1>b, <2>1, <3>1, <3>2 DEF Loadable
  <2>2. CASE req[i].pc = "r_secrets" /\ snap.secrets = Gone
    <3>1. UNCHANGED snap
      BY Zenon, <1>2, <2>2 DEF Remove
    <3> QED BY Zenon, <2>2, <3>1
  <2>3. CASE req[i].pc \in {"r_yaml", "r_meta"}
    <3>1. snap' = [snap EXCEPT !.yaml = FALSE] \/ snap' = [snap EXCEPT !.meta = FALSE]
      BY Zenon, <1>2, <2>3 DEF Remove
    <3>2. snap'.secrets = snap.secrets
      BY Zenon, <1>b, <3>1 DEF Snapshot
    <3> QED BY Zenon, <1>b, <2>3, <3>2 DEF Emptied
  <2>4. CASE req[i].pc = "r_dir"
    <3>1. snap' = NoSnap \/ UNCHANGED snap
      BY Zenon, <1>2, <2>4 DEF Remove
    <3> QED BY Zenon, <1>b, <2>4, <3>1, WorkRecords DEF Emptied
  <2> QED BY Zenon, <1>2, <2>1, <2>2, <2>3, <2>4 DEF Remove, Removing
<1>3. CASE \E ok \in BOOLEAN : Publish(i, ok)
  <2> PICK ok \in BOOLEAN : Publish(i, ok)
    BY Zenon, <1>3
  <2>1. CASE ok /\ NothingIn
    <3>1. snap' = [dir |-> TRUE, yaml |-> TRUE, meta |-> TRUE, secrets |-> req[i].got] /\ req'[i].pc = "absent"
      BY Zenon, <1>0, <2>1 DEF Publish
    <3> QED BY Zenon, <1>a, <3>1 DEF Loadable
  <2>2. CASE ~(ok /\ NothingIn)
    BY Zenon, <1>0, <1>1, <1>a, <2>2 DEF Publish
  <2> QED BY Zenon, <2>1, <2>2
<1>4. CASE \E s \in Secrets : CopySecret(i, s)
  <2> PICK s \in Secrets : CopySecret(i, s)
    BY Zenon, <1>4
  <2>1. req' = [req EXCEPT ![i].got[s] = staged[s]] => req'[i].pc = req[i].pc
    BY Zenon DEF IInv, Types, Req
  <2> QED BY Zenon, <1>0, <1>1, <1>a, <2>1 DEF CopySecret
<1>5. CASE ReadPolicy(i) \/ Probe(i) \/ Copied(i) \/ Load(i) \/ RemoveFails(i)
  <2>1. UNCHANGED snap /\ req'[i].pc \in {"free", "probe", "copy", "publish", "stop"}
    BY Zenon, <1>0, <1>5 DEF ReadPolicy, Probe, Copied, Load, RemoveFails
  <2> QED BY Zenon, <1>1, <2>1 DEF Emptied
<1>6. CASE \E ok \in BOOLEAN : Absent(i, ok) \/ Up(i, ok) \/ Down(i, ok) \/ Proof(i, ok) \/ Stop(i, ok)
                              \/ \E healthy \in BOOLEAN : Wait(i, ok, healthy)
  <2>1. UNCHANGED snap /\ req'[i].pc \in {"free", "up", "wait", "down", "proof", "r_secrets"}
    BY ZenonT(40), <1>0, <1>6 DEF Absent, Up, Down, AfterDown, Proof, Stop, Wait
  <2> QED BY Zenon, <1>1, <2>1 DEF Emptied
<1> QED BY Zenon, <1>2, <1>3, <1>4, <1>5, <1>6 DEF BrokerStep

LEMMA SecretsInvariant == Spec => [](IInv /\ SecretsInv)
<1>1. Init => IInv /\ SecretsInv
  <2> SUFFICES ASSUME Init PROVE SecretsInv
    BY Zenon, InitIInv
  <2>1. snap.secrets = Gone /\ strays = FALSE
    BY Zenon, WorkRecords DEF Init
  <2> QED BY Zenon, <2>1 DEF SecretsInv
<1>2. IInv /\ SecretsInv /\ [Next]_vars => (IInv /\ SecretsInv)'
  <2> SUFFICES ASSUME IInv, SecretsInv, [Next]_vars PROVE SecretsInv'
    BY Zenon, NextIInv
  <2>0. req \in [Slots -> Req]
    BY Zenon DEF IInv, Types
  \* a step that leaves the snapshot alone and takes no request to a later step of a removal
  <2>1. ASSUME UNCHANGED snap, strays' \in BOOLEAN, ~overlapped' => ~overlapped,
               \A i \in Slots : req'[i].pc \in Emptied => req[i].pc \in Emptied
        PROVE  SecretsInv'
    BY Zenon, <2>1 DEF SecretsInv, Loadable
  <2>2. CASE UNCHANGED Brokers
    BY Zenon, <2>1, <2>2 DEF Brokers, SecretsInv
  <2>3. CASE \E i \in Slots, volumes \in BOOLEAN : Send(i, volumes)
    <3> PICK i \in Slots, volumes \in BOOLEAN : Send(i, volumes)
      BY Zenon, <2>3
    <3> DEFINE r == [NoReq EXCEPT !.pc = IF agent.kind = "start" THEN "policy" ELSE "load", !.kind = agent.kind, !.volumes = volumes]
    <3>1. r.pc \in {"policy", "load"}
      BY Zenon DEF NoReq
    <3>2. req' = [req EXCEPT ![i] = r] /\ UNCHANGED <<snap, strays>>
      BY Zenon DEF Send
    <3> HIDE DEF r
    <3>3. req'[i] = r /\ \A j \in Slots \ {i} : req'[j] = req[j]
      BY Zenon, <2>0, <3>2
    <3>4. req'[i].pc \notin Emptied
      BY Zenon, <3>1, <3>3 DEF Emptied
    <3>5. ~overlapped' => ~overlapped
      BY ZenonT(40) DEF Send
    <3>6. strays' \in BOOLEAN
      BY Zenon, <3>2 DEF SecretsInv
    <3> QED BY Zenon, <2>1, <3>2, <3>3, <3>4, <3>5, <3>6
  <2>4. CASE \E i \in Slots : BrokerStep(i)
    BY Zenon, <2>4, RequestSecrets
  <2>5. CASE \E i \in Slots : Late(i)
    <3> PICK i \in Slots : Late(i)
      BY Zenon, <2>5
    <3>1. \A j \in Slots : req'[j].pc = req[j].pc
      BY Zenon, <2>0 DEF Late, Req
    <3>2. UNCHANGED <<snap, strays, overlapped>>
      BY Zenon DEF Late
    <3> QED BY Zenon, <2>1, <3>1, <3>2 DEF SecretsInv
  <2>6. CASE BrokerCrash
    <3>1. \A i \in Slots : req'[i].pc = "free"
      BY Zenon, <2>6, WorkRecords DEF BrokerCrash
    <3>2. UNCHANGED <<snap, overlapped>> /\ strays' \in BOOLEAN
      BY Zenon, <2>6 DEF BrokerCrash
    <3> QED BY Zenon, <2>1, <3>1, <3>2 DEF Emptied
  <2>7. CASE AgentStep \/ AgentCrash \/ \E kind \in Kinds : Ask(kind)
    BY Zenon, <2>2, <2>3, <2>7 DEF AgentStep, AgentCrash, Ask, Begin, Staged, RemoveDirectory, Cleaned, CleaningFails, GiveUp,
       Wipe, Stage, Render, Mark, MakeDirectory
  <2>8. CASE UNCHANGED vars
    BY Zenon, <2>2, <2>8 DEF vars, Brokers
  <2> QED BY Zenon, <2>3, <2>4, <2>5, <2>6, <2>7, <2>8 DEF Next
<1> QED BY <1>1, <1>2, PTL DEF Spec

-----------------------------------------------------------------------------
(* The theorems *)

\* For any secrets and any number of failures and crashes, there is no state in which stageComposeRuntimeSecrets
\* has its staging directory and the clean-up marker is not on disk.
THEOREM MarkerAlways == Spec => []MarkerCovers
<1>1. IInv => MarkerCovers
  BY Zenon DEF IInv, MarkerInv, MarkerCovers
<1> QED BY <1>1, InitIInv, NextIInv, PTL DEF Spec

\* For any number of requests, failures, deadlines and crashes, docker never has containers of the project without
\* a snapshot that composeStop can load, as long as composeStart and composeStop have not been at work together.
THEOREM SnapshotAlways == Spec => []UpHasSnapshot
<1>1. IInv => UpHasSnapshot
  BY Zenon DEF IInv, SnapshotInv, UpHasSnapshot
<1> QED BY <1>1, InitIInv, NextIInv, PTL DEF Spec

\* Wherever composeStart, composeStop or the broker stops, a snapshot with secrets in it has the metadata and the
\* document that composeStop needs to remove it: removeImmutableComposeSnapshot takes the secrets first.  Again as
\* long as composeStart and composeStop have not been at work together.
THEOREM SecretsAlwaysRemovable == Spec => []SecretsRemovable
<1>1. IInv /\ SecretsInv => SecretsRemovable
  BY Zenon DEF SecretsInv, SecretsRemovable
<1> QED BY <1>1, SecretsInvariant, PTL

\* The types of the Compose runtime; no secret of a snapshot or of the agent lies outside its directory.
THEOREM ComposeTypes == Spec => []TypeOK
<1>1. IInv /\ WorkInv /\ SecretsInv => TypeOK
  BY Zenon DEF IInv, Types, WorkInv, LeftInv, SecretsInv, TypeOK
<1> QED BY <1>1, WorkInvariant, SecretsInvariant, PTL

\* For any number of requests, failures, deadlines and crashes: when the agent gets the answer that its start has
\* succeeded, the project is up from a snapshot with the very secrets it had staged, and when it gets the answer
\* that its stop has succeeded, neither containers nor snapshot are left, as long as composeStart and composeStop
\* have not been at work together.
THEOREM ReportsTrue == Spec => ReportTrue
<1> DEFINE A == ~overlapped =>
                  /\ Answered("start") /\ Success("start") => project'.containers = "up" /\ Loadable' /\ snap'.secrets = Real
                  /\ Answered("stop") /\ Success("stop") => project'.containers = "none" /\ ~snap'.dir
<1>1. ASSUME IInv, WorkInv, Next PROVE A
  <2> SUFFICES ASSUME ~overlapped, NEW kind \in {"start", "stop"}, Answered(kind), Success(kind)
               PROVE  /\ kind = "start" => project'.containers = "up" /\ Loadable' /\ snap'.secrets = Real
                      /\ kind = "stop" => project'.containers = "none" /\ ~snap'.dir
    BY Zenon
  <2>0. /\ Types /\ AgentInv /\ agent.pc = "await" /\ agent.kind = kind /\ want = kind
    BY Zenon, <1>1 DEF IInv, WorkInv, AgentInv, Answered
  <2>1. PICK i \in Slots : agent.slot = i /\ req[i].pc # "free" /\ req'[i].pc = "free"
    BY Zenon DEF Answered
  <2>2. ASSUME NEW res, AfterAnswer(res), UNCHANGED <<staged, stagingDir>> PROVE res = "ok"
    <3>1. (kind = "start" => agent'.res = res) /\ (kind # "start" /\ res # "ok" => want' = want)
      BY Zenon, <2>0, <2>2, AnswerWork
    <3>2. want # None
      BY Zenon, <2>0, ComposeAssumption DEF Kinds
    <3> QED BY Zenon, <2>0, <3>1, <3>2 DEF Success
  <2>3. BrokerStep(i)
    BY Zenon, <1>1, <2>0, <2>1, <2>2, AnswerOf DEF BrokerCrash, Agents, staging
  <2>4. UNCHANGED <<staged, stagingDir>>
    BY ZenonT(40), <2>3 DEF BrokerStep, ReadPolicy, Probe, Copied, Load, Remove, RemoveFails, CopySecret, Publish, Absent, Up, Down, Proof, Stop, Wait,
       Agents, staging
  <2>5. PICK res \in {"ok", "rejected", "partial"} :
          /\ Reply(i, res)
          /\ res = "ok" => \/ req[i].pc = "wait" /\ project'.containers = "up" /\ UNCHANGED snap
                           \/ req[i].pc = "r_dir" /\ req[i].kind = "stop" /\ snap' = NoSnap /\ UNCHANGED project
    BY ZenonT(40), <1>1, <2>1, <2>3, EndOfRequest
  <2>6. res = "ok"
    BY Zenon, <2>0, <2>1, <2>2, <2>4, <2>5 DEF Reply
  <2>7. req[i].kind = kind /\ req[i].pc \in StepsOf(kind)
    BY Zenon, <1>1, <2>0, <2>1 DEF WorkInv, AwaitInv
  <2>8. CASE kind = "start"
    <3>1. req[i].pc = "wait" /\ project'.containers = "up" /\ UNCHANGED snap
      BY Zenon, <2>5, <2>6, <2>7, <2>8
    <3>2. Loadable /\ snap.secrets = Real
      BY Zenon, <1>1, <2>0, <2>1, <2>8, <3>1 DEF IInv, SnapshotInv, Held, WorkInv, CopyInv
    <3> QED BY Zenon, <2>8, <3>1, <3>2 DEF Loadable
  <2>9. CASE kind = "stop"
    <3>1. req[i].pc = "r_dir" /\ snap' = NoSnap /\ UNCHANGED project
      BY Zenon, <2>5, <2>6, <2>7, <2>9 DEF StepsOf, Removing
    <3>2. project.containers = "none"
      BY Zenon, <1>1, <3>1 DEF IInv, SnapshotInv, Bare, Removing
    <3> QED BY Zenon, <2>9, <3>1, <3>2, WorkRecords
  <2> QED BY Zenon, <2>8, <2>9
<1>2. IInv /\ WorkInv /\ [Next]_vars => [A]_vars
  BY Zenon, <1>1
<1> QED BY <1>2, WorkInvariant, PTL DEF Spec, ReportTrue
=============================================================================
