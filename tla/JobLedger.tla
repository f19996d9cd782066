----------------------------- MODULE JobLedger ------------------------------
(***************************************************************************)
(* What the agent promises about an audit job of the backend, whatever     *)
(* happens to its handlers, its result cache and its requests: only a      *)
(* result that was produced is answered, one execution at a time, and an   *)
(* answered job is never executed again.  A job is "waiting", "running",    *)
(* "held" with a result, or "answered".                                   *)
(***************************************************************************)
CONSTANT Jobs

VARIABLE ledger

Init == ledger = [j \in Jobs |-> "waiting"]

Move(j, from, to) == ledger[j] \in from /\ ledger' = [ledger EXCEPT ![j] = to]

\* a result that cannot be read from the cache is produced again
Run(j) == Move(j, {"waiting", "held"}, "running")
Produce(j) == Move(j, {"running"}, "held")
Answer(j) == Move(j, {"held"}, "answered")

\* results that were not saved and executions that were interrupted are lost,
\* but an interrupted execution may leave an older result in the cache
Lose(S, K) ==
  /\ \A j \in S : ledger[j] \in {"running", "held"}
  /\ \A j \in K : ledger[j] = "running"
  /\ ledger' = [j \in Jobs |-> IF j \in K THEN "held" ELSE IF j \in S THEN "waiting" ELSE ledger[j]]

Next ==
  \/ \E j \in Jobs : Run(j) \/ Produce(j) \/ Answer(j)
  \/ \E S, K \in SUBSET Jobs : Lose(S, K)

Spec == Init /\ [][Next]_ledger
=============================================================================
