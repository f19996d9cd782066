---------------------------- MODULE MCTaskRunner ----------------------------
(* Two envelopes, one of which expires before the other. *)
EXTENDS TaskRunner, TLC

CONSTANTS t1, t2

MCExpiry == [t \in Tasks |-> IF t = t1 THEN 0 ELSE 1]
=============================================================================
