--------------------------- MODULE MCBrokerAccept ---------------------------
(* Three envelopes, two of them of one domain, and connections for each. *)
EXTENDS BrokerAccept, TLC

CONSTANTS c1, c2, c3, t1, t2, t3, host, compose

MCDomain == t1 :> host @@ t2 :> host @@ t3 :> compose
MCToken == t1 :> 1 @@ t2 :> 2 @@ t3 :> 1
MCExpiry == t1 :> 1 @@ t2 :> 2 @@ t3 :> 2
PermConns == Permutations(Conns)
=============================================================================
