----------------------------- MODULE MCFileSwap -----------------------------
(* Two migrations with the same target, two source trees. *)
EXTENDS FileSwap, TLC

CONSTANTS m1, m2, v1, v2
=============================================================================
