-------------------------- MODULE MCComposeRuntime --------------------------
(* Two secrets, two requests at work in the broker. *)
EXTENDS ComposeRuntime, TLC
=============================================================================
