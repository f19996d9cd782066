--------------------------- MODULE MCFileTransfer ---------------------------
(* A file of two chunks and a file of one. *)
EXTENDS FileTransfer, TLC

TwoFiles == <<2, 1>>
=============================================================================
