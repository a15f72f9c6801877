-------------------------- MODULE MCSessionCommit --------------------------
(* Small instances of SessionCommit for TLC. *)
EXTENDS SessionCommit

CONSTANTS p1, p2
=============================================================================
