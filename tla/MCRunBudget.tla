---------------------------- MODULE MCRunBudget ----------------------------
(* Small instances of RunBudget for TLC. *)
EXTENDS RunBudget

CONSTANTS t1, t2
============================================================================
