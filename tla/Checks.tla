------------------------------- MODULE Checks -------------------------------
(***************************************************************************)
(* A function of the code that refuses at its first failing check, as the  *)
(* sequence of its checks: each holds or names the refusal it stands for.  *)
(***************************************************************************)
EXTENDS Naturals, Sequences

Check(holds, refusal) == [holds |-> holds, refusal |-> refusal]

FailedChecks(checks) == {i \in DOMAIN checks : ~checks[i].holds}

\* "ok", or the refusal of the first check that fails.
FirstRefusal(checks) ==
    LET failed == FailedChecks(checks) IN
    IF failed = {} THEN "ok"
    ELSE checks[CHOOSE i \in failed : \A j \in failed : i <= j].refusal
=============================================================================
