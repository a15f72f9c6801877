---------------------------- MODULE Arbitration ----------------------------
(***************************************************************************)
(* Shard disagreement rules (src/shards/arbitration.py) and the middleware *)
(* that turns them into one decision (src/constraints/                     *)
(* constraint_middleware.py), as operators over the set of failing shards. *)
(*                                                                         *)
(* The notes, scores and order of an ArbitrationResult are left out.       *)
(***************************************************************************)
EXTENDS Naturals, FiniteSets

CONSTANTS
    Shards,          \* the rubrics of the set in force
    Hard,            \* those of kind "hard"
    ConflictPairs    \* pairs {left, right} that _conflict_pairs collects

ASSUME ShardsAssumption ==
    /\ Hard \subseteq Shards
    /\ ConflictPairs \subseteq SUBSET Shards

HardFailing(failing) == failing \cap Hard

Irreconcilable(failing) ==
    /\ Cardinality(HardFailing(failing)) >= 2
    /\ \E pair \in ConflictPairs : pair \subseteq HardFailing(failing)

Arbitrate(failing) ==
    [verdict        |-> IF failing = {} THEN "pass" ELSE "fail",
     veto           |-> HardFailing(failing) # {},
     irreconcilable |-> Irreconcilable(failing),
     targets        |-> failing]

-----------------------------------------------------------------------------

\* What decide returns.
Ruled(action, reason) == [action |-> action, reason |-> reason]

CanRevise(round, rounds) == round < rounds

\* Bug: the veto is forgotten.
NoRoundLeftForgetsVeto(failing) == Ruled("revise", "soft shard still failing; returning last revision")

NoRoundLeft(failing) ==
    IF HardFailing(failing) # {}
    THEN Ruled("refuse", "hard shard still failing after revision budget")
    ELSE Ruled("revise", "soft shard still failing; returning last revision")

\* Bug: irreconcilable shards are looked at when no round is left.
DecideRevisesFirst(failing, round, rounds, timedOut) ==
    IF timedOut THEN Ruled("timeout", "timeout")
    ELSE IF failing = {} THEN Ruled("accept", "all shards passed")
    ELSE IF CanRevise(round, rounds) THEN Ruled("revise", "revision requested")
    ELSE IF Irreconcilable(failing) THEN Ruled("refuse", "irreconcilable hard shards")
    ELSE NoRoundLeft(failing)

\* ConstraintMiddleware.decide.  No caller passes budget_exhausted = True.
Decide(failing, round, rounds, timedOut) ==
    IF timedOut THEN Ruled("timeout", "timeout")
    ELSE IF failing = {} THEN Ruled("accept", "all shards passed")
    ELSE IF Irreconcilable(failing) THEN Ruled("refuse", "irreconcilable hard shards")
    ELSE IF CanRevise(round, rounds) THEN Ruled("revise", "revision requested")
    ELSE NoRoundLeft(failing)
=============================================================================
