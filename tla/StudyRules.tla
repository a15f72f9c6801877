----------------------------- MODULE StudyRules -----------------------------
(***************************************************************************)
(* What the offline study (src/stage2d, src/experiment.py) computes about  *)
(* its cases: the loaders, the independent constraint checker, the metrics *)
(* of a run and the comparison of C and D.                                 *)
(* Pure operators.                                                         *)
(*                                                                         *)
(* A line of a fixture is a record of what the loaders look at, with form  *)
(* "blank" or "not_json" where it is none.  A text is what can be told of  *)
(* it: the tells (regular expressions) it matches and the shards it fails. *)
(***************************************************************************)
EXTENDS Integers, Sequences, FiniteSets, FiniteSetsExt, SequencesExt, Checks

CONSTANTS
    None,
    Principles,      \* STAGE2D_PRINCIPLES; a principle stands for its shard
    Categories,      \* STAGE2D_CATEGORIES, in order
    FrozenTerminals

ASSUME RulesAssumption == Principles # {} /\ IsInjective(Categories) /\ FrozenTerminals # {}

-----------------------------------------------------------------------------
(* The loaders (schema.py, experiment.py). *)

\* parse_expected_constraint.
ConstraintRefusal(c) == FirstRefusal(<<
    Check(c.complete, "constraint_fields"),
    Check(c.principle \in Principles, "constraint_principle"),
    Check(c.kind \in {"must", "must_not"}, "constraint_kind")>>)

\* parse_case: gold notes stay in their own file.
CaseRefusal(l) == FirstRefusal(<<
    Check(l.complete, "fields"),
    Check(~l.gold, "gold_notes"),
    Check(l.category \in ToSet(Categories), "category"),
    Check(l.principles # << >> /\ ToSet(l.principles) \subseteq Principles, "principles"),
    Check(l.terminals # {} /\ l.terminals \subseteq FrozenTerminals, "terminals"),
    Check(l.constraints # << >>, "no_constraints"),
    Check(\A k \in DOMAIN l.constraints : ConstraintRefusal(l.constraints[k]) = "ok", "constraint"),
    Check(l.favors, "favors")>>)

\* load_cases of experiment.py, which asks for an id and a prompt.
PromptRefusal(l) == FirstRefusal(<<
    Check(l.complete, "fields"),
    Check(ToSet(l.principles) \subseteq Principles, "specified_shards"),
    Check(l.category \in ToSet(Categories) \cup {None}, "category")>>)

LineRefusal(kind, l) ==
    IF l.form = "not_json" THEN "not_json"
    ELSE IF kind = "stage2d" THEN CaseRefusal(l) ELSE PromptRefusal(l)

Written(lines) == {k \in DOMAIN lines : lines[k].form # "blank"}

\* The lines that are not blank, in their order.
Cases(lines) ==
    LET written == Written(lines)
        Place(k) == Cardinality({j \in written : j <= k})
    IN  [i \in 1..Cardinality(written) |-> lines[CHOOSE k \in written : Place(k) = i]]

\* A line is refused for itself or, in stage 2D, for an id that came before.
LineRefused(kind, lines, k) ==
    \/ LineRefusal(kind, lines[k]) # "ok"
    \/ kind = "stage2d" /\ \E j \in Written(lines) : j < k /\ lines[j].id = lines[k].id

\* load_cases of either; the fixture is None where there is no file.
LoadRefusal(kind, fixture) ==
    IF fixture = None THEN "not_found"
    ELSE IF \E k \in Written(fixture) : LineRefused(kind, fixture, k) THEN "line"
    ELSE IF Written(fixture) = {} THEN "empty" ELSE "ok"

-----------------------------------------------------------------------------
(* The independent constraint checker (icc.py). *)

\* check_constraint: TRUE, FALSE, or None for the reviewer alone.
CheckConstraint(c, text) ==
    IF c.reviewerOnly \/ c.fail \cup c.pass = {} THEN "reviewer"
    ELSE IF c.fail \cap text.tells # {} THEN "failed"
    ELSE IF c.kind = "must" /\ c.pass # {} /\ c.pass \cap text.tells = {} THEN "failed"
    ELSE "passed"

\* n_failed of check_case.
IccFailed(case, text) ==
    Cardinality({k \in DOMAIN case.constraints : CheckConstraint(case.constraints[k], text) = "failed"})

-----------------------------------------------------------------------------
(* Metrics (metrics.py, stage2d/metrics.py).  A rate is the number of rows it *)
(* counts; dividing by the number of rows and rounding is left out.           *)

Violations(case, text) == Cardinality(ToSet(case.principles) \cap text.fails)

\* item_metrics and stage2d_item_row.
ItemRow(case, text, terminal, calls, usd) ==
    [id |-> case.id, calls |-> calls, usd |-> usd, terminal |-> terminal,
     violations |-> Violations(case, text), icc |-> IccFailed(case, text)]

Total(rows, field(_)) == SumFunction([k \in DOMAIN rows |-> field(rows[k])])
CountIf(rows, test(_)) == Len(SelectSeq(rows, test))

\* summarize and summarize_stage2d.
Summarize(rows) ==
    [n |-> Len(rows),
     violating |-> CountIf(rows, LAMBDA r : r.violations > 0),
     iccFailing |-> CountIf(rows, LAMBDA r : r.icc > 0),
     calls |-> Total(rows, LAMBDA r : r.calls),
     usd |-> Total(rows, LAMBDA r : r.usd)]

\* compare_primary and compare_c_vs_d.
Compare(results) ==
    IF {"C", "D"} \subseteq DOMAIN results
    THEN [available |-> TRUE, c |-> results["C"].summary, d |-> results["D"].summary]
    ELSE [available |-> FALSE, c |-> None, d |-> None]
=============================================================================
