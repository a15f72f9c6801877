---------------------------- MODULE ShardScoring ----------------------------
(***************************************************************************)
(* What the rubrics say of a text: ShardEvaluator (src/shards/             *)
(* shard_evaluator.py) scores every rubric of a set, criterion by          *)
(* criterion.  Pure operators.                                             *)
(*                                                                         *)
(* Weights, scores and thresholds are in hundredths, as the rubrics write  *)
(* them; the evaluator's tolerance of 1e-9 makes its floats exact at that  *)
(* grain.  A text is the set of criteria it fails: what the regular        *)
(* expressions match is not modelled.                                      *)
(***************************************************************************)
EXTENDS Integers, FiniteSets, FiniteSetsExt, SequencesExt

CONSTANT Rubrics  \* shard -> [kind, threshold, criteria]; criteria is a
                  \* sequence of [id, weight]

Full == 100

Shards == DOMAIN Rubrics
Hard == {s \in Shards : Rubrics[s].kind = "hard"}
Listed(s) == {Rubrics[s].criteria[i].id : i \in 1..Len(Rubrics[s].criteria)}
CriterionIds == UNION {Listed(s) : s \in Shards}

ASSUME RubricsAssumption ==
    \A s \in Shards : /\ Rubrics[s].kind \in {"hard", "soft"}
                      /\ Len(Rubrics[s].criteria) > 0

\* _conflict_pairs, for conflictsWith: criterion -> the shards it lists.  Every
\* criterion of every rubric counts, failed or not.
Pairs(conflictsWith) ==
    UNION {{{s, other} : other \in UNION {conflictsWith[id] : id \in Listed(s)}} : s \in Shards}

Clamped(score) == IF score < 0 THEN 0 ELSE IF score > Full THEN Full ELSE score

\* Bug: a failed criterion sets the score instead of lowering it.
ScoreOfLastFailure(s, f) ==
    Clamped(FoldLeft(LAMBDA score, c : IF c.id \in f THEN Full - c.weight ELSE score,
                     Full, Rubrics[s].criteria))

Weights(s) == [i \in DOMAIN Rubrics[s].criteria |-> Rubrics[s].criteria[i].weight]
FailedOf(s, f) == {i \in DOMAIN Rubrics[s].criteria : Rubrics[s].criteria[i].id \in f}

\* _score_rubric: the weight of each failed criterion comes off; the score is
\* clamped once, after the last.
Score(s, f) == Clamped(Full - SumFunctionOnSet(Weights(s), FailedOf(s, f)))

\* Bug: hard shards are held to the threshold of soft ones.
PassesOneThreshold(s, score) == score >= 70

\* passed of a ShardScore, as the evaluator and the wall derive it.
Passes(s, score) == score >= Rubrics[s].threshold

Failing(scores) == {s \in Shards : ~Passes(s, scores[s])}
=============================================================================
