----------------------------- MODULE Judgement -----------------------------
(***************************************************************************)
(* How one text is judged: by the frozen evaluator or one the caller       *)
(* brings, bound and guarded (ai4/constrain/ext.py), behind the policy     *)
(* wall (evaluator_wall.py); on the hybrid path also by an examiner, whose *)
(* findings are fused into the scores (SemanticFindings), which pass the   *)
(* wall again (_v07_3a/rebuild.py); then by arbitration.                   *)
(*                                                                         *)
(* Ways of judging: "library" is src's ShardEvaluator with rubrics of the  *)
(* caller's conflicts, "constrained" is evaluate() and each round of       *)
(* run(), "hybrid" a round of run_governing_loop.                          *)
(*                                                                         *)
(* An evaluator is [kind, id, rubrics, answers]: kind is "packaged",       *)
(* "name" or "custom", answers what it returns for the preflight probe and *)
(* then for the text.  An answer is None or a sequence of [shard, score,   *)
(* passed], as claimed.                                                    *)
(***************************************************************************)
EXTENDS SemanticFindings

CONSTANTS
    None,
    NaN,          \* a float that is no number
    FrozenId,     \* "v0.1-regex"
    Reserved,     \* RESERVED_EVALUATOR_IDENTITIES
    Evaluators,   \* evaluators the caller may bring
    FailedSets,   \* sets of criteria a text may fail
    Listings,     \* the relations conflicts_with may be: criterion -> shards
    Results,      \* what the examiner backend may answer
    Installed     \* policy maps that may be installed

ASSUME InputsAssumption ==
    /\ FailedSets \subseteq SUBSET CriterionIds
    /\ Listings \subseteq [CriterionIds -> SUBSET Shards]
    /\ \A r \in Results :
        r.payload # Absent =>
            /\ r.payload.findings \in Seq(ToSet(r.payload.findings))
            /\ \A f \in ToSet(r.payload.findings) :
                {"id", "class", "bin", "start", "end"} \subseteq DOMAIN f /\ f.id \in Nat

\* What the packaged files say, whatever their numbers: every criterion weighs
\* something and a hard shard asks for all of them (rubrics/v0.1); no finding
\* bears on a hard shard, and none costs less for more confidence
\* (ai4/data/semantic_v07).
ASSUME PackagedAssumption ==
    /\ IsFiniteSet(Shards)
    /\ \A s \in Shards :
        /\ Rubrics[s].threshold \in Int
        /\ Rubrics[s].criteria \in Seq([id : CriterionIds, weight : Nat \ {0}])
    /\ \A s \in Hard : Rubrics[s].threshold = Full
    /\ LockedMap.caps \in [Shards -> Nat]
    /\ \A c \in Classes :
        LET mapping == LockedMap.mappings[c] IN
        /\ ToSet(mapping.shards) \cap Hard = {}
        /\ \A s \in ToSet(mapping.shards), a, b \in ToSet(Bins) :
            Rank(a) <= Rank(b) => mapping.deltas[a][s] <= mapping.deltas[b][s]

VARIABLES
    way,            \* "library", "constrained" or "hybrid"
    evaluator,
    conflictsWith,  \* conflicts_with of the rubrics in force
    stage,
    failed,         \* criteria the text fails
    scored,         \* what the evaluator scored, behind the wall
    result,         \* the answer of the examiner backend
    findings,       \* bound findings, none off the hybrid path
    error,
    outcome         \* what arbitrate returned

vars == <<way, evaluator, conflictsWith, stage, failed, scored, result, findings, error, outcome>>

A == INSTANCE Arbitration WITH ConflictPairs <- Pairs(conflictsWith)

NoConflicts == [id \in CriterionIds |-> {}]
NotArbitrated == [verdict |-> "none", veto |-> FALSE, irreconcilable |-> FALSE, targets |-> {}]

-----------------------------------------------------------------------------
(* The wall. *)

ShardsOf(answer) == [k \in DOMAIN answer |-> answer[k].shard]

\* assert_complete_evaluation, overlay_packaged_policy: each shard once, with a
\* score that is a number of [0, 1].
WallRefusal(answer) ==
    IF answer = None THEN "no_evaluation"
    ELSE FirstRefusal(<<
        Check(Distinct(ShardsOf(answer)) /\ ToSet(ShardsOf(answer)) = Shards, "shards"),
        Check(\A k \in DOMAIN answer : answer[k].score # NaN, "not_finite"),
        Check(\A k \in DOMAIN answer : answer[k].score \in 0..Full, "range")>>)

ScoreIn(answer, s) == answer[CHOOSE k \in DOMAIN answer : answer[k].shard = s].score

\* Of each entry only the score counts; passed is derived from it.
Overlaid(answer) == [s \in Shards |-> ScoreIn(answer, s)]

\* bind_evaluator: identity, reserved identities, exposed rubrics, preflight.
BindRefusalOf(e) ==
    IF e.id = None THEN "no_identity"
    ELSE IF e.kind = "name" /\ e.id # FrozenId THEN "unknown"
    ELSE IF e.kind = "custom" /\ e.id = FrozenId THEN "spoofed"
    ELSE IF e.id \in Reserved THEN "reserved"
    ELSE IF e.rubrics = "other" THEN "rubrics"
    ELSE IF e.kind = "custom" THEN WallRefusal(e.answers[1])
    ELSE "ok"

\* What the frozen evaluator returns for a text.
FrozenScores(f) == [s \in Shards |-> Score(s, f)]

-----------------------------------------------------------------------------

Init ==
    /\ way \in {"library", "constrained", "hybrid"}
    /\ evaluator \in IF way = "library" THEN {e \in Evaluators : e.kind = "packaged"} ELSE Evaluators
    /\ conflictsWith \in IF way = "library" THEN Listings ELSE {NoConflicts}
    /\ stage = IF way = "library" THEN "evaluate" ELSE "bind"
    /\ failed = {} /\ scored = None /\ result = None /\ findings = << >>
    /\ error = "none" /\ outcome = NotArbitrated

Raise(why) == stage' = "raised" /\ error' = why

Bind ==
    /\ stage = "bind"
    /\ IF BindRefusalOf(evaluator) # "ok" THEN Raise(BindRefusalOf(evaluator))
       ELSE stage' = "evaluate" /\ UNCHANGED error
    /\ UNCHANGED <<way, evaluator, conflictsWith, failed, scored, result, findings, outcome>>

\* After an evaluation the examiner looks at the text, or arbitration follows.
Scored(scores) ==
    /\ scored' = scores
    /\ stage' = IF way = "hybrid" THEN "observe" ELSE "arbitrate"

\* FrozenV01RegexEvaluator and ShardEvaluator.
EvaluateFrozen ==
    /\ stage = "evaluate" /\ evaluator.kind \in {"packaged", "name"}
    /\ failed' \in FailedSets
    /\ Scored(FrozenScores(failed'))
    /\ UNCHANGED <<way, evaluator, conflictsWith, result, findings, error, outcome>>

\* GuardedEvaluator.evaluate over an evaluator of the caller's.
EvaluateCustom ==
    /\ stage = "evaluate" /\ evaluator.kind = "custom"
    /\ IF WallRefusal(evaluator.answers[2]) # "ok"
       THEN Raise(WallRefusal(evaluator.answers[2])) /\ UNCHANGED scored
       ELSE Scored(Overlaid(evaluator.answers[2])) /\ UNCHANGED error
    /\ UNCHANGED <<way, evaluator, conflictsWith, failed, result, findings, outcome>>

\* Bug: a failure the examiner reports is an answer without findings.
HeardAsEmpty(r) == IF ObserveRefusal(r) # "ok" THEN ObserveRefusal(r) ELSE "ok"

\* _observe_semantic: only findings of status "ok" go on.
Heard(r) ==
    IF ObserveRefusal(r) # "ok" THEN ObserveRefusal(r)
    ELSE IF r.status # "ok" THEN r.status ELSE "ok"

Observe ==
    /\ stage = "observe"
    /\ result' \in Results
    /\ IF Heard(result') # "ok" THEN Raise(Heard(result')) /\ UNCHANGED findings
       ELSE /\ findings' = IF result'.payload = Absent THEN << >> ELSE result'.payload.findings
            /\ stage' = "fuse" /\ UNCHANGED error
    /\ UNCHANGED <<way, evaluator, conflictsWith, failed, scored, outcome>>

\* map_and_fuse_v2 over the map that is installed when it is called.
Fuse ==
    /\ stage = "fuse"
    /\ \E map \in Installed :
        IF FuseRefusal(map, findings) # "ok" THEN Raise(FuseRefusal(map, findings))
        ELSE stage' = "arbitrate" /\ UNCHANGED error
    /\ UNCHANGED <<way, evaluator, conflictsWith, failed, scored, result, findings, outcome>>

\* rebuild_fused_evaluation, the wall, and ConstraintMiddleware's arbitrate.
Verdict(scores, evidence) == A!Arbitrate(Failing(Fused(scores, Overlay(evidence))))

Rule ==
    /\ stage = "arbitrate"
    /\ outcome' = Verdict(scored, findings)
    /\ stage' = "ruled"
    /\ UNCHANGED <<way, evaluator, conflictsWith, failed, scored, result, findings, error>>

Next == Bind \/ EvaluateFrozen \/ EvaluateCustom \/ Observe \/ Fuse \/ Rule

Spec == Init /\ [][Next]_vars

-----------------------------------------------------------------------------
(* Properties. *)

Ruled == stage = "ruled"

\* A veto is the evaluator's alone.  Under the packaged weights, thresholds and
\* map one failed criterion of a hard shard vetoes, however little it weighs
\* and whatever the soft shards score; an evaluator of the caller's vetoes with
\* any score below full, whatever it calls passed; no findings lift a veto or
\* make one (arbitration.py, rule 2; evaluator_wall.py; semantic_fuse.py).
HardCriterionVetoes ==
    Ruled =>
        /\ outcome.veto <=> \E s \in Hard : scored[s] < Full
        /\ evaluator.kind # "custom" =>
            (outcome.veto <=> \E s \in Hard : Listed(s) \cap failed # {})

\* Of two rulings the second is no harsher.
NoHarsher(before, after) ==
    /\ after.targets \subseteq before.targets
    /\ after.irreconcilable => before.irreconcilable

\* A revision that repairs one criterion, or takes away what one finding was
\* about, and breaks nothing makes no shard fail and no text irreconcilable.
RepairNeverHurts ==
    Ruled =>
        /\ evaluator.kind # "custom" =>
            \A id \in failed : NoHarsher(outcome, Verdict(FrozenScores(failed \ {id}), findings))
        /\ \A k \in DOMAIN findings : NoHarsher(outcome, Verdict(scored, RemoveAt(findings, k)))

\* The examiner that says the same thing again, under any id that is free and with
\* no more confidence, changes nothing (semantic_fuse.py, rule 2).
ClaimsCountOnce ==
    Ruled =>
        \A f \in ToSet(findings), b \in ToSet(Bins),
           id \in (0..1 + Len(findings)) \ ToSet(Ids(findings)) :
            Rank(b) <= Rank(f.bin) =>
                Overlay(Append(findings, [f EXCEPT !.bin = b, !.id = id])) = Overlay(findings)

\* A hybrid ruling rests on an examiner that said ok, over the pins it was asked
\* under, with a quote of this text for every finding; a failure is never heard
\* as an answer without findings (semantic_examiner.py, "examiner failure must
\* not become empty successful findings").
FailureIsNoEvidence ==
    Ruled /\ way = "hybrid" =>
        /\ result.status = "ok" /\ result.payload.status = "ok" /\ result.payload.pins = "echoed"
        /\ findings = result.payload.findings
        /\ \A f \in ToSet(findings) : f.quote = SubSeq(Candidate, f.start + 1, f.end)
=============================================================================
