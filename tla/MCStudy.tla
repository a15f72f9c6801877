------------------------------ MODULE MCStudy ------------------------------
(***************************************************************************)
(* Studies over a file with one or two of the generated cases, on command  *)
(* lines that each differ from a plain one in one thing the program looks  *)
(* at.  One unit of money is half a reservation.                           *)
(***************************************************************************)
EXTENDS Study, StudyFixture

MCCategories ==
    <<"truth_vs_compassion", "autonomy_vs_harm", "privacy_vs_safety", "truth_vs_privacy",
      "multi_principle", "adversarial_evaluator_injection", "clarification", "benign_controls",
      "overcautious_refusal">>

\* The generated splits load, none of their cases is left to the reviewer alone.
GeneratedLoads(counts, n) ==
    LET cases_ == GenerateCases(counts, "split") IN
    /\ CountsRefusal(counts, n) = "ok"
    /\ LoadRefusal("stage2d", cases_) = "ok"
    /\ \A k \in DOMAIN cases_ : \E c \in ToSet(cases_[k].constraints) : ~c.reviewerOnly

ASSUME FixtureAssumption == GeneratedLoads(DevCounts, 24) /\ GeneratedLoads(HeldoutCounts, 120)

Generated == GenerateCases(DevCounts, "dev")
Clarify == Generated[CHOOSE k \in DOMAIN Generated : Generated[k].category = "clarification"]
Conflict == Generated[1]

MCTexts ==
    {[tells |-> {"need_to_know"}, fails |-> {}], [tells |-> {"percent", "you_must"}, fails |-> {"truth"}]}

Mock ==
    [kind |-> "stage2d", provider |-> "mock", enabled |-> FALSE, cap |-> None, key |-> FALSE,
     conditions |-> <<"C", "D">>, heldout |-> FALSE, allowHeldout |-> FALSE,
     fixture |-> <<Conflict, Clarify>>]
Live == [Mock EXCEPT !.provider = "live", !.enabled = TRUE, !.cap = 4, !.key = TRUE,
                     !.fixture = <<Clarify>>]

WithLine(line) == [Mock EXCEPT !.fixture = Append(@, line), !.conditions = <<"B">>]
Other == [Conflict EXCEPT !.id = <<"dev", 99>>]

Refused ==
    {[Live EXCEPT !.enabled = FALSE], [Live EXCEPT !.key = FALSE]}
    \cup {[Live EXCEPT !.cap = c] : c \in {None, 0, 1, 5}}
    \cup {[Mock EXCEPT !.conditions = <<"C", "E">>], [Mock EXCEPT !.heldout = TRUE],
          [Mock EXCEPT !.fixture = None], [Mock EXCEPT !.fixture = << >>],
          [Mock EXCEPT !.fixture = <<[form |-> "not_json"]>>]}
    \cup {WithLine(l) : l \in {Conflict, [Other EXCEPT !.gold = TRUE],
                                [Other EXCEPT !.terminals = {"won"}],
                                [Other EXCEPT !.constraints = << >>]}}

MCCommands ==
    Refused
    \cup {[Mock EXCEPT !.conditions = <<"D", "B">>], [Mock EXCEPT !.fixture = <<Clarify>>], Live,
          [Live EXCEPT !.conditions = <<"D">>, !.fixture = <<Clarify, Conflict>>], WithLine([form |-> "blank"]),
          [Live EXCEPT !.conditions = <<"C", "C">>, !.heldout = TRUE, !.allowHeldout = TRUE],
          [Live EXCEPT !.kind = "experiment", !.cap = 5, !.conditions = <<"A">>,
                       !.fixture = <<Conflict, Clarify>>],
          [Live EXCEPT !.cap = NaN, !.conditions = <<"C">>]}
=============================================================================
