SPECIFICATION Spec
CONSTANTS
    None = None
    Absent = Absent
    NaN = NaN
    FrozenId = FrozenId
    Rubrics <- PackagedRubrics
    Classes = {"deceptive_claim", "fabricated_authority", "governance_manipulation_claim", "overclaim_from_ambiguity", "unsupported_certainty"}
    Codes = {"cue"}
    Signals = {"role"}
    LockedMap <- PackagedMap
    Candidate <- MCCandidate
    Reserved = {"policy"}
    Evaluators <- MCEvaluators
    FailedSets <- UpToTwo
    Listings <- SomeListings
    Results <- MCResults
    Installed <- MCInstalled
INVARIANTS
    HardCriterionVetoes
    RepairNeverHurts
    ClaimsCountOnce
    FailureIsNoEvidence
CHECK_DEADLOCK FALSE
