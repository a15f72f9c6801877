\* Two candidates, which may alternate; two hard shards that conflict and a
\* soft one; up to three revisions, with fewer completions or just enough.
CONSTANTS
    harm = harm
    privacy = privacy
    truth = truth
    a = a
    b = b
    EmptyText = EmptyText
    SafeRefusal = SafeRefusal
    Shards = {harm, privacy, truth}
    Hard = {harm, privacy}
    ConflictPairs <- HardPair
    Texts = {a, b}
    Conditions = {"A", "B", "C", "D"}
    RoundLimits = {0, 1, 3}
    CompletionLimits = {0, 2, 4}
SPECIFICATION FairSpec
CHECK_DEADLOCK FALSE
INVARIANTS
    HardFailureOnlyWhenStopped
    TraceIsTheLoop
    ReportExplainsDecision
    TrustedIsClean
PROPERTIES
    NoCallBegunLate
    NoCallAfterVerdict
    RunEnds
