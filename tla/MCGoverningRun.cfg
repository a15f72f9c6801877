\* No round or two, against lanes of three proposals and two examinations; costs
\* that fit, exhaust the budget, and exceed what was reserved for them.
SPECIFICATION FairSpec
CONSTANTS
    t1 = t1
    t2 = t2
    hard = hard
    soft = soft
    Texts <- MCTexts
    Shards <- MCShards
    Hard <- MCHard
    ConflictPairs <- NoPairs
    EmptyText = EmptyText
    SafeRefusal = SafeRefusal
    Run = run
    MaxProposal = 3
    MaxExaminer = 2
    MaxUsd = 5
    ReserveAmounts = {2}
    ActualCosts = {1, 3}
    MaxReservations = 6
    RoundLimits = {0, 2}
    Drifts = {"account"}
INVARIANTS
    EndedRunHoldsNothing
    VerdictRestsOnBoth
    VerdictMatchesBooks
    NoVerdictOverBudget
PROPERTIES
    ExaminerAskedAsInstalled
    RunEnds
CHECK_DEADLOCK FALSE
