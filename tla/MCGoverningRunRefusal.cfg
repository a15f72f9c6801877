\* No round to revise in, steady connections.
SPECIFICATION Spec
CONSTANTS
    t1 = t1
    t2 = t2
    hard = hard
    soft = soft
    Texts <- MCTexts
    Shards <- MCShards
    Hard <- MCHard
    ConflictPairs <- NoPairs
    EmptyText = EmptyText
    SafeRefusal = SafeRefusal
    Run = run
    MaxProposal = 2
    MaxExaminer = 2
    MaxUsd = 6
    ReserveAmounts = {2}
    ActualCosts = {1, 3}
    MaxReservations = 6
    RoundLimits = {0}
    Drifts = {}
INVARIANT
    RefusalIsSafe
CHECK_DEADLOCK FALSE
