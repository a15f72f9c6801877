SPECIFICATION Spec
CONSTANTS
    None = None
    NaN = NaN
    Principles = {"truth", "compassion", "autonomy", "privacy", "harm aversion"}
    Categories <- MCCategories
    FrozenTerminals = {"accepted", "refused", "timed_out"}
    HardCap = 4
    Reservation = 2
    Costs = {1, 3}
    MaxCalls = 2
    Commands <- MCCommands
    Texts <- MCTexts
    BillBound = 6
INVARIANTS
    TrueSpendWithinCap
    PayloadIsWhole
    SummariesAccountForSpend
CHECK_DEADLOCK FALSE
