SPECIFICATION Spec
CONSTANTS
    None = None
    Keys = {"key"}
    Signatures = {"s1", "s2"}
    Precision = 3
    FineDigits = 2
    MaxLamports = 20
    Arguments <- MCArguments
    Cap = 1200
    MaxPolls = 3
INVARIANTS
    ReceiptIsOnChain
    SentAsApproved
    ExitZeroIsSuccess
PROPERTY
    ObservationEnds
CHECK_DEADLOCK FALSE
