CONSTANTS
    None = None
    k1 = k1
    k2 = k2
    k3 = k3
    alpha = alpha
    beta = beta
    site = site
    Ids = {alpha, beta}
    Keys = {k1, k2, k3}
    MaxVersion = 4
    Commands <- MCCommands
    Payloads <- MCPayloads
    Contents <- MCContents
    Rotations <- MCRotations
    Successors <- MCSuccessors
    Pins <- MCPins
    Horizon = 3
SPECIFICATION Spec
INVARIANTS
    SupersededNeverCurrent
    ExitZeroMeansVerified
    FreshRecords
PROPERTY
    TrustHandedOver
CHECK_DEADLOCK FALSE
