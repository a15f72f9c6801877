SPECIFICATION EntrySpec
CONSTANTS
    None = None
    Runs = {r1, r2}
    PlainSession = plain_session
    Settings <- MCSettings
SYMMETRY RunsAlike
VIEW StillRead
INVARIANTS
    MarkerBeforeCalls
    NeverOffAgain
    VerdictIffReported
    IdentityIsKept
CHECK_DEADLOCK FALSE
