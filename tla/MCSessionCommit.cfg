\* One process at a time, which may die anywhere and start again; the third
\* turn of four cannot be encoded.
CONSTANTS
    p1 = p1
    p2 = p2
    Processes = {p1}
    Unencodable = {3}
    MaxTurns = 4
SPECIFICATION Spec
INVARIANTS
    IdleMatchesDisk
PROPERTIES
    ImplementsSessionLog
