\* Two processes complete a turn of the same session at the same time.
CONSTANTS
    p1 = p1
    p2 = p2
    Processes = {p1, p2}
    Unencodable = {}
    MaxTurns = 2
SPECIFICATION Spec
INVARIANTS
    SaveReturnedIsCommitted
