\* Two threads race for two proposal calls and one examiner call on a ledger of
\* 3 units; a call may cost more than any reservation.
CONSTANTS
    t1 = t1
    t2 = t2
    Clients = {t1, t2}
    MaxProposal = 2
    MaxExaminer = 1
    MaxUsd = 3
    ReserveAmounts = {0, 2}
    ActualCosts = {2, 4}
    MaxReservations = 3
SPECIFICATION FairSpec
INVARIANTS
    LanesMatchHandles
    SpendBounded
    KnownSpendBooked
PROPERTIES
    NoLateStart
    ImplementsLaneGate
    EveryCallSettles
