CONSTANTS
    a1 = a1
    a2 = a2
    a3 = a3
    Nobody = Nobody
    Account = {a1, a2, a3}
    First = a1
    Watches <- OneOfAKind
    SnapshotLimit = 3
    MaxAsks = 2
    MaxWorks = 0
    MaxFaults = 1
SPECIFICATION EitherSpec
INVARIANTS
    ScreenNeverMixes
PROPERTIES
    ScreenSettles
CHECK_DEADLOCK FALSE
