CONSTANTS
    f1 = f1
    f2 = f2
    f3 = f3
    Caller = {f1, f2, f3}
    Direct = {f3}
    Conn = {1, 2}
    Writes = 2
    Overlap = TRUE
    MaxFaults = 1
SPECIFICATION EitherSpec
INVARIANTS
    QueueSerializes
PROPERTIES
    SerialCallsAreAtomic
    EveryCallSettles
