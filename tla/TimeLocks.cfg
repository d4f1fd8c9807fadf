CONSTANTS
    l1 = l1
    u1 = u1
    a1 = a1
    a2 = a2
    NoLock = NoLock
    p1 = p1
    p2 = p2
    Pass = {p1, p2}
    MaxFetches = 1
    Mixes <- ThreeAtATime
    Lock = {l1}
    User = {u1}
    App = {a1, a2}
    Others = TRUE
    Lag = TRUE
    MaxInflight = 1
SPECIFICATION FairSpec
INVARIANTS
    UnlockedMeansSpent
    OneUnlockAtATime
PROPERTIES
    EveryAppAnswered
    ClosedLocksLeave
    LiveLocksStayListed
CHECK_DEADLOCK FALSE
