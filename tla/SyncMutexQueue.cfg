CONSTANTS
    a1 = a1
    a2 = a2
    o1 = o1
    o2 = o2
    o3 = o3
    NoOp = NoOp
    Account <- Accounts2
    Op <- Ops3
    MaxBatches = 1
SPECIFICATION FairSpec
INVARIANTS
    OneByOneInOrder
    LockedFlagTruthful
    OneLiveSync
PROPERTIES
    EveryRequestServed
    NewestSyncNotDropped
    ImplementsAccountLock
