SPECIFICATION FairSpec
CHECK_DEADLOCK FALSE
CONSTANTS
    Locker = {k1}
    MaxWrong = 3
    MaxStarts = 2
INVARIANTS
    TypeOK
    SessionAgrees
PROPERTIES
    AutoLockFires
    LockedWalletOpens
