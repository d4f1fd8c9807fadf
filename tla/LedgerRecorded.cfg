CONSTANTS
    a1 = a1
    c1 = c1
    c2 = c2
    t1 = t1
    t2 = t2
    NoTx = NoTx
    Account = {a1}
    Coin = {c1}
    Tx = {t1, t2}
    NoChange = {t2}
    AcctOf <- OneCoin
    Kind <- SendAndTransfer
    Adversity = {"timeout", "fault", "drop", "freeze"}
    MaxCrashes = 0
SPECIFICATION Spec
INVARIANTS
    RecordedInputsStaySpent
    LockHeldByWork
