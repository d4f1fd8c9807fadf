CONSTANTS
    a1 = a1
    c1 = c1
    c2 = c2
    t1 = t1
    t2 = t2
    NoTx = NoTx
    Account = {a1}
    Coin = {c1}
    Tx = {t1, t2}
    NoChange = {}
    AcctOf <- OneCoin
    Kind <- TwoSends
    Adversity = {"lag", "timeout", "drop", "freeze"}
    MaxCrashes = 1
SPECIFICATION Spec
SYMMETRY SendsSymmetry
INVARIANTS
    InFlightInputsReserved
    LiveCoinsKept
    MarksHaveOperations
