CONSTANTS
    a1 = a1
    c1 = c1
    c2 = c2
    t1 = t1
    t2 = t2
    NoTx = NoTx
    Account = {a1}
    Coin = {c1, c2}
    Tx = {t1, t2}
    NoChange = {}
    AcctOf <- OneAccount
    Kind <- TwoSends
    Adversity = {"lag"}
    MaxCrashes = 1
SPECIFICATION Spec
INVARIANTS
    NoDoubleSpendAfterCrash
