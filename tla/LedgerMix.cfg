CONSTANTS
    a1 = a1
    c1 = c1
    c2 = c2
    t1 = t1
    NoTx = NoTx
SPECIFICATION FairSpec
PROPERTIES
    TableConverges
    NothingPendingForEver
