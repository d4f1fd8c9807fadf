CONSTANTS
    x1 = x1
    x2 = x2
    x3 = x3
    n1 = n1
    n2 = n2
    b1 = b1
    b2 = b2
    b3 = b3
    NoNonce = NoNonce
    NoAccount = NoAccount
    Call = {x1, x2, x3}
    Nonce = {n1, n2}
    MaxUsed = 1
    MaxToken = 3
    MaxSwitches = 1
    Account = {b1, b2, b3}
    First = {b1, b2}
    Overlap = FALSE
    MaxAsks = 2
    MaxReads = 1
SPECIFICATION EitherSpec
SYMMETRY Symmetry
INVARIANTS
    ClientKeepsUp
    NonceAcceptedOnce
    LastRequestWins
    CopiesAgree
CHECK_DEADLOCK FALSE
