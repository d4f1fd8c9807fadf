CONSTANTS
    r1 = r1
    r2 = r2
    r3 = r3
    a1 = a1
    a2 = a2
    NoRequest = NoRequest
    NoWallet = NoWallet
    Request = {r1, r2, r3}
    Trusted = {r1}
    Account = {a1, a2}
    MaxPending = 2
    MaxSwitches = 3
    Coins <- ThreeCoins
    Plan <- Plans
    MaxTx = 2
SPECIFICATION EitherSpec
INVARIANTS
    UserDecides
    RowsAreOwned
    FeePaysForSize
PROPERTIES
    AnsweredOnce
    RunsForItsOwner
    ActivityTellsBalance
SYMMETRY Symmetry
CHECK_DEADLOCK FALSE
