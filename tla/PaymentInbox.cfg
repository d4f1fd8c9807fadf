CONSTANTS
    a1 = a1
    a2 = a2
    m1 = m1
    m2 = m2
    m3 = m3
    m4 = m4
    p1 = p1
    p2 = p2
    c1 = c1
    c2 = c2
    Account = {a1, a2}
    NoAccount = NoAccount
    Payment = {p1, p2}
    NoPayment = NoPayment
    Message = {m1, m2, m3, m4}
    To <- Boxes
    Pays <- Payments
    Check = {c1, c2}
    NoCheck = NoCheck
    MaxKept = 1
    MaxFailures = 2
    MaxChanges = 3
SPECIFICATION BoundedSpec
INVARIANTS
    DeletedIsKept
    AnnouncedOnce
PROPERTIES
    EveryMessageTaken
