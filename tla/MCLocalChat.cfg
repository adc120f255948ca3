CONSTANTS
    t1 = t1
    Delivery = {d1, d2}
    NoDelivery = NoDelivery
    Thread = {t1}
    TargetOf <- OneChat
    Process = {p1, p2, p3}
    Token = {m1, m2, m3}
    NoToken = NoToken
    MaxAttempts = 2
SYMMETRY LocalSymmetry
SPECIFICATION Spec
INVARIANTS
    LocalTypeOK
    ResendableUnsent
    SubmittedIsReal
    LocksMatchRows
PROPERTY KeepsTurns
CHECK_DEADLOCK FALSE
