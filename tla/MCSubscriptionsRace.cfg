CONSTANTS
    Secret = {a, b}
    NoSecret = NoSecret
    Caller = {c1, c2}
    Window = 2
    MaxTime = 3
    MaxCancels = 1
SYMMETRY SubscriptionSymmetry
SPECIFICATION Spec
INVARIANTS
    SubscriptionTypeOK
    VerificationHonest
PROPERTIES
    CancelledStoresNothing
    RecentlyVerified
    UndisturbedRotation
