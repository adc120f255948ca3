CONSTANTS
    Secret = {a, b, c}
    NoSecret = NoSecret
    Caller = {c1, c2}
    Window = 2
    MaxTime = 2
    MaxCancels = 0
SYMMETRY SubscriptionSymmetry
SPECIFICATION Spec
PROPERTY RotationKeepsPrevious
