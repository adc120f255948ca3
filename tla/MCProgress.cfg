CONSTANTS
    Dispatch = {d1}
    NoDispatch = NoDispatch
    Sub = {s1}
    NoSub = NoSub
    Flusher = {server, cli1}
    Server = server
    MaxAttempts = 2
    MaxFaults = 2
    Command = {c1, c2}
    Wait = {w1, w2, w3}
    Batch = 1
    Callers = 1
SPECIFICATION ProgressSpec
INVARIANTS
    ProgressSafe
    OutboxTypeOK
    VerdictWaitsForHolder
PROPERTIES
    KeepsContract
    EveryRowSettles
    SlotFreed
    EndNoticed
    ClosedWaitsStay
CHECK_DEADLOCK FALSE
