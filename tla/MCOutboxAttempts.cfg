CONSTANTS
    Dispatch = {d1}
    NoDispatch = NoDispatch
    Sub = {s1}
    NoSub = NoSub
    Flusher = {server, cli1}
    Server = server
    MaxAttempts = 2
    MaxFaults = 1
SPECIFICATION OutboxSpec
INVARIANT AttemptsLimited
CHECK_DEADLOCK FALSE
