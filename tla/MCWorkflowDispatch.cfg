CONSTANTS
    k1 = k1
    k2 = k2
    s1 = s1
    s2 = s2
    Task = {k1, k2}
    NoTask = NoTask
    Workspace = {"w"}
    NoWorkspace = "none"
    WorkspaceOf <- NoWorkspaces
    TopicSubs <- SharedTopic
    Sub = {s1}
    NoSub = NoSub
    Session = {}
    NoWait = NoWait
    Dispatch = {d1, d2}
    NoDispatch = NoDispatch
    Dedup = {x1}
    NoKey = NoKey
    LeaseTicks = 1
SYMMETRY FullSymmetry
SPECIFICATION Spec
INVARIANT CleanRowNotReceived
PROPERTIES
    FinalRowsStay
    PausedStartsNothing
CHECK_DEADLOCK FALSE
