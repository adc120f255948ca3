CONSTANTS
    k1 = k1
    k2 = k2
    s1 = s1
    s2 = s2
    Task = {k1}
    NoTask = NoTask
    Workspace = {"w"}
    NoWorkspace = "none"
    WorkspaceOf <- SoloWorkspace
    TopicSubs <- SoloTopics
    Sub = {s1, s2}
    NoSub = NoSub
    Session = {"p"}
    NoWait = NoWait
    Dispatch = {d1, d2}
    NoDispatch = NoDispatch
    Dedup = {x1}
    NoKey = NoKey
    LeaseTicks = 1
SPECIFICATION FairSpec
INVARIANT DeliveredToBinding
PROPERTY CompletionReported
CHECK_DEADLOCK FALSE
