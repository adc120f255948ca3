CONSTANTS
    k1 = k1
    k2 = k2
    s1 = s1
    s2 = s2
    Task = {k1}
    NoTask = NoTask
    Workspace = {"w"}
    NoWorkspace = "none"
    WorkspaceOf <- SoloWorkspace
    TopicSubs <- SoloTopic
    Sub = {s1}
    NoSub = NoSub
    Session = {"p"}
    NoWait = NoWait
    Dispatch = {d1, d2, d3}
    NoDispatch = NoDispatch
    Dedup = {x1}
    NoKey = NoKey
    LeaseTicks = 2
SYMMETRY RunSymmetry
SPECIFICATION Spec
INVARIANTS
    RejectionIsDefinitive
    CompletionReceivedOnce
    ReceiptNotSwallowed
CHECK_DEADLOCK FALSE
