CONSTANTS
    ask = ask
    askElse = askElse
    askTwo = askTwo
    bad = bad
    other = other
    new = new
    m1 = m1
    m2 = m2
    slug = slug
    slugAlias = slugAlias
    slugTwo = slugTwo
    toolOne = toolOne
    toolTwo = toolTwo
    Connection = {c1, c2}
    Request = {ask, askElse, askTwo, bad}
    NoRequest = NoRequest
    IdOf <- RequestIds
    Malformed = {bad}
    MaxEntries = 1
    MaxCalls = 3
    Instance = {i1, i2}
    NoFile = NoFile
    NotASocket = NotASocket
    Pairing = {p1, p2}
    NoPairing = NoPairing
    Client = {g1, g2}
    NoClient = NoClient
    Approver = {q1, q2}
    Writer = {w1, w2}
    KeepDays = 2
    KeepLines = 1
    LastDay = 3
    LastLine = 2
    Conversation = {other, new}
    NewChat = {new, other}
    Home = Home
    Meta = {m1, m2}
    ChatOf <- MessageChats
    Source = {f1}
    Fallback = {k1, k2}
    NoFallback = NoFallback
    CacheSize = 1
    Attempts = 2
    MaxEpoch = 2
    Message = {m1, m2}
    Turn = {t1}
    Model = {slug, slugAlias, slugTwo}
    None = None
    Canonical <- ModelNames
    TimeOf <- Times
    Caller = {e1, e2}
    Tool = {toolOne, toolTwo}
    NoTool = NoTool
    Offered <- OwnTools
    Address = {a1, a2, a3}
    Public = {a1, a2}
    NoAddress = NoAddress
    Service = {s1, s2}
    Absent = Absent
    Foreign = Foreign
    Logger = {l1, l2}
    Retention = 1
    MaxSize = 1
    LastDate = 3
    LastRow = 3
SPECIFICATION ServicesSpec
INVARIANTS
    ServicesSafe
    OwnMetadata
    FallbackHere
    EvidenceSafe
PROPERTIES
    RepeatsAreForgotten
    LiveSocketKept
    GatewayPromise
    ServicesKeep
    UnavailableNeedsOverlap
CHECK_DEADLOCK FALSE
