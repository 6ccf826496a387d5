SPECIFICATION GatewaySpec
CONSTANTS
    e1 = e1
    e2 = e2
    e3 = e3
    s1 = s1
    edit = edit
    send = send
    None = None
    Request <- MCRequestFew
    Key <- MCKey
    KeyOf <- MCKeyOf
    Awaited <- MCAwaited
    MaxRetries = 1
    MayBreak = TRUE
    MaxPrompts = 2
    MaxTurns = 2
    Retries = 2
    MaxToolCalls = 2
    MaxReplans = 1
    MaxRequests = 1
    MaxBlocks = 2
    MaxStream = 5
    Calls = {1}
    MaxHead = 1
    MaxTarget = 6
    Index = {1, 2}
    MaxEarlyRetries = 1
    MaxEvents = 4
    MaxIndex = 2
    MaxInput = 6
    File = {"a", "b"}
    NoFile = "none"
    MaxMessages = 5
    MaxCalls = 2
    MaxFiles = 1
    RecentTurns = 1
    HeadTurns = 1
    MaxResult = 2
    Budget = 10
    x = x
    y = y
    Caller <- MCCaller
    RateLimit = 2
    Window = 3
    ClockSlack = 1
    MaxTime = 4
    MaxConcurrency = 2
    MaxCallRetries = 1
    Delays = {1, 2}
    FinalBlock = 3
    MaxOpens = 2
SYMMETRY MCSymmetry
INVARIANTS
    AtMostRateLimit
    WaitersAreKept
    LatestUnlessRetried
    ContextIsCurrent
    AnswersKeepTheirForm
    
    ResponseIsFaithful
PROPERTIES
    RetryWaitsOutItsDelay
    SeenBlockIsWaitedFor
    TurnsAddUp
    BridgeIsTransparent
    NativeIsTransparent
\* The first states choose a component, and each of these may stop.
CHECK_DEADLOCK FALSE
