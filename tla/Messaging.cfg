SPECIFICATION MessagingSpec
CONSTANTS
    f1 = f1
    f2 = f2
    n1 = n1
    n2 = n2
    origin = origin
    Runner <- MCRunnerMixed
    Forks <- MCForks
    Origin = origin
    NoOne = NoOne
    Stopper = Stopper
    MaxCancels = 1
    MaxStops = 1
    Note = {1, 2}
    Msg = {1, 2, 3}
    NoMsg = 0
    Saver = {1}
    MaxClears = 1
    MaxShutdowns = 1
    MaxIds = 3
    Batch = 2
    Tries = 3
    Provider = {1, 2}
    Request = {1}
    MaxUpdates = 2
    MaxMade = 3
    TaskId = {"t1", "t2"}
    ToolId = {"u1"}
    Rough <- RoughIds
    Said = {"text"}
    MaxPieces = 4
    ShownLimit = 3
    TailMax = 2
INVARIANTS
    PooledOnce
    EntryHasRemover
    RunningIsRegistered
    OneProcessPerSession
    KnownUntilErased
    NotesEndAsTold
    DeliveryIsHonest
    UserSeesTheRun
    ProvidersAreKept
\* The first states choose a component, and each of these may stop.
CHECK_DEADLOCK FALSE
