SPECIFICATION EventualSpec
CONSTANTS
    Loop = Loop
    MaxSaves = 2
    MaxWipes = 1
    MaxFlushes = 1
    MayFail = TRUE
    e1 = e1
    e2 = e2
    s1 = s1
    edit = edit
    send = send
    None = None
    MaxRetries = 1
    MayBreak = TRUE
    n1 = n1
    n2 = n2
    Origin = origin
    NoOne = NoOne
    Stopper = Stopper
    MaxCancels = 2
    MaxStops = 1
INVARIANTS
    UnsavedIsCarried
PROPERTIES
    EventuallyWritten
    WaitersAreAnswered
    CancelledEnds
    StopAllReaches
\* Every component may have nothing left to do.
CHECK_DEADLOCK FALSE
