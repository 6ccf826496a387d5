SPECIFICATION ContextSpec
CONSTANTS
    File = {a, b}
    NoFile = none
    MaxMessages = 5
    MaxCalls = 2
    MaxFiles = 1
    RecentTurns = 1
    HeadTurns = 2
    MaxResult = 2
    Budget = 8
INVARIANT
    LatestTurnReachesModel
\* The conversation may be over.
CHECK_DEADLOCK FALSE
