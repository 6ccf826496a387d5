SPECIFICATION ConversationSpec
CONSTANTS
    r = r
    a = a
    b = b
    NoNode = NoNode
    Root = r
    Node <- MCNode
    MaxStops = 1
    MaxClears = 1
    DrainTimeout = TRUE
    MaxPieces = 6
INVARIANTS
    NotWedgedUnlessAborted
    SerialUntilStopped
    NoPendingForgotten
    ChatIsTheConversation
PROPERTIES
    QueueDrains
    StartsInOrder
    StoppedStaysFailed
\* The conversation may simply be over, and a history of six pieces does not grow.
CHECK_DEADLOCK FALSE
