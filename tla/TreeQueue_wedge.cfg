SPECIFICATION Spec
CONSTANTS
    r = r
    a = a
    b = b
    NoNode = NoNode
    Root = r
    Node <- MCNode
    MaxStops = 0
    MaxClears = 1
    DrainTimeout = FALSE
INVARIANTS
    NotWedged
\* The conversation may simply be over.
CHECK_DEADLOCK FALSE
