SPECIFICATION Spec
CONSTANTS
    Loop = Loop
    MaxSaves = 2
    MaxWipes = 1
    MaxFlushes = 0
    MayFail = FALSE
INVARIANTS
    ClearErases
\* The store may have nothing more to save.
CHECK_DEADLOCK FALSE
