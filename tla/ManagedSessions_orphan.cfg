SPECIFICATION Spec
CONSTANTS
    f1 = f1
    f2 = f2
    n1 = n1
    n2 = n2
    origin = origin
    Runner <- MCRunnerNew
    Forks = {}
    Origin = origin
    NoOne = NoOne
    Stopper = Stopper
    MaxCancels = 1
    MaxStops = 1
INVARIANT
    NoOrphan
\* Every runner may have ended.
CHECK_DEADLOCK FALSE
