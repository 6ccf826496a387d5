SPECIFICATION Spec
CONSTANTS
    e1 = e1
    e2 = e2
    e3 = e3
    s1 = s1
    edit = edit
    send = send
    None = None
    Request <- MCRequest
    Key <- MCKey
    KeyOf <- MCKeyOf
    Awaited <- MCAwaited
    MaxRetries = 1
    MayBreak = TRUE
INVARIANTS
    ReportedIsShown
\* Every request may have been answered.
CHECK_DEADLOCK FALSE
