SPECIFICATION FairSpec
CONSTANTS
    Calls = {1, 2}
    MaxEarly = 2
    MaxAttempts = 2
    MaxChunks = 2
    ReusesLedger = FALSE
INVARIANTS
    DeliveredInFull
    RecoveredToolsAreWhole
PROPERTIES
    ContractSpec
    RetryIsInvisible
    StreamEnds
\* The answer is over.
CHECK_DEADLOCK FALSE
