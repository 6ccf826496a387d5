SPECIFICATION Spec
CONSTANTS
    Calls = {1}
    MaxEarly = 1
    MaxAttempts = 2
    MaxChunks = 2
    ReusesLedger = TRUE
PROPERTIES
    ContractSpec
\* The answer is over.
CHECK_DEADLOCK FALSE
