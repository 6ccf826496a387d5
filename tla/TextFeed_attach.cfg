SPECIFICATION TextSpec
CONSTANTS
    Allowed = {"Bash", "Write", "Read"}
    MaxItems = 1
INVARIANT
    ParametersAttach
\* The text is over.
CHECK_DEADLOCK FALSE
