SPECIFICATION CommandRunnerSpec

CONSTANTS
    Caps <- SomeCaps
    DefaultCap = 1
    Sizes <- SomeSizes
    ExitCodes <- SomeCodes
    MaxCalls = 3
    None = None

INVARIANTS
    VerdictIsDue

\* A runner is used once.
CHECK_DEADLOCK FALSE
