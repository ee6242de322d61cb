SPECIFICATION Spec

CONSTANTS
    Limit = 1
    Cap <- CapsOneAndNone
    None = None
    Setups <- EverySetup
    Teed <- TeeStdout
    BufferLen = 2
    MaxWritten <- TwoAndOne
    Faults <- AllFaults
    MaxFaults = 2

INVARIANTS
    BudgetAccounting
    KeptIsPrefix
    CompleteIffDrained
    TeeIsTrue
    AtMostOneLateIo

PROPERTIES
    NothingReadOnceExceeded
    ReadersActAsHelpers

\* Readers that returned and a child that closed its pipes have stopped.
CHECK_DEADLOCK FALSE
