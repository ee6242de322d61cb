SPECIFICATION FairSpec

CONSTANTS
    Limit = 0
    Cap <- CapsOneAndNone
    None = None
    Setups <- EverySetup
    Teed <- TeeStdout
    BufferLen = 2
    MaxWritten <- OneAndNone
    Faults <- WakeAndRetry
    MaxFaults = 1

PROPERTIES
    DeliveredCancelStops
    ReaderStopsUnasked

\* Readers that returned and a child that closed its pipes have stopped.
CHECK_DEADLOCK FALSE
