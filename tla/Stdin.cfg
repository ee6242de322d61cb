SPECIFICATION FairWriterSpec

CONSTANTS
    Platforms <- BothPlatforms
    Input = 4
    PipeSize = 3
    Faults <- AllFaults
    MaxFaults = 2
    None = None

INVARIANTS
    InputIsPrefix
    JoinResultIsTrue

PROPERTIES
    WriterStops
    ReaderGetsInput

\* A writer that returned and a child that stopped reading have stopped.
CHECK_DEADLOCK FALSE
