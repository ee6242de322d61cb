SPECIFICATION PolicySpec

CONSTANTS
    Timeouts <- SomeTimeouts
    MaxPollCount = 5
    MaxLate = 1
    MaxEvents = 2
    MaxTime = 50
    None = None

INVARIANTS
    TimeoutIsPrompt
    PollingPace

\* The run ends, and the clock stops at MaxTime.
CHECK_DEADLOCK FALSE
