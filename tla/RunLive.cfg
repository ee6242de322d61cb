SPECIFICATION FairRunSpec

CONSTANTS
    ExitChecks = 2
    MayLeaveGroup = FALSE
    CallFaults <- KillCalls
    Window = 1
    CancelAnswer <- Answers
    Policies <- PollPolicies
    Timeout = 1
    MayFail = {}
    ClockMayFail = FALSE
    None = None

INVARIANTS
    WaitsOnlyForKilledChild

PROPERTIES
    StopConditionEndsRun

\* A run that returned is over.
CHECK_DEADLOCK FALSE
