SPECIFICATION RunSpec

CONSTANTS
    ExitChecks = 1
    MayLeaveGroup = FALSE
    CallFaults <- AllCalls
    Window = 0
    CancelAnswer <- Answers
    Policies <- SafetyPolicies
    Timeout = 1
    MayFail <- Stderr
    ClockMayFail = TRUE
    None = None

INVARIANTS
    RunningHelpersReported

PROPERTIES
    ImplementsContract
    EventPrecedence

\* A run that returned is over.
CHECK_DEADLOCK FALSE
