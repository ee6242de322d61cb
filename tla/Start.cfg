SPECIFICATION FairStartSpec

CONSTANTS
    ExitChecks = 1
    MayLeaveGroup = TRUE
    CallFaults <- AllCalls
    Window = 1
    CancelAnswer <- Answers
    Policies <- TokenOrBytes
    StartFaults <- AnyStep
    None = None

INVARIANTS
    FailedStartKillsChild
    FailedStartEndsHelpers
    HandsOverWholeCommand
    TerminationIsTrue
    HelpersReportedExactly
    OneSharedWait
    CancelledStartDoesNothing

PROPERTIES
    StartEnds

\* A start that is over takes no further step.
CHECK_DEADLOCK FALSE
