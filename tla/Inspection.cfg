SPECIFICATION InspectionSpec

CONSTANTS
    ProcessFailures <- TerminatorFailures
    ReaderEnds <- AnyEnd
    Reasons <- AnyReason
    Statuses <- SomeStatuses
    Expected <- ZeroOnly
    None = None

INVARIANTS
    ErrorIsTrue
    OutputSurvives
    NothingIsHidden
    FateOfChildIsTold

\* A run returns once.
CHECK_DEADLOCK FALSE
