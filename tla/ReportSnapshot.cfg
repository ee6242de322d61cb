SPECIFICATION ReportSpec

CONSTANTS
    ProcessFailures <- FewFailures
    ReaderEnds <- QuietEnds
    Reasons <- LimitOnly
    None = None

INVARIANTS
    SnapshotOnlyIfNotJoined

\* A run reports once.
CHECK_DEADLOCK FALSE
