SPECIFICATION IoSpec

CONSTANTS
    None = None
    Path = {p1, p2, p3}
    Ordinary = {f1, f2}
    Special = {fifo}
    Fresh = {n1, n2}
    MaxRelinks = 2
    MaxFaults = 1

SYMMETRY Symmetry

INVARIANTS
    InputNeverTruncated
    HandedOutFilesAreSafe
    RefusalEmptiesNothing
    AliasesRefusedEarly
    NeverBlocked

\* A run that has its files, or none, is done with them.
CHECK_DEADLOCK FALSE
