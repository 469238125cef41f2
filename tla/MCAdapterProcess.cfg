SPECIFICATION Spec
CONSTANTS
    OutputLimit = 3
    ReadSize = 2
    PipeSize = 2
    MaxWritten = 4
INVARIANTS
    NoOrphan
    CleanReportIsTrue
    TruncationIsExact
PROPERTY
    EveryCallEnds
CHECK_DEADLOCK FALSE
