SPECIFICATION AnchorSpec
CONSTANTS
    a = a
    b = b
    t = t
    u = u
    Ops = {a, b}
    Targets = {t, u}
    TargetsOf <- MCTargetsOf
    Overlap <- MCOverlap
    Journalled = {}
    JournalKinds <- MCJournalKinds
    MaxLedger = 2
    MaxJournal = 3
    MaxAnchor = 3
    MaxEvidence = 2
    MaxWritten = 5
SYMMETRY MCSymmetry
INVARIANTS
    CurrentIsComplete
    StopIsRecoverable
PROPERTIES
    AdoptionIsFinal
    SelectionOnlyGrows
\* The host outside may stop for good, and the files end at their bounds.
CHECK_DEADLOCK FALSE
