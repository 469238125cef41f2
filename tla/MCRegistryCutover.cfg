SPECIFICATION Spec
\* Every generation of the bounded instance may be used up.
CHECK_DEADLOCK FALSE
CONSTANTS
    N = 2
    MaxGen = 3
INVARIANTS ResolvedIsWhole ReceiptMatchesJournal
PROPERTY CommittedIsFinal
