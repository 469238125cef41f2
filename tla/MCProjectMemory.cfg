SPECIFICATION Spec
\* Every generation, history file and record of the bounded instance may be used up.
CHECK_DEADLOCK FALSE
CONSTANTS
    w1 = w1  w2 = w2
    Writers <- MCWriters
    Records <- MCRecords
    NoManifest = NoManifest
    MaxTime = 4
    MaxHistory = 4
SYMMETRY Symmetry
INVARIANTS OnlyTornIsRefused NoAssertionLost IndexOneAhead
PROPERTY ChainOnlyGrows
