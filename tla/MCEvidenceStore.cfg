SPECIFICATION Spec
\* The entries of the directory may be used up by remnants.
CHECK_DEADLOCK FALSE
CONSTANTS
    p1 = p1  p2 = p2  j = j  k = k  a = a
    Procs <- MCProcs
    NoProc = NoProc
    Objects <- MCObjects
    Journal <- MCJournal
    Size <- MCSize
    MaxObjects = 3
    MaxTotalBytes = 3
SYMMETRY Symmetry
INVARIANTS RefusesOnlyTornInPlace PublishedIsDurable
