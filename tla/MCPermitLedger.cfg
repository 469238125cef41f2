SPECIFICATION Spec
CONSTANTS
    p1 = p1  p2 = p2  a = a  b = b  c = c
    Procs <- MCProcs
    Ids <- MCIds
    NoId = NoId
    NoProc = NoProc
    MaxRows = 3
SYMMETRY Symmetry
INVARIANTS NoReplay HonouredIsDurable HistoryScans
PROPERTIES DurableAppendOnly ImplementsConsumeOnce
