SPECIFICATION Spec
CONSTANTS
    p1 = p1  p2 = p2  x = x  y = y
    Procs <- MCProcs
    NoProc = NoProc
    NoFrame = NoFrame
    Parts <- MCParts
    MaxFrames = 3
SYMMETRY Symmetry
INVARIANTS AlwaysRecoverable WriteAhead OutcomeClosesTokens LeaseIsExact
