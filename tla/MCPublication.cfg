SPECIFICATION PublicationSpec
CONSTANTS
    top = top  c0 = c0  c1 = c1  r0 = r0  r1 = r1  other = other
    ParentOf <- MCParentOf
    Bytes <- MCBytes
    Directory = Directory
    Empty = Empty
    None = None
    Torn = Torn
    MaxOperations = 30
    Declarations <- MCDeclarations
    MaxRuns = 2
INVARIANTS
    OriginalsSurvive
    ReplacedIsWhole
    PublishedInOrder
    AcceptedPlansComplete
CHECK_DEADLOCK FALSE
