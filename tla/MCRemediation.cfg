SPECIFICATION HostSpec
CONSTANTS
    LaneCount = 3
    MaxSteps = 5
    SharedKey = {1, 2}
    Dependencies <- MCDependencies
    Footprints <- MCFootprints
    Author = author
    Identities = {author, owner}
    ForeignClaims <- MCForeignClaims
    HostRuns <- MCHostRuns
    Lease = 2
    MaxClock = 3
INVARIANTS
    BatchesAreLegal
    AdmissionIsExact
    WritersAreIsolated
PROPERTY
    RunIsJudged
CHECK_DEADLOCK FALSE
