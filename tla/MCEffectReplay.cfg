SPECIFICATION Spec
\* The loop ends at the end of the file or at its first refusal.
CHECK_DEADLOCK FALSE
CONSTANTS
    A = A  B = B  dir = dir  file = file  other = other
    Ops <- MCOps
    Targets <- MCTargets
    TargetsOf <- MCTargetsOf
    Overlap <- MCOverlap
    Journalled <- MCJournalled
    MaxRows = 5
INVARIANT AgreesWithReference
PROPERTY BlockedUntilAnchored
