\* One document is deleted and purged while an operator moves the pointer.
SPECIFICATION Spec
CONSTANTS
    d1 = d1
    d2 = d2
    b1 = b1
    b2 = b2
    b3 = b3
    r1 = r1
    r2 = r2
    Docs <- MCOneDoc
    Removable <- MCOneDoc
    Builds <- MCThreeBuilds
    Requests <- MCOneRequest
    NoBuild = NoBuild
    MaxVersion = 2
    MaxGeneration = 0
    MaxReceipts = 2
SYMMETRY MCSymmetry
\* The corpus is empty once its only document is purged.
CHECK_DEADLOCK FALSE
INVARIANT
    PurgedLeaveNoCandidate
PROPERTIES
    RemovedOnlyWhenExcluded
    SupersededStaysOut
