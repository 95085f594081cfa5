\* Two operators race on one pointer; nothing is removed.
SPECIFICATION Spec
CONSTANTS
    d1 = d1
    d2 = d2
    b1 = b1
    b2 = b2
    b3 = b3
    r1 = r1
    r2 = r2
    Docs <- MCOneDoc
    Removable <- MCNoDoc
    Builds <- MCThreeBuilds
    Requests <- MCTwoRequests
    NoBuild = NoBuild
    MaxVersion = 1
    MaxGeneration = 1
    MaxReceipts = 4
SYMMETRY MCSymmetry
INVARIANT
    PointerAgrees
PROPERTY
    AcceptedMoves
