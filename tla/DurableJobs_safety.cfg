SPECIFICATION Spec
CONSTANTS
    process = process
    embed = embed
    again = again
    delete = delete
    Jobs = {delete}
    Roots = {delete}
    ChildOf <- ChainChildren
    Destructive = {delete}
    Notifying = {}
    Workers = {w1, w2, w3}
    NoJob = NoJob
    NoWorker = NoWorker
    MaxAttempts = 2
    LeaseTicks = 2
    Lossy = TRUE
    MaxBroker = 2
    MaxIntents = 3
SYMMETRY WorkerSymmetry
INVARIANTS
    TypeOK
    FencedOut
    WaitingRunHasBudget
    NoStrandedRun
PROPERTIES
    EndedByOwnerOrRecovery
CHECK_DEADLOCK FALSE
