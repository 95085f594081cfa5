SPECIFICATION Spec
CONSTANTS
    process = process
    embed = embed
    again = again
    delete = delete
    Jobs = {process, embed, again}
    Roots = {process}
    ChildOf <- ChainChildren
    Destructive = {}
    Notifying = {process, again}
    Workers = {w1, w2}
    NoJob = NoJob
    NoWorker = NoWorker
    MaxAttempts = 1
    LeaseTicks = 1
    Lossy = TRUE
    MaxBroker = 1
    MaxIntents = 3
SYMMETRY WorkerSymmetry
PROPERTIES
    PromiseSpec
CHECK_DEADLOCK FALSE
