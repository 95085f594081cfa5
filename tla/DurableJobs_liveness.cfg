SPECIFICATION FairSpec
CONSTANTS
    process = process
    embed = embed
    again = again
    delete = delete
    Jobs = {delete}
    Roots = {delete}
    ChildOf <- ChainChildren
    Destructive = {delete}
    Notifying = {}
    Workers = {w1, w2}
    NoJob = NoJob
    NoWorker = NoWorker
    MaxAttempts = 2
    LeaseTicks = 1
    Lossy = FALSE
    MaxBroker = 2
    MaxIntents = 2
PROPERTIES
    EverySubmissionSettles
CHECK_DEADLOCK FALSE
