SPECIFICATION FairSpec
CONSTANTS
    process = process
    embed = embed
    again = again
    delete = delete
    Jobs = {process}
    Roots = {process}
    ChildOf <- ChainChildren
    Destructive = {}
    Notifying = {process}
    Workers = {w1}
    NoJob = NoJob
    NoWorker = NoWorker
    MaxAttempts = 2
    LeaseTicks = 1
    Lossy = TRUE
    MaxBroker = 1
    MaxIntents = 3
PROPERTIES
    OutboxResumesRuns
CHECK_DEADLOCK FALSE
