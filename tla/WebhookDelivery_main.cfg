SPECIFICATION FairSpec
CONSTANTS
    Endpoints = {crm}
    Sources = {processed}
    Subscribed <- AllSubscribed
    Dispatchers = {d1, d2}
    Operators = {o1, o2}
    NoDispatcher = NoDispatcher
    NoKey = NoKey
    MaxAttempts = 2
    LeaseTicks = 1
    Crashing = TRUE
    MaxReplays = 1
INVARIANTS
    TypeOK
    HistoryIsTrue
    OutcomeBacked
    NumbersUsedOnce
PROPERTIES
    NoDeliveryReset
    DeliveriesSettle
