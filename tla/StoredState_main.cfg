SPECIFICATION Spec
CONSTANTS
    acme = acme
    Keys = {k1, k2}
    Orgs = {acme}
    OrgOf <- AllOfAcme
    Issued = {k1}
    Clients = {client1, client2}
    Operators = {operator1}
    TTL = 2
    IdemKeys = {idem1}
    Bodies = {body1, body2}
    Callers = {caller1, caller2}
    NoCaller = NoCaller
    MaxRevision = 1
    call1 = call1
    call2 = call2
    call3 = call3
    ref1 = ref1
    ref2 = ref2
    Calls = {call1, call2, call3}
    Operations = {ref1, ref2}
    OperationOf <- TwoUnderOneReference
    Estimate <- SecondCostsTwo
    MonthlyBudget = 2
    OperationBudget = 2
    NoAttempt = NoAttempt
    MaxMonth = 1
    Inputs = {input1, input2}
    Fills = {fill1, fill2, fill3}
    Purges = {purge1}
    Sealed = {input2}
    Nobody = Nobody
    MaxExpiry = 1
    Sources = {source1, source2, source3}
    Editors = {editor1, editor2}
    MaxRevisions = 4
    MaxGeneration = 4
    MaxLinks = 1
    MaxRemoved = 1
SYMMETRY Interchangeable
INVARIANTS
    TypeOK
    WithdrawnKeysExplained
    CalledOncePerKey
    SpendingWithinBudget
    PaidOnce
    ModificationsAcyclic
PROPERTIES
    CaptureStable
    KeepsPromise
CHECK_DEADLOCK FALSE
