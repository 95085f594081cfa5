\* One operator toggles an Organization while two of its keys are verified.
SPECIFICATION Spec
CONSTANTS
    acme = acme
    Keys = {k1, k2}
    Orgs = {acme}
    OrgOf <- AllOfAcme
    Issued = {k1, k2}
    Clients = {client1, client2}
    Operators = {operator1}
    TTL = 2
    IdemKeys = {idem1}
    Bodies = {body1, body2}
    Callers = {caller1}
    NoCaller = NoCaller
    MaxRevision = 1
    call1 = call1
    call2 = call2
    call3 = call3
    ref1 = ref1
    ref2 = ref2
    Calls = {call1, call2, call3}
    Operations = {ref1, ref2}
    OperationOf <- TwoUnderOneReference
    Estimate <- SecondCostsTwo
    MonthlyBudget = 2
    OperationBudget = 2
    NoAttempt = NoAttempt
    MaxMonth = 0
    Inputs = {input1}
    Fills = {fill1}
    Purges = {purge1}
    Sealed = {}
    Nobody = Nobody
    MaxExpiry = 1
    Sources = {source1}
    Editors = {editor1}
    MaxRevisions = 1
    MaxGeneration = 1
    MaxLinks = 1
    MaxRemoved = 1
CHECK_DEADLOCK FALSE
INVARIANT
    TenantKeysDropped
