SPECIFICATION Spec
CONSTANTS
    acme = acme
    pdf1 = pdf1
    text = text
    Keys = {k1, k2}
    Orgs = {acme}
    OrgOf <- AllOfAcme
    Issued = {k1}
    Clients = {client1}
    Operators = {operator1}
    TTL = 2
    Texts = {text1, text2}
    Branches = {branch1, branch2, branch3}
    Uploads = {pdf1, pdf2}
    Contents = {text, scan}
    Reprocesses = {ask1, ask2}
    MaxVersion = 2
    MaxBatches = 2
    MaxAttempts = 1
INVARIANTS
    EmbeddedOnce
    BytesKept
PROPERTIES
    RevocationTakesEffect
    BranchesEnd
    NoLateJoin
    ProcessedIsIndexed
CHECK_DEADLOCK FALSE
