SPECIFICATION Spec
CONSTANTS
    turn1 = turn1
    turn2 = turn2
    search1 = search1
    search2 = search2
    search3 = search3
    api1 = api1
    api2 = api2
    Searches = {search1, search2, search3}
    Turns = {turn1, turn2}
    Processes = {api1, api2}
    TurnOf <- TwoInTheFirstTurn
    ProcessOf <- OneTurnEach
    BatchPermits = 1
    ProcessPermits = 1
    Leases = 1
    BatchTime = 2
    LeaseTime = 4
    Delay = 1
    Assertions = {claim1, claim2}
    duty1 = duty1
    duty2 = duty2
    law = law
    act = act
    law1 = law1
    law2 = law2
    act1 = act1
    amendment = amendment
    Duties = {duty1, duty2}
    DependsOn <- SecondRestsOnFirst
    Passages = {law, act}
    Spans = {law1, law2, act1}
    PassageOf <- LawInTwoReadings
    Amendments = {amendment}
    Base <- OfTheLaw
    Modifier <- ByTheAct
    Rounds = 2
    Reviews = 1
    Identities = {edition1, edition2}
    Targets = {target1, target2}
    Proofs = {proof1, proof2}
    NoProof = NoProof
    MaxCorrections = 4
INVARIANTS
    PartialScopeProved
CHECK_DEADLOCK FALSE
