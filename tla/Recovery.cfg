SPECIFICATION AllSpec
CONSTANTS
    n1 = n1
    n2 = n2
    Neurons = {n1, n2}
    NoMemo = NoMemo
    PageLimit = 2
    MaxTopUps = 1
    MaxTroubles = 1
    MaxSessions = 2
    f1 = f1
    f2 = f2
    Flows = {f1, f2}
    MaxTickets = 2
    MaxLost = 2
    MaxFailures = 2
    g1 = g1
    Followees = {g1}
    Memos <- ThreeAccounts
    MinStake = 1
    Fee = 1
    Amounts = {1, 3}
    MaxDelay = 2
    MaxOps = 1
    MinParticipant = 2
    MaxParticipant = 3
    MaxIcp = 3
    Forces = {"query", "query_and_update"}
    MaxFailed = 1
    MaxVisits = 2
SYMMETRY Symmetry
CHECK_DEADLOCK FALSE
INVARIANTS
    PagesAreRight
    PaymentsAreSafe
PROPERTIES
    ParticipationSettles
