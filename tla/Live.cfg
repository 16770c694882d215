SPECIFICATION AllSpec
CONSTANTS
    Tasks = {t1, t2}
    Principals = {p1}
    MaxBlocks = 2
    MaxArchives = 1
    BatchSize = 2
    MaxExceptional = 1
    MaxFailures = 1
    s1 = s1
    s2 = s2
    Slots = {s1, s2}
    MaxChain = 5
    PageLimit = 2
    n1 = n1
    n2 = n2
    a = a
    Neurons = {n1, n2}
    Proposals = {a}
    Follows <- SecondFollowsFirst
    Votes = {"yes"}
    MaxOpens = 1
    MaxVotes = 1
    MaxEvents = 1
    CanisterIds = {1, 2}
    MaxName = 0
    MaxCanisters = 2
    Forced = {"query"}
    MaxLoads = 2
    MaxReads = 2
    MaxMoves = 1
    MaxDialogs = 1
    MaxTroubles = 1
    SlowSlots = {1}
    FastSlots = {1}
    PageSize = 2
    StartBefore = 1
    FastBefore = 1
    MaxTime = 2
    MaxUpgrades = 1
    Tabs = {t1, t2}
    MaxSignIns = 1
    MaxReloads = 1
    MaxChecks = 2
CHECK_DEADLOCK FALSE
INVARIANTS
    PartsAreSound
PROPERTIES
    EverythingIsSettled
    EverythingIsShown
    PagesSettle
    SnsListBecomesCurrent
