SPECIFICATION AllSpec
CONSTANTS
    p1 = p1
    p2 = p2
    Principals = {p1, p2}
    Cmc = cmc
    AccountLimit = 2
    CanisterIds = {1, 2, 3}
    MaxName = 2
    MaxCanisters = 2
    MaxTokens = 1
    MaxSub = 0
    MaxWallets = 0
    MaxHeight = 0
    Owned = {1, 2}
    Typed = {0, 1, 3, 4}
    People = {"me", "dev"}
    Forced = {"query", "query_and_update"}
    MaxLoads = 2
    MaxReads = 2
    MaxMoves = 2
    MaxDialogs = 1
    MaxTroubles = 1
SYMMETRY Symmetry
CHECK_DEADLOCK FALSE
INVARIANTS
    CanistersSound
    SettingsAreSound
PROPERTIES
    FullListGetsNoMore
    SuccessIsShown
