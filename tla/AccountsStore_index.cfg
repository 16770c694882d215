SPECIFICATION AllSpec
CONSTANTS
    Principals = {p1, p2}
    Cmc = cmc
    CanisterIds = {}
    MaxName = 0
    MaxSub = 2
    MaxWallets = 2
    MaxCanisters = 0
    MaxTokens = 0
    AccountLimit = 3
    MaxHeight = 2
    Keys = {1, 2, 3}
    Accounts = {a, b}
    NoAccount = none
    StepSize = 2
    StepSizeMax = 2
    Slots = {s1, s2}
    Roots = {"", "app", "app/x", "up1", "up2"}
    Bundles <- TwoBundles
    Uploads <- TwoUploads
    Arguments = {args1, args2}
    PlainText = plain
    PageSize = 2
    E8s = 1
    Margin = 1
    Rates <- TwoRates
    Amounts = {50}
    Calls = {c1}
    MaxEntries = 3
    MaxTime = 3
SYMMETRY Symmetry
INVARIANTS
    StoreIsConsistent
    PaymentsAreThePayers
    MigrationIsSound
    AssetsAreSound
    HeapIsKept
PROPERTY
    ProxyIsOneMap
