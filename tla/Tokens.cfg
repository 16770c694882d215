SPECIFICATION AllSpec
CONSTANTS
    Wallets = {"icp", "icrc", "ckbtc"}
    Histories <- SomeHistories
    Fee = 1
    MinAmount = 1
    Amounts = {1}
    MaxAttempts = 2
    PageSize = 2
    MaxNew <- SomeNew
    a = a
    b = b
    c = c
    Ledgers = {a, b, c}
    MaxImported = 2
    Forced = {"query", "query_and_update"}
    MaxVisits = 2
    MaxDialogs = 2
    MaxPayments = 2
    MaxTroubles = 1
SYMMETRY Symmetry
CHECK_DEADLOCK FALSE
INVARIANTS
    WalletIsSound
    ImportedTokensAreKept
