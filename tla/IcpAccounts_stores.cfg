SPECIFICATION AllSpec
CONSTANTS
    a1 = a1
    a2 = a2
    Accounts = {a1, a2}
    Main = a1
    MaxTransfers = 1
    MaxRequests = 3
    MaxFailures = 1
    Wallets = {w1, w2}
    OldApps = {w2}
    Tabs = {t1, t2}
    MaxCalls = 2
CHECK_DEADLOCK FALSE
INVARIANTS
    ReadsOwnWrites
    StoresAreSound
    SigningIsSound
PROPERTY
    ShowsFreshestAnswer
