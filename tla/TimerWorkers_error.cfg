SPECIFICATION FairSpec
CONSTANTS
    Slots = {s1, s2}
    Kinds = {"balances"}
    MaxChain = 2
    PageLimit = 2
    MaxFailures = 1
CHECK_DEADLOCK FALSE
PROPERTY
    NotCalledAfterError
