SPECIFICATION AllSpec
CONSTANTS
    CanisterIds = {1, 2}
    MaxName = 1
    MaxCanisters = 1
    MaxAttempts = 2
    MaxFailures = 1
    k1 = k1
    k2 = k2
    TopUps = {k1, k2}
CHECK_DEADLOCK FALSE
INVARIANTS
    SuccessIsListed
    NeverForgotten
PROPERTIES
    PaidIsListedOrRejected
    LatestTopUpSettles
