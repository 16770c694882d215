SPECIFICATION FairSpec
CONSTANTS
    CanisterIds = {1}
    MaxName = 1
    MaxCanisters = 1
    MaxAttempts = 2
    MaxFailures = 1
CHECK_DEADLOCK FALSE
PROPERTY
    PaidIsListed
