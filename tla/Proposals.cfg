SPECIFICATION AllSpec
CONSTANTS
    n1 = n1
    n2 = n2
    a = a
    b = b
    Neurons = {n1, n2}
    Proposals = {a, b}
    Follows <- SecondFollowsFirst
    Votes = {"yes"}
    Kinds = {"nns", "sns"}
    MaxOpens = 2
    MaxVotes = 1
    MaxEvents = 1
    Forced = {"query"}
    MaxId = 5
    TopicOf <- TopicList
    Native = {"upgrade", "management"}
    Generic = {"generic1", "generic2"}
    Limit = 2
    MaxPages = 2
    MaxRequests = 4
    MaxSnsRequests = 2
    MaxFilters = 1
    MaxFailures = 1
    Whole = 6
    Totals = {1, 2, 3, 4, 5, 6}
    Thresholds <- AllThresholds
    MaxNow = 2
SYMMETRY Symmetry
CHECK_DEADLOCK FALSE
INVARIANTS
    NoVoteLostSilently
    VotingIsShown
    ListsAreComplete
    StatusIsGovernances
