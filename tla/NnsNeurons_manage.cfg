SPECIFICATION SomeSpec
CONSTANTS
    n1 = n1
    n2 = n2
    f1 = f1
    Neurons = {n1, n2}
    Followees = {f1}
    MaxDelay = 2
    MaxOps = 2
    MaxLists = 1
SYMMETRY Symmetry
CHECK_DEADLOCK FALSE
INVARIANTS
    ShownAsTheyAre
    NoLostUpdates
    OffersAreAccepted
