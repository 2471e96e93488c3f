SPECIFICATION FairSpec
CONSTANTS
    r = r
    m = m
    a = a
    b = b
    None = None
    Surfaces = {r, a}
    Transactions = {t1,t2,t3,t4}
    InitialParent <- Pair
    CommitShapes <- FifoShapes
    Fenced = {}
    Desyncers = {a}
    Reparented = {}
    Adopters = {}
    Resettable = {}
    Destroyable = {}
    MayDisconnect = FALSE
    MaxCommits <- PairCommits
    MaxGeneration = 1
INVARIANTS UnmappedHasNoBarrier
PROPERTIES CommitsShown
CHECK_DEADLOCK FALSE
