SPECIFICATION Spec
CONSTANTS
    r = r
    m = m
    a = a
    b = b
    None = None
    Surfaces = {r, m, a}
    Transactions = {t1,t2,t3,t4}
    InitialParent <- Nested
    CommitShapes <- Frames
    Fenced = {}
    Desyncers = {}
    Reparented = {}
    Adopters = {}
    Resettable = {}
    Destroyable = {}
    MayDisconnect = FALSE
    MaxCommits <- NestedTwice
    MaxGeneration = 1
INVARIANTS NoWaitCycle
CHECK_DEADLOCK FALSE
