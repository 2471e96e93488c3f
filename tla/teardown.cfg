SPECIFICATION Spec
CONSTANTS
    r = r
    m = m
    a = a
    b = b
    None = None
    Surfaces = {r, m, a, b}
    Transactions = {t1,t2,t3,t4}
    InitialParent <- Tree
    CommitShapes <- Frames
    Fenced = {r, a}
    Desyncers = {}
    Reparented = {m}
    Adopters = {a}
    Resettable = {}
    Destroyable = {r, m, a, b}
    MayDisconnect = TRUE
    MaxCommits <- TeardownCommits
    MaxGeneration = 3
INVARIANTS TypeOK QueueLinks NoDanglingTransaction NoLeak ChildListsExact
PROPERTIES AppliedInOrder
CHECK_DEADLOCK FALSE
