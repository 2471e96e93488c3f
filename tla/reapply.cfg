SPECIFICATION Spec
CONSTANTS
    r = r
    m = m
    a = a
    b = b
    None = None
    Surfaces = {r, m, a}
    Transactions = {t1,t2,t3,t4}
    InitialParent <- Nested
    CommitShapes <- MappingShapes
    Fenced = {m}
    Desyncers = {m}
    Reparented = {a}
    Adopters = {r}
    Resettable = {}
    Destroyable = {}
    MayDisconnect = FALSE
    MaxCommits <- ReparentCommits
    MaxGeneration = 3
INVARIANTS AppliedOnce
CHECK_DEADLOCK FALSE
