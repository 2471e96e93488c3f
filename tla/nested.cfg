SPECIFICATION Spec
CONSTANTS
    r = r
    m = m
    a = a
    b = b
    None = None
    Surfaces = {r, m, a}
    Transactions = {t1,t2,t3,t4}
    InitialParent <- Nested
    CommitShapes <- MixedShapes
    Fenced = {m}
    Desyncers = {a}
    Reparented = {}
    Adopters = {}
    Resettable = {r}
    Destroyable = {}
    MayDisconnect = FALSE
    MaxCommits <- NestedCommits
    MaxGeneration = 3
INVARIANTS SyncedTogether MappedWithParent NoMissedWakeup AppliedOnce
CHECK_DEADLOCK FALSE
