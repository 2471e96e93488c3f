SPECIFICATION FairSpec
CONSTANTS
    Clients = {c1, c2}
    Phase2Clients = {c2}
    Late = {c2}
    None = None
    MayRefuse = TRUE
    MayRestore = TRUE
    Leftovers = FALSE
    MaxRequests = 2
INVARIANTS InteractingConnected OneDialog
PROPERTIES SavedBeforeKilled KillOnlyAfterSaving ClosedWhenComplete LogoutEnds
CHECK_DEADLOCK FALSE
