SPECIFICATION Spec
CONSTANTS
    Clients = {c1, c2}
    Phase2Clients = {c2}
    Late = {}
    None = None
    MayRefuse = FALSE
    MayRestore = FALSE
    Leftovers = TRUE
    MaxRequests = 1

PROPERTY KillOnlyAfterSaving
CHECK_DEADLOCK FALSE
