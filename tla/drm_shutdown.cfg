SPECIFICATION FairSpec
CONSTANTS
    Planes = {primary, cursor}
    None = None
    MayDestroy = TRUE
    MaxCommits = 1
    MaxFailures = 0
PROPERTIES DestructorReturns
CHECK_DEADLOCK FALSE
