SPECIFICATION FairSpec
CONSTANTS
    Planes = {primary, cursor}
    None = None
    MayDestroy = TRUE
    MaxCommits = 2
    MaxFailures = 1
INVARIANTS TypeOK NeverBusy NewestKept ShownReadable
PROPERTIES FramesDroppedByMain HonestTimeout ImplementsUpdates PageflipsFinish
CHECK_DEADLOCK FALSE
