SPECIFICATION FairSpec
CONSTANTS
    Positions = {center, corner}
    Sizes = {small, full}
    Center = center
    Corner = corner
    Full = full
    None = None
    MaxRequests = 2
    MaxFrames = 2
INVARIANTS Agreement EventsAwaited MoveSticks
PROPERTIES StatesReached
CHECK_DEADLOCK FALSE
