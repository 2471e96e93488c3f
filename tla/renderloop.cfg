SPECIFICATION FairSpec
CONSTANTS
    Layers = {scene, cursor}
    MaxPendingFrameCount = 2
    Modes = {"VSync", "AdaptiveSync"}
    MayFail = TRUE
    MaxInhibit = 2
    MaxRequests = 4
    MaxInhibitions = 2
INVARIANTS FrameCountExact NoForgottenRepaint FrameLimit
PROPERTIES RepaintsHappen
CHECK_DEADLOCK FALSE
