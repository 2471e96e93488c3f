SPECIFICATION FairSpec
CONSTANTS
    Threads = {t1, t2}
    Display = Display
    None = None
    Mortal = {t1}
    Arguments = {t1}
    MaxProxies = 2
    MaxEvents = 2
INVARIANTS ReaderCountExact SleepersAwaited NoUseAfterFree
PROPERTIES ImplementsChannels EventsHandled SleepersReturn
CHECK_DEADLOCK FALSE
