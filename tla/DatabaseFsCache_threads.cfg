\* Two threads and other connections on one filesystem.
SPECIFICATION Spec
CONSTANTS
    t1 = t1
    t2 = t2
    k1 = k1
    k2 = k2
    None = None
    Threads <- TwoThreads
    Keys <- MCKeys
    Ttls <- MCTtls
    Limits <- MCLimits
    MaxVersion = 2
INVARIANTS
    StaleOnlyIfOvertaken
PROPERTIES
    EventuallyFresh
