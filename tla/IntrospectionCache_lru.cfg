\* Every option of the constructor, three keys and two values.
SPECIFICATION FairSpec
CONSTANTS
    k1 = k1
    k2 = k2
    k3 = k3
    v1 = v1
    v2 = v2
    None = None
    Keys <- MCKeys
    Values <- MCValues
    Ttls <- MCTtls
    Limits <- MCLimits
INVARIANTS
    RecencyTracksEntries
    SizeWithinLimit
PROPERTIES
    MutexReleased
    ImplementsLru
