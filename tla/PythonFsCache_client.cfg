\* One client of a filesystem with both caches.
SPECIFICATION Spec
CONSTANTS
    t1 = t1
    t2 = t2
    k1 = k1
    k2 = k2
    None = None
    Threads <- OneThread
    Keys <- OneKey
    Ttls <- LongTtl
    Limits <- AllLimits
    MaxVersion = 2
    Expiry = 1
    MaxTime = 5
INVARIANTS
    ReadsOwnWrites
    LifetimesAddUp
