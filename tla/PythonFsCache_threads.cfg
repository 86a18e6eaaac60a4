\* Two threads of one filesystem, with no time passing.
SPECIFICATION Spec
CONSTANTS
    t1 = t1
    t2 = t2
    k1 = k1
    k2 = k2
    None = None
    Threads <- TwoThreads
    Keys <- OneKey
    Ttls <- LongTtl
    Limits <- Unlimited
    MaxVersion = 2
    Expiry = None
    MaxTime = 0
INVARIANTS
    StaleOnlyIfRaced
    RefreshIsCurrent
SYMMETRY ThreadSymmetry
