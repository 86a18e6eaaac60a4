SPECIFICATION Spec
CONSTANTS
    t1 = t1
    t2 = t2
    q1 = q1
    q2 = q2
    o1 = o1
    w1 = w1
    w2 = w2
    a1 = a1
    r1 = r1
    None = None
    Threads <- MCThreads
    Queries <- MCQueries
    Ops <- MCOps
    Inserts <- MCInserts
    Asks <- MCAsks
    Relations <- MCRelations
    Programs <- MCPrograms
    Pools <- MCPools
    MaxChunks = 2
    Chunks = 2
INVARIANTS
    FreezesOnlyByCycles
    WaitsOnlyForReaders
    CommittedOnce
    OwnRowsUnlessOverlapped
CHECK_DEADLOCK FALSE
