SPECIFICATION Spec
CONSTANTS
    q1 = q1
    q2 = q2
    o1 = o1
    o2 = o2
    None = None
    Queries <- MCQueries
    Ops <- MCOps
    MaxChunks = 2
    Pools <- MCPools
INVARIANTS
    OnlyOpenReadersBlock
    ConnectionsAreUsed
PROPERTIES
    DeliversResult
    EverythingReleased
CHECK_DEADLOCK FALSE
