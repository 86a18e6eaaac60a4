SPECIFICATION Spec
CONSTANTS
    None = None
    MaxBatches = 2
    Sizes <- MCSizes
    Requests <- MCRequests
    Offsets <- MCOffsets
    MaxPosition <- MCMaxPosition
INVARIANTS
    TypeOK
    KnownSizeIsComplete
    Lazy
    InOrder
PROPERTIES
    ImplementsByteFile
    CallReturns
