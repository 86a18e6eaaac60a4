SPECIFICATION Spec
CONSTANTS
    None = None
    MaxInt = 7
    MaxExact = 4
    MaxBinds = 2
    ChunkSize = 2
    Columns <- MCColumns
    Scenarios <- MCScenarios
    Bounds <- MCBounds
INVARIANTS
    FailsOnlyForUnmapped
    SchemaHolds
    ReadsBack
    AdaptersAgree
CHECK_DEADLOCK FALSE
