SPECIFICATION Spec
CONSTANTS
    Schemas <- MCSchemas
    Names <- MCNames
    Bodies <- MCBodies
    Catalogs <- MCCatalogs
    Paths <- MCPaths
    DdlPaths <- MCDdlPaths
    MaxChanges = 3
INVARIANTS
    TypeOK
    ListingIsRegular
    AnswersAreRegular
    FailsOnlyIfMissing
PROPERTIES
    RemovalUsesOwnChanges
    RemovesWhatItNames
