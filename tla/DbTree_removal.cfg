SPECIFICATION Spec
CONSTANTS
    Schemas <- MCSchemas
    Names <- MCDottedNames
    Bodies <- MCDottedBodies
    Catalogs <- MCDottedCatalogs
    Paths <- MCDottedPaths
    DdlPaths <- MCDottedDdlPaths
    MaxChanges = 1
PROPERTIES
    RemovesWhatItNames
