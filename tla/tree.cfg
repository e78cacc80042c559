SPECIFICATION TreeSpec
CONSTANTS
    MaxIds = 6
    Ids <- MCIds
    Names <- MCNames
    MaxNew = 1
    MaxCalls = 3
    Special = {"s"}
    Args <- MCArgs
    Paths <- MCPaths
    Archives <- MCArchives
    Pickles <- MCPickles
INVARIANT TreeInv
PROPERTIES
    ShapeKept
    RefusalChangesNothing
    CutsOnlyNamed
VIEW MCView
CHECK_DEADLOCK FALSE
