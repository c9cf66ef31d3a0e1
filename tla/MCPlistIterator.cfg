SPECIFICATION Spec
CONSTANTS
    BlockSize = 2
    MaxSize = 100
    Lists <- MCLists
    Ids <- MCIds
INVARIANTS
    TypeOK
    CachesSound
    BlockMaxExact
PROPERTY ImplementsCursor
CHECK_DEADLOCK FALSE
