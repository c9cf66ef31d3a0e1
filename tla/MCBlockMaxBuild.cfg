SPECIFICATION Spec
CONSTANTS
    BlockSize = 2
    MaxSize = 100
    Lists <- MCLists
INVARIANTS
    TypeOK
    BoundsSound
    BoundsTight
CHECK_DEADLOCK FALSE
