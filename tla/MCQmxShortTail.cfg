SPECIFICATION Spec
CONSTANTS
    Sources <- Short
    Wastage = 16
INVARIANT ShortTailInBytes
CHECK_DEADLOCK FALSE
