SPECIFICATION Spec
CONSTANTS
    Sources <- Arrays
    Wastage = 16
INVARIANTS
    RoundTrip
    NoOverrun
    LoadsAligned
    SizeBound
    KeysTrailRun
PROPERTY
    Termination
CHECK_DEADLOCK FALSE
