SPECIFICATION Spec
CONSTANTS
    K = 2
    NumDocs = 5
    Seeds = {0, 1, 2, 3}
    Scores <- MCScores
INVARIANTS
    TypeOK
    SafeTopK
    SameAsExhaustive
CHECK_DEADLOCK FALSE
