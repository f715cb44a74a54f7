SPECIFICATION Spec
CONSTANTS
    Procs = {p1, p2}
    Keys = {k1, k2}
    NoKey = NoKey
    NoProc = NoProc
    MaxAttempts = 3
INVARIANTS
    TypeOK
    AtMostOnce
    ReceiptsAreTrue
PROPERTIES
    AttemptsEnd
    ImplementsBoundary
