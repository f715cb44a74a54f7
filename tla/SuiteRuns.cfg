SPECIFICATION Spec
CONSTANTS
    NUnits = 3
    Budgets = {1, 2, 3}
    NStreams = 2
    NConns = 3
INVARIANTS
    
    EvidenceIsSound
    NumbersAreHonest
    TraceIsFaithful
PROPERTY
    SuiteEnds
CHECK_DEADLOCK FALSE
