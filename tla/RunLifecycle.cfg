SPECIFICATION Spec
CONSTANTS
    Runtimes = {r1, r2}
    NoRuntime = NoRuntime
    MaxSignals = 2
INVARIANTS
    TypeOK
    GatesGuardSpending
    VerdictHasEvidence
    OneCulprit
    TeardownUnlessCut
    SurvivorsAreReported
    RowFollowsRecord
PROPERTIES
    RunEnds
    ImplementsContract
