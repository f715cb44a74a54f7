SPECIFICATION PlanSpec
CONSTANTS
    Warmup = 1
    Repeat = 2
    Fingerprints = {f1, f2}
    Nothing = Nothing
    MaxSessions = 2
    MaxFaults = 1
    Tasks = {a, b, c}
    MaxTasks = 3
INVARIANTS
    PlanIsSound
PROPERTIES
    PlanProgress
CHECK_DEADLOCK FALSE
