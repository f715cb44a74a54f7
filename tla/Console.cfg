SPECIFICATION ConsoleSpec
CONSTANTS
    Runs = {r1, r2, r3}
    Handlers = {h1}
    MAX_ACTIVE_RUNS = 2
    Prompt = TRUE
    Threads = {t1, t2}
    Launches = {l1}
    MaxUpsets = 1
    Listers = {t1, t2}
    Paths = {p1, p2}
    MaxVersions = 2
    MaxRemovals = 1
    MaxRows = 2
INVARIANTS
    CapHolds
    RequestsHold
    ViewsHold
PROPERTIES
    WaitedForIsCollected
CHECK_DEADLOCK FALSE
