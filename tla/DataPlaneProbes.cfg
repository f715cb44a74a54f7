SPECIFICATION DataPlaneSpec
CONSTANTS
  Probes = {p1, p2}
  None = none
  WarmAttempts = 1
  MaxUpsets = 2
  FastCount = 2
  SlowLatency = 1
  MaxPace = 2
  Workers = {w1, w2, w3}
  MaxCalls = 4
  MaxBlips = 2
INVARIANTS
    FaultVerdictsHold
    LoadVerdictsHold
CHECK_DEADLOCK FALSE
