SPECIFICATION PlaneSpec
CONSTANTS
    MaxEvents = 2
    MaxLines = 1
    MaxFaults = 1
    MaxReconnects = 1
INVARIANTS
    StreamIsFaithful
    LiveNeverSwept
PROPERTIES
    NothingOutlivesTheWriter
