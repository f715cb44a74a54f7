SPECIFICATION Spec
CONSTANT
    MaxFaults = 3
INVARIANTS
    DiskIsSound
    NothingVanishes
