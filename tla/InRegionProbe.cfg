SPECIFICATION Spec
CONSTANTS
    NCampaigns = 2
    Named = {}
    FirstJobs = 2
    LaterJobs = 1
    MaxFaults = 1
INVARIANTS
    JobsAreKept
PROPERTIES
    EverythingEnds
