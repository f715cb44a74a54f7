SPECIFICATION Spec
CONSTANTS
    TaskIds = {t1, t2}
    PlanLength = 2
    MaxRuntimes = 2
    MaxFaults = 1
INVARIANTS
    CampaignKeepsFaith
PROPERTIES
    CampaignEnds
