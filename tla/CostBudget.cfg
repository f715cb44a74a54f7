SPECIFICATION BudgetSpec
CONSTANTS
    Runs = {r1, r2, r3}
    Budget = 4
    MaxCost = 2
    MaxPrice = 3
    MaxActive = 3
    MaxLosses = 1
INVARIANTS
    NeverOvercharges
    OrderlyRunsAreCapped
SYMMETRY RunSymmetry
