CONSTANTS
    Clients = {c1, c2}
    MaxCells = 15
    MaxRefs = 1
    Plans <- MCPlans
SPECIFICATION Spec
SYMMETRY ClientSymmetry
CHECK_DEADLOCK FALSE
INVARIANTS
    CountsExact
    EndsOnce
    ParentsOutlive
    LiveIffReachable
    AbortMeansShared
