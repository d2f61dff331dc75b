CONSTANTS
    Streams = {s1, s2}
    MaxOps = 1
    MaxTimepoint = 2
    MaxFaults = 1
    MaxRefs = 1
    MaxMoves = 3
    Reserving = {s1}
SPECIFICATION FairSpec
ACTION_CONSTRAINT ClientBudget
INVARIANTS DeviceNotStuck
PROPERTIES BlockedCallsReturn
CHECK_DEADLOCK FALSE
