CONSTANTS
    c1 = c1
    c2 = c2
    Clients = {c1, c2}
    MaxOps = 3
    Plans <- MCPlans
    SignBit = 4
    Timeouts <- MCTimeouts
    Faults <- MCFaults
SPECIFICATION FairSpec
CHECK_DEADLOCK FALSE
INVARIANTS
    CommandBufferOwned
    ThunkOwned
    CompletionSound
    ErrorsExplained
PROPERTIES
    ForeverWaitsReturn
    LimitedWaitsReturn
    HostCallsSettle
