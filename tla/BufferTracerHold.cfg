SPECIFICATION Spec
CONSTANTS
    Threads = {t1, t2}
    p1 = p1
    p2 = p2
    p3 = p3
    Pointers = {p1, p2, p3}
    HostFuns = {k1}
    Filtered = {k1}
    MAX_TRACKED_BUFFERS = 1
    Settings <- Synchronizing
    MaxCalls = 2
    MaxHostFunctions = 1
    NoPointer = NoPointer
    NoThread = NoThread
INVARIANTS HoldingIsSafe
CHECK_DEADLOCK FALSE
