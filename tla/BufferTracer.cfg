SPECIFICATION FairSpec
CONSTANTS
    Threads = {t1, t2}
    p1 = p1
    p2 = p2
    p3 = p3
    Pointers = {p1, p2, p3}
    HostFuns = {k1, k2}
    Filtered = {k1}
    MAX_TRACKED_BUFFERS = 2
    Settings <- MCSettings
    MaxCalls = 2
    MaxHostFunctions = 1
    NoPointer = NoPointer
    NoThread = NoThread
INVARIANTS TypeOK EntriesLive NoneForgotten TraceInCallOrder DumpsPaired
PROPERTIES CallsReturn
CHECK_DEADLOCK FALSE
