SPECIFICATION FairSpec
CONSTANTS
    Threads = {t1, t2}
    Routed = {"hipMalloc", "hipModuleLoad"}
    Wrapped = {"hipMalloc"}
    Direct = {"hipFreeHost"}
    MaxCalls = 2
INVARIANTS TypeOK InterceptorSeesCalls UsesMapped
PROPERTIES GlobalsFixed CallsReturn
CHECK_DEADLOCK FALSE
