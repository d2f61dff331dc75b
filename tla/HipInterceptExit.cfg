SPECIFICATION Spec
CONSTANTS
    Threads = {t1, t2}
    Routed = {"hipMalloc"}
    Wrapped = {"hipMalloc"}
    Direct = {"hipFreeHost"}
    MaxCalls = 1
INVARIANTS ForwardsThroughActiveTable
CHECK_DEADLOCK FALSE
SYMMETRY ThreadsAlike
