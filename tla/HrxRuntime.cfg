SPECIFICATION FairSpec
CONSTANTS
    Clients = {c1}
    Devices = {d1, d2, d3}
    Objects = {o1, o2}
    HRX_MAX_DEVICES = 2
    InfoLists <- Reports
    NoObject = NoObject
INVARIANTS
    TypeOK
    InitCountExact
    NothingLeaked
    DevicesUseSharedPool
    TablesComplete
PROPERTIES InitializationReturns
