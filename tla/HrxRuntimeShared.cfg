SPECIFICATION Spec
CONSTANTS
    Clients = {c1, c2}
    Devices = {d1, d2, d3}
    Objects = {o1, o2}
    HRX_MAX_DEVICES = 1
    InfoLists <- Crowded
    NoObject = NoObject
SYMMETRY Interchangeable
INVARIANTS
    StrongCountExact
    DevicePointersLive
    SnapshotLive
