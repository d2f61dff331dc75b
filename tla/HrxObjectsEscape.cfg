CONSTANTS
    Clients = {c1}
    MaxCells = 8
    MaxRefs = 1
    Plans <- MCEscapePlan
SPECIFICATION Spec
CHECK_DEADLOCK FALSE
INVARIANT
    UseAfterParentShutdownUnrepresentable
