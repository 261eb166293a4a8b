SPECIFICATION Spec
CONSTANTS
    Replicas = {a}
    Calls = {schedule, admin}
    Sinks = {}
    FromStart = {}
    Kept <- AllIds
    Integrity = TRUE
    SealLimit = 2
    BatchSize = 1
    ReadPage = 1
    MaxEvents = 1
    AuditDays = 2
    Settle = 1
    MaxOpen = 1
    MaxId = 3
    MaxAnchors = 2
    Horizon = 3
    None = None
INVARIANTS TypeOK WindowVerifies ChainLinked AnchorsMatch
CHECK_DEADLOCK FALSE
SYMMETRY Symmetry
