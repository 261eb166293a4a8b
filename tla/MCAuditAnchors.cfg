SPECIFICATION Spec
CONSTANTS
    Replicas = {a}
    Calls = {schedule}
    Sinks = {}
    FromStart = {}
    Kept <- AllIds
    Integrity = TRUE
    SealLimit = 2
    BatchSize = 3
    ReadPage = 1
    MaxEvents = 1
    AuditDays = 2
    Settle = 1
    MaxOpen = 1
    MaxId = 3
    MaxAnchors = 1
    Horizon = 3
    None = None
INVARIANT AnchorsStayEvidence
CHECK_DEADLOCK FALSE
