SPECIFICATION Spec
CONSTANTS
    Replicas = {a}
    Calls = {schedule}
    Sinks = {s1}
    FromStart = {s1}
    Kept <- AllIds
    Integrity = TRUE
    SealLimit = 2
    BatchSize = 3
    ReadPage = 3
    MaxEvents = 1
    AuditDays = 2
    Settle = 1
    MaxOpen = 1
    MaxId = 3
    MaxAnchors = 0
    Horizon = 3
    None = None
INVARIANT OnlyPrefixGoes
CHECK_DEADLOCK FALSE
