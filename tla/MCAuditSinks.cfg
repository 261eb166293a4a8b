SPECIFICATION Spec
CONSTANTS
    Replicas = {a, b}
    Calls = {schedule}
    Sinks = {s1}
    FromStart = {s1}
    Kept <- OddIds
    Integrity = FALSE
    SealLimit = 2
    BatchSize = 1
    ReadPage = 2
    MaxEvents = 1
    AuditDays = 2
    Settle = 1
    MaxOpen = 1
    MaxId = 3
    MaxAnchors = 0
    Horizon = 3
    None = None
SYMMETRY Symmetry
INVARIANTS CursorMeansSent PurgedWereSent
CHECK_DEADLOCK FALSE
