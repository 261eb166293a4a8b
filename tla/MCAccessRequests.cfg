SPECIFICATION Spec
CONSTANTS
    Users = {ann}
    Clusters = {c1}
    Roles = {view, edit}
    Requestable = {view, edit}
    Namespaces = {}
    Admins = {root}
    Requests = {r1, r2}
    Procs = {p1, p2}
    Durations = {1}
    PendingTTL = 1
    SyncRoles = TRUE
    HandlersDie = TRUE
    Horizon = 1
    MaxVersion = 2
    None = None
SYMMETRY Symmetry
INVARIANTS TypeOK ReturnsToBase GrantFollowsRequest ApprovalHoldsRequest
PROPERTIES DecidedOnce
CHECK_DEADLOCK FALSE
