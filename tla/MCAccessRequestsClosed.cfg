SPECIFICATION FairSpec
CONSTANTS
    Users = {ann}
    Clusters = {c1}
    Roles = {view, edit}
    Requestable = {view, edit}
    Namespaces = {}
    Admins = {root}
    Requests = {r1, r2}
    Procs = {p1}
    Durations = {1}
    PendingTTL = 1
    SyncRoles = FALSE
    HandlersDie = FALSE
    Horizon = 1
    MaxVersion = 2
    None = None
PROPERTY ApprovedEnds
CHECK_DEADLOCK FALSE
