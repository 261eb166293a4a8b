SPECIFICATION TokensSpec
CONSTANTS
    Users = {ann}
    Clusters = {c1}
    Roles = {view, edit}
    Requestable = {view, edit}
    Namespaces = {n1}
    Admins = {root}
    Requests = {r1}
    Procs = {p1}
    Durations = {1}
    PendingTTL = 1
    SyncRoles = FALSE
    HandlersDie = TRUE
    Horizon = 1
    MaxVersion = 2
    Devices = {laptop}
    None = None
INVARIANTS TokensTypeOK AcceptedTokenShowsGrants
PROPERTIES ChangeEndsTokens
CHECK_DEADLOCK FALSE
