SPECIFICATION FairSpec
CONSTANTS
    Repos = {x, y}
    Refs = {main, dev}
    Shas = {c1, c2}
    DefaultRef = main
    Ids = {i1, i2, i3}
    MaxRunning = 2
    MaxPerRepo = 1
    MaxWaiting = 2
    KeepRunning = FALSE
    CancelDefaultBranch = FALSE
    Crashes = TRUE
    None = None
INVARIANTS TypeOK IndexesAgree NoIdlePlace JobsAccountedFor
PROPERTIES StartsWithinCaps WaitingEnds
CHECK_DEADLOCK FALSE
