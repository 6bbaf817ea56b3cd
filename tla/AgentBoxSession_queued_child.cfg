SPECIFICATION Spec
CONSTANTS
    ExecJobs = {}
    SubJobs = {s1}
    Turns = {t1, t2}
    NoTurn = NoTurn
    MaxInstances = 2
    ExecCap = 1
    SlowTeardown = FALSE
    SerialPrompts = TRUE
    ContextChanges = FALSE
    Handoffs = FALSE
    SetupMayFail = FALSE
PROPERTIES
    StopReachesQueuedChild
CHECK_DEADLOCK FALSE
