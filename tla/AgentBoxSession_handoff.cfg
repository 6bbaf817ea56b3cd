SPECIFICATION Spec
CONSTANTS
    ExecJobs = {e1}
    SubJobs = {}
    Turns = {t1, t2}
    NoTurn = NoTurn
    MaxInstances = 2
    ExecCap = 1
    SlowTeardown = TRUE
    SerialPrompts = TRUE
    ContextChanges = TRUE
    Handoffs = TRUE
    SetupMayFail = TRUE
PROPERTIES
    StopSilencesJobs
SYMMETRY Prompts
CHECK_DEADLOCK FALSE
