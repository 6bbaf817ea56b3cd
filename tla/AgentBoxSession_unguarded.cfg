SPECIFICATION Spec
CONSTANTS
    ExecJobs = {e1}
    SubJobs = {}
    Turns = {t1, t2}
    NoTurn = NoTurn
    MaxInstances = 2
    ExecCap = 1
    SlowTeardown = TRUE
    SerialPrompts = FALSE
    ContextChanges = TRUE
    Handoffs = TRUE
    SetupMayFail = TRUE
INVARIANTS
    TypeOK
    PromptMutex
    NoticesAreSound
SYMMETRY Prompts
CHECK_DEADLOCK FALSE
