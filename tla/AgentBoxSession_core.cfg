SPECIFICATION Spec
CONSTANTS
    ExecJobs = {e1}
    SubJobs = {s1}
    Turns = {t1, t2}
    NoTurn = NoTurn
    MaxInstances = 2
    ExecCap = 1
    SlowTeardown = FALSE
    SerialPrompts = TRUE
    ContextChanges = FALSE
    Handoffs = FALSE
    SetupMayFail = FALSE
INVARIANTS
    OneBrainPerSession
    ResidencyIsSound
    StopHaltsJobs
SYMMETRY Prompts
CHECK_DEADLOCK FALSE
