SPECIFICATION FairSpec
CONSTANTS
    ExecJobs = {e1}
    SubJobs = {s1}
    Turns = {t1}
    NoTurn = NoTurn
    MaxInstances = 2
    ExecCap = 1
    SlowTeardown = FALSE
    SerialPrompts = TRUE
    ContextChanges = FALSE
    Handoffs = TRUE
    SetupMayFail = FALSE
INVARIANTS
    NoLostNotice
PROPERTIES
    ImplementsNotices
    SettledJobIsAnswered
    StoppedPromptEnds
    QuietSessionIsReleased
CHECK_DEADLOCK FALSE
